-------------------------- MODULE WalletFileProofs --------------------------
(* Theorems about the wallet's file, for any number of processes, seeds and   *)
(* files and any size of the pool.                                            *)
EXTENDS WalletFile, SequenceTheorems, TLAPS

\* Appending keeps the first record, and makes a new one first where there is
\* none.
LEMMA AppendFirst ==
  ASSUME NEW s \in Seq(Seed), NEW e \in Seed
  PROVE  /\ Append(s, e) \in Seq(Seed) /\ Append(s, e) # <<>>
         /\ Len(Append(s, e)) = Len(s) + 1
         /\ Append(s, e)[1] = IF s = <<>> THEN e ELSE s[1]
         /\ s # <<>> => s[1] \in Seed
         /\ DOMAIN Append(s, e) = DOMAIN s \cup {Len(s) + 1}
         /\ \A i \in DOMAIN s : Append(s, e)[i] = s[i]
         /\ Append(s, e)[Len(s) + 1] = e
OBVIOUS

\* No call is a call.
LEMMA NoCallIsCall == NoCall \in Call
BY DEF NoCall, Call, Step

\* An error leaves a call, or none.
LEMMA ErrorTypes ==
  ASSUME FileTypeOK, NEW p \in Process
  PROVE  /\ Refuse(p) => call' \in [Process -> Call]
         /\ Fail(p) => call' \in [Process -> Call]
<1>1. call[p] \in Call /\ call \in [Process -> Call]
  BY DEF FileTypeOK
<1>2. [call[p] EXCEPT !.pc = "remove", !.file = NoFile, !.lock = "none"] \in Call
  BY <1>1 DEF Call, Step
<1>3. Refuse(p) => call' \in [Process -> Call]
  BY <1>1, NoCallIsCall DEF Refuse
<1>4. Fail(p) => call' \in [Process -> Call]
  BY <1>1, <1>2, NoCallIsCall DEF Fail
<1> QED BY <1>3, <1>4

\* A record more is still records.
LEMMA GenerateTypes ==
  ASSUME FileTypeOK, NEW f \in File, NEW s \in Seed, Generate(f, s)
  PROVE  file' \in [File -> Content]
<1>1. Append(file[f].records, s) \in Seq(Seed)
  BY AppendFirst DEF FileTypeOK, Content
<1> QED BY <1>1 DEF FileTypeOK, Content, Generate

\* A call that goes on, binds a file or locks it is a call.
LEMMA GoesOn ==
  ASSUME NEW g \in [Process -> Call], NEW p \in Process, NEW pc \in Step
  PROVE  [g EXCEPT ![p].pc = pc] \in [Process -> Call]
<1>1. [g[p] EXCEPT !.pc = pc] \in Call
  BY DEF Call
<1> QED BY <1>1

LEMMA GoesOnBound ==
  ASSUME NEW g \in [Process -> Call], NEW p \in Process, NEW pc \in Step,
         NEW f \in File \cup {NoFile}
  PROVE  [g EXCEPT ![p].pc = pc, ![p].file = f] \in [Process -> Call]
<1>1. [g[p] EXCEPT !.pc = pc, !.file = f] \in Call
  BY DEF Call
<1>2. [g EXCEPT ![p].pc = pc, ![p].file = f] = [g EXCEPT ![p] = [g[p] EXCEPT !.pc = pc, !.file = f]]
  OBVIOUS
<1> QED BY <1>1, <1>2

LEMMA GoesOnLocked ==
  ASSUME NEW g \in [Process -> Call], NEW p \in Process, NEW pc \in Step,
         NEW lock \in {"none", "shared", "exclusive"}
  PROVE  [g EXCEPT ![p].pc = pc, ![p].lock = lock] \in [Process -> Call]
<1>1. [g[p] EXCEPT !.pc = pc, !.lock = lock] \in Call
  BY DEF Call
<1>2. [g EXCEPT ![p].pc = pc, ![p].lock = lock]
        = [g EXCEPT ![p] = [g[p] EXCEPT !.pc = pc, !.lock = lock]]
  OBVIOUS
<1> QED BY <1>1, <1>2

LEMMA GoesOnReleased ==
  ASSUME NEW g \in [Process -> Call], NEW p \in Process
  PROVE  [g EXCEPT ![p].pc = "open", ![p].file = NoFile, ![p].lock = "none"] \in [Process -> Call]
<1>1. [g[p] EXCEPT !.pc = "open", !.file = NoFile, !.lock = "none"] \in Call
  BY DEF Call, Step
<1>2. [g EXCEPT ![p].pc = "open", ![p].file = NoFile, ![p].lock = "none"]
        = [g EXCEPT ![p] = [g[p] EXCEPT !.pc = "open", !.file = NoFile, !.lock = "none"]]
  OBVIOUS
<1> QED BY <1>1, <1>2

\* A file of which one more address was used is still a file.
LEMMA UseTypes ==
  ASSUME NEW g \in [File -> Content], NEW f \in File
  PROVE  [g EXCEPT ![f].used = @ + 1] \in [File -> Content]
<1>1. [g[f] EXCEPT !.used = @ + 1] \in Content
  BY DEF Content
<1> QED BY <1>1

\* Every step keeps the types.
LEMMA TypeStep ==
  ASSUME FInv, [FileNext]_fileVars PROVE FileTypeOK'
<1>0. /\ FileTypeOK /\ file \in [File -> Content] /\ call \in [Process -> Call]
      /\ path \in File \cup {NoFile} /\ aside \subseteq File /\ created \subseteq File
      /\ \A p \in Process : CallMatches(p)
  BY DEF FInv, FileTypeOK
<1>1. ASSUME NEW p \in Process, NEW kind \in {"create", "open"}, NEW s \in Seed, LoadWallet(p, kind, s)
      PROVE  FileTypeOK'
  <2>1. [NoCall EXCEPT !.pc = "begin", !.kind = kind, !.seed = s] \in Call
    BY NoCallIsCall DEF Call, Step
  <2> QED BY <1>0, <1>1, <2>1 DEF LoadWallet, FileTypeOK
<1>2. ASSUME NEW p \in Process, Close(p) PROVE FileTypeOK'
  BY <1>0, <1>2, NoCallIsCall DEF Close, FileTypeOK
<1>3. ASSUME NEW p \in Process, CreateNew(p) PROVE FileTypeOK'
  <2>1. CASE Refuse(p) /\ UNCHANGED <<path, file>>
    BY <1>0, <1>3, <2>1, ErrorTypes DEF CreateNew, FileTypeOK
  <2>2. ASSUME NEW f \in Unused, path' = f, file' = [file EXCEPT ![f].stage = "empty"],
               call' = [call EXCEPT ![p].pc = "claimed"]
        PROVE  FileTypeOK'
    <3>1. file' \in [File -> Content]
      BY <1>0, <2>2 DEF Content, Stage, Unused
    <3>2. call' \in [Process -> Call]
      BY <1>0, <2>2 DEF Call, Step
    <3> QED BY <1>0, <1>3, <2>2, <3>1, <3>2 DEF CreateNew, FileTypeOK, Unused
  <2> QED BY <1>3, <2>1, <2>2 DEF CreateNew
<1>4. ASSUME NEW p \in Process, CloseClaim(p) PROVE FileTypeOK'
  <2>1. call' \in [Process -> Call]
    BY <1>0, <1>4 DEF CloseClaim, Call, Step
  <2> QED BY <1>0, <1>4, <2>1 DEF CloseClaim, FileTypeOK
<1>5. ASSUME NEW p \in Process, RemoveCreated(p) PROVE FileTypeOK'
  BY <1>0, <1>5, ErrorTypes DEF RemoveCreated, FileTypeOK
<1>6. ASSUME NEW p \in Process, OpenExisting(p) PROVE FileTypeOK'
  <2>1. call' = [call EXCEPT ![p].pc = "validate"] => call' \in [Process -> Call]
    BY <1>0 DEF Call, Step
  <2> QED BY <1>0, <1>6, <2>1, ErrorTypes DEF OpenExisting, FileTypeOK
<1>7. ASSUME NEW p \in Process, OpenReadOnly(p) PROVE FileTypeOK'
  <2>0. "share" \in Step
    BY DEF Step
  <2>1. [call EXCEPT ![p].pc = "share", ![p].file = path] \in [Process -> Call]
    BY <1>0, <2>0, GoesOnBound
  <2> QED BY <1>0, <1>7, <2>1, ErrorTypes DEF OpenReadOnly, FileTypeOK
<1>8. ASSUME NEW p \in Process, LockShared(p) PROVE FileTypeOK'
  <2>1. call' \in [Process -> Call]
    BY <1>0, <1>8, GoesOnLocked DEF LockShared, Step
  <2> QED BY <1>0, <1>8, <2>1 DEF LockShared, FileTypeOK
<1>9. ASSUME NEW p \in Process, ValidateExisting(p) PROVE FileTypeOK'
  <2>1. [call EXCEPT ![p].pc = "open", ![p].file = NoFile, ![p].lock = "none"] \in [Process -> Call]
    BY <1>0, GoesOnReleased
  <2> QED BY <1>0, <1>9, <2>1, ErrorTypes DEF ValidateExisting, FileTypeOK
<1>10. ASSUME NEW p \in Process, OpenDatabase(p) PROVE FileTypeOK'
  <2>1. ASSUME NEW f \in File, call' = [call EXCEPT ![p].pc = "lock", ![p].file = f]
        PROVE  call' \in [Process -> Call]
    BY <1>0, <2>1, GoesOnBound DEF Step
  <2>2. ASSUME NEW f \in File, file' = [file EXCEPT ![f].stage = "empty"]
        PROVE  file' \in [File -> Content]
    BY <1>0, <2>2 DEF Content, Stage
  <2>3. Unused \subseteq File
    BY DEF Unused
  <2>4. CASE path # NoFile /\ call' = [call EXCEPT ![p].pc = "lock", ![p].file = path]
             /\ UNCHANGED <<path, file>>
    BY <1>0, <1>10, <2>1, <2>4 DEF OpenDatabase, FileTypeOK
  <2>5. ASSUME NEW f \in Unused, path' = f, file' = [file EXCEPT ![f].stage = "empty"],
               call' = [call EXCEPT ![p].pc = "lock", ![p].file = f]
        PROVE  FileTypeOK'
    BY <1>0, <1>10, <2>1, <2>2, <2>3, <2>5 DEF OpenDatabase, FileTypeOK
  <2>6. CASE Fail(p) /\ UNCHANGED <<path, file>>
    BY <1>0, <1>10, <2>6, ErrorTypes DEF OpenDatabase, FileTypeOK
  <2> QED BY <1>10, <2>4, <2>5, <2>6 DEF OpenDatabase
<1>11. ASSUME NEW p \in Process, LockDatabase(p) PROVE FileTypeOK'
  <2>1. call' \in [Process -> Call]
    BY <1>0, <1>11, GoesOnLocked DEF LockDatabase, Step
  <2>2. file' \in [File -> Content]
    BY <1>0, <1>11 DEF LockDatabase, Content, Stage
  <2> QED BY <1>0, <1>11, <2>1, <2>2 DEF LockDatabase, FileTypeOK
<1>12. ASSUME NEW p \in Process, InitBuckets(p) PROVE FileTypeOK'
  <2>1. call' \in [Process -> Call]
    <3>1. call' = [call EXCEPT ![p].pc = "fill"] => call' \in [Process -> Call]
      BY <1>0 DEF Call, Step
    <3> QED BY <1>0, <1>12, <3>1, ErrorTypes DEF InitBuckets
  <2>2. file' \in [File -> Content]
    <3>1. call[p].file \in File
      BY <1>0, <1>12 DEF InitBuckets, CallMatches, Call
    <3>2. [file[call[p].file] EXCEPT !.stage = "ready"] \in Content
      BY <1>0, <3>1 DEF Content, Stage
    <3> QED BY <1>0, <1>12, <3>1, <3>2 DEF InitBuckets
  <2> QED BY <1>0, <1>12, <2>1, <2>2 DEF InitBuckets, FileTypeOK
<1>13. ASSUME NEW p \in Process, FillPool(p) PROVE FileTypeOK'
  <2>1. call[p].pc = "fill" /\ call[p].seed \in Seed /\ call[p].file \in File
    BY <1>0, <1>13 DEF FillPool, CallMatches, NoCall, Call
  <2>2. file' \in [File -> Content]
    BY <1>0, <1>13, <2>1, GenerateTypes DEF FillPool
  <2>3. call' \in [Process -> Call]
    <3>1. call' = [call EXCEPT ![p].pc = "idle"] => call' \in [Process -> Call]
      BY <1>0 DEF Call, Step
    <3> QED BY <1>0, <1>13, <3>1, ErrorTypes DEF FillPool
  <2>4. late \in BOOLEAN
    BY <1>0 DEF FileTypeOK
  <2>5. created' \subseteq File
    BY <1>0, <1>13, <2>1 DEF FillPool
  <2>6. late' \in BOOLEAN
    BY <1>13, <2>4, ZenonT(40) DEF FillPool
  <2> QED BY <1>0, <1>13, <2>2, <2>3, <2>5, <2>6 DEF FillPool, FileTypeOK
<1>14. ASSUME NEW p \in Process, UseAddress(p) PROVE FileTypeOK'
  <2>1. call[p].file \in File
    BY <1>0, <1>14 DEF UseAddress, HasWallet, Call
  <2>2. file' \in [File -> Content]
    BY <1>0, <1>14, <2>1, UseTypes DEF UseAddress
  <2>3. call' \in [Process -> Call]
    BY <1>0, <1>14, GoesOn DEF UseAddress, Step
  <2> QED BY <1>0, <1>14, <2>2, <2>3 DEF UseAddress, FileTypeOK
<1>19. ASSUME NEW p \in Process, RefillPool(p) PROVE FileTypeOK'
  <2>1. call[p].pc = "refill" /\ call[p].seed \in Seed /\ call[p].file \in File
    BY <1>0, <1>19 DEF RefillPool, CallMatches, NoCall, Call
  <2>2. file' \in [File -> Content]
    BY <1>0, <1>19, <2>1, GenerateTypes DEF RefillPool
  <2>3. call' \in [Process -> Call]
    <3>1. [call EXCEPT ![p].pc = "idle"] \in [Process -> Call]
      BY <1>0, GoesOn DEF Step
    <3> QED BY <1>0, <1>19, <3>1 DEF RefillPool
  <2> QED BY <1>0, <1>19, <2>2, <2>3 DEF RefillPool, FileTypeOK
<1>15. ASSUME NEW p \in Process, Crash(p) PROVE FileTypeOK'
  BY <1>0, <1>15, NoCallIsCall DEF Crash, FileTypeOK
<1>16. CASE MoveAside
  BY <1>0, <1>16 DEF MoveAside, FileTypeOK
<1>17. ASSUME NEW f \in File, PutBack(f) PROVE FileTypeOK'
  BY <1>0, <1>17 DEF PutBack, FileTypeOK
<1>18. CASE UNCHANGED fileVars
  BY <1>0, <1>18 DEF fileVars, FileTypeOK
<1> QED BY <1>1, <1>2, <1>3, <1>4, <1>5, <1>6, <1>7, <1>8, <1>9, <1>10, <1>11, <1>12, <1>13, <1>14,
           <1>15, <1>16, <1>17, <1>18, <1>19
        DEF FileNext, LibraryStep

\* An error leaves a call that holds nothing.
LEMMA ErrorCalls ==
  ASSUME FInv, NEW p \in Process, Fail(p)
  PROVE  \A q \in Process : CallMatches(q)'
<1>0. /\ call \in [Process -> Call] /\ \A q \in Process : CallMatches(q)
  BY DEF FInv, FileTypeOK
<1>1. \A q \in Process \ {p} : call'[q] = call[q]
  BY <1>0 DEF Fail
<1>2. CASE call[p].kind = "create"
  <2>1. call'[p] = [call[p] EXCEPT !.pc = "remove", !.file = NoFile, !.lock = "none"]
    BY <1>0, <1>2 DEF Fail
  <2>2. /\ call'[p].pc = "remove" /\ call'[p].kind = "create" /\ call'[p].seed = call[p].seed
        /\ call'[p].file = NoFile /\ call'[p].lock = "none"
    BY <1>0, <1>2, <2>1 DEF Call
  <2>3. call[p].seed \in Seed
    BY <1>0, <1>2 DEF CallMatches, NoCall
  <2> QED BY <1>0, <1>1, <2>2, <2>3 DEF CallMatches, HasWallet
<1>3. CASE call[p].kind # "create"
  <2>1. call'[p] = NoCall
    BY <1>0, <1>3 DEF Fail
  <2> QED BY <1>0, <1>1, <2>1 DEF CallMatches, HasWallet, NoCall
<1> QED BY <1>2, <1>3

\* What a call has bound and locked goes on to follow from where it is.
LEMMA CallsStep ==
  ASSUME FInv, [FileNext]_fileVars PROVE \A q \in Process : CallMatches(q)'
<1>0. /\ call \in [Process -> Call] /\ NoFile \notin File
      /\ path \in File \cup {NoFile} /\ Unused \subseteq File
      /\ \A q \in Process : CallMatches(q)
  BY FileAssumption DEF FInv, FileTypeOK, Unused
<1>1. ASSUME NEW p \in Process, NEW kind \in {"create", "open"}, NEW s \in Seed, LoadWallet(p, kind, s)
      PROVE  \A q \in Process : CallMatches(q)'
  BY <1>0, <1>1 DEF LoadWallet, NoCall, CallMatches, HasWallet, Call
<1>2. ASSUME NEW p \in Process, Close(p) PROVE \A q \in Process : CallMatches(q)'
  BY <1>0, <1>2 DEF Close, NoCall, CallMatches, HasWallet, Call
<1>3. ASSUME NEW p \in Process, CreateNew(p) PROVE \A q \in Process : CallMatches(q)'
  BY <1>0, <1>3 DEF CreateNew, Refuse, NoCall, CallMatches, HasWallet, Call
<1>4. ASSUME NEW p \in Process, CloseClaim(p) PROVE \A q \in Process : CallMatches(q)'
  <2>1. PICK next \in {"open", "remove"} : call' = [call EXCEPT ![p].pc = next]
    BY <1>4 DEF CloseClaim
  <2>2. /\ call'[p].pc = next /\ call'[p].kind = call[p].kind /\ call'[p].seed = call[p].seed
        /\ call'[p].file = call[p].file /\ call'[p].lock = call[p].lock
        /\ \A q \in Process \ {p} : call'[q] = call[q]
    BY <1>0, <2>1 DEF Call
  <2> QED BY <1>0, <1>4, <2>2 DEF CloseClaim, CallMatches, HasWallet, NoCall
<1>5. ASSUME NEW p \in Process, RemoveCreated(p) PROVE \A q \in Process : CallMatches(q)'
  BY <1>0, <1>5 DEF RemoveCreated, Refuse, NoCall, CallMatches, HasWallet, Call
<1>6. ASSUME NEW p \in Process, OpenExisting(p) PROVE \A q \in Process : CallMatches(q)'
  BY <1>0, <1>6 DEF OpenExisting, Refuse, NoCall, CallMatches, HasWallet, Call
<1>7. ASSUME NEW p \in Process, OpenReadOnly(p) PROVE \A q \in Process : CallMatches(q)'
  BY <1>0, <1>7 DEF OpenReadOnly, Refuse, NoCall, CallMatches, HasWallet, Call
<1>8. ASSUME NEW p \in Process, LockShared(p) PROVE \A q \in Process : CallMatches(q)'
  BY <1>0, <1>8 DEF LockShared, CallMatches, HasWallet, Call
<1>9. ASSUME NEW p \in Process, ValidateExisting(p) PROVE \A q \in Process : CallMatches(q)'
  BY <1>0, <1>9 DEF ValidateExisting, Refuse, NoCall, CallMatches, HasWallet, Call
<1>10. ASSUME NEW p \in Process, OpenDatabase(p) PROVE \A q \in Process : CallMatches(q)'
  <2>1. ASSUME NEW f \in File, call' = [call EXCEPT ![p].pc = "lock", ![p].file = f]
        PROVE  \A q \in Process : CallMatches(q)'
    <3>1. /\ call'[p].pc = "lock" /\ call'[p].kind = call[p].kind /\ call'[p].seed = call[p].seed
          /\ call'[p].file = f /\ call'[p].lock = call[p].lock
          /\ \A q \in Process \ {p} : call'[q] = call[q]
      BY <1>0, <2>1 DEF Call
    <3>2. call[p].pc = "open"
      BY <1>10 DEF OpenDatabase
    <3> QED BY <1>0, <2>1, <3>1, <3>2 DEF CallMatches, HasWallet, NoCall
  <2> QED BY <1>0, <1>10, <2>1, ErrorCalls DEF OpenDatabase
<1>11. ASSUME NEW p \in Process, LockDatabase(p) PROVE \A q \in Process : CallMatches(q)'
  BY <1>0, <1>11 DEF LockDatabase, CallMatches, HasWallet, Call
<1>12. ASSUME NEW p \in Process, InitBuckets(p) PROVE \A q \in Process : CallMatches(q)'
  <2>1. CASE call' = [call EXCEPT ![p].pc = "fill"]
    BY <1>0, <1>12, <2>1 DEF InitBuckets, CallMatches, HasWallet, Call, NoCall
  <2> QED BY <1>12, <2>1, ErrorCalls DEF InitBuckets
<1>13. ASSUME NEW p \in Process, FillPool(p) PROVE \A q \in Process : CallMatches(q)'
  <2>1. CASE call' = [call EXCEPT ![p].pc = "idle"]
    BY <1>0, <1>13, <2>1 DEF FillPool, CallMatches, HasWallet, Call, NoCall
  <2>2. CASE UNCHANGED call
    BY <1>0, <2>2 DEF CallMatches, HasWallet
  <2> QED BY <1>13, <2>1, <2>2, ErrorCalls DEF FillPool
<1>14. ASSUME NEW p \in Process, UseAddress(p) PROVE \A q \in Process : CallMatches(q)'
  BY <1>0, <1>14 DEF UseAddress, CallMatches, HasWallet, Call, NoCall
<1>18. ASSUME NEW p \in Process, RefillPool(p) PROVE \A q \in Process : CallMatches(q)'
  <2>1. CASE call' = [call EXCEPT ![p].pc = "idle"]
    BY <1>0, <1>18, <2>1 DEF RefillPool, CallMatches, HasWallet, Call, NoCall
  <2>2. CASE UNCHANGED call
    BY <1>0, <2>2 DEF CallMatches, HasWallet
  <2> QED BY <1>18, <2>1, <2>2 DEF RefillPool
<1>15. ASSUME NEW p \in Process, Crash(p) PROVE \A q \in Process : CallMatches(q)'
  BY <1>0, <1>15 DEF Crash, NoCall, CallMatches, HasWallet, Call
<1>16. ASSUME UNCHANGED call PROVE \A q \in Process : CallMatches(q)'
  BY <1>0, <1>16 DEF CallMatches, HasWallet
<1>17. ASSUME NEW f \in File, PutBack(f) PROVE UNCHANGED call
  BY <1>17 DEF PutBack
<1> QED BY <1>1, <1>2, <1>3, <1>4, <1>5, <1>6, <1>7, <1>8, <1>9, <1>10, <1>11, <1>12, <1>13, <1>14, <1>15, <1>16, <1>17,
           <1>18
        DEF FileNext, LibraryStep, MoveAside, fileVars


\* What an error, and what binding a file, leave of a call.
LEMMA FailEffect ==
  ASSUME FInv, NEW p \in Process, Fail(p)
  PROVE  /\ \A q \in Process \ {p} : call'[q] = call[q]
         /\ call'[p].file = NoFile /\ call'[p].lock = "none"
         /\ IF call[p].kind = "create" THEN call'[p].kind = "create" /\ call'[p].pc = "remove"
                                       ELSE call'[p] = NoCall
         /\ ~HasWallet(p)'
         /\ \A q \in Process : HasWallet(q)' => HasWallet(q)
<1>0. call \in [Process -> Call]
  BY DEF FInv, FileTypeOK
<1>1. \A q \in Process \ {p} : call'[q] = call[q]
  BY <1>0 DEF Fail
<1>2. call'[p].file = NoFile /\ call'[p].lock = "none"
  BY <1>0 DEF Fail, NoCall, Call
<1>3. CASE call[p].kind = "create"
  <2>1. call'[p] = [call[p] EXCEPT !.pc = "remove", !.file = NoFile, !.lock = "none"]
    BY <1>0, <1>3 DEF Fail
  <2>2. call'[p].kind = "create" /\ call'[p].pc = "remove"
    BY <1>0, <1>3, <2>1 DEF Call
  <2> QED BY <1>1, <1>2, <1>3, <2>2 DEF HasWallet
<1>4. CASE call[p].kind # "create"
  <2>1. call'[p] = NoCall
    BY <1>0, <1>4 DEF Fail
  <2> QED BY <1>1, <1>2, <1>4, <2>1 DEF HasWallet
<1> QED BY <1>3, <1>4

LEMMA BindEffect ==
  ASSUME FInv, NEW p \in Process, NEW pc \in Step, NEW f \in File,
         call' = [call EXCEPT ![p].pc = pc, ![p].file = f]
  PROVE  /\ \A q \in Process \ {p} : call'[q] = call[q]
         /\ call'[p].pc = pc /\ call'[p].file = f /\ call'[p].kind = call[p].kind
         /\ call'[p].seed = call[p].seed /\ call'[p].lock = call[p].lock
<1>0. call \in [Process -> Call]
  BY DEF FInv, FileTypeOK
<1> QED BY <1>0 DEF Call

\* No lock is taken that another process's lock excludes.
LEMMA LocksStep ==
  ASSUME FInv, [FileNext]_fileVars PROVE LocksExclude'
<1>0. /\ call \in [Process -> Call] /\ LocksExclude
      /\ \A q \in Process : CallMatches(q)
  BY DEF FInv, FileTypeOK
<1>1. ASSUME NEW p \in Process, NEW kind \in {"create", "open"}, NEW s \in Seed, LoadWallet(p, kind, s)
      PROVE  LocksExclude'
  BY <1>0, <1>1 DEF LoadWallet, NoCall, LocksExclude, CallMatches, HasWallet, Call, Locked
<1>2. ASSUME NEW p \in Process, Close(p) PROVE LocksExclude'
  BY <1>0, <1>2 DEF Close, NoCall, LocksExclude, CallMatches, HasWallet, Call, Locked
<1>3. ASSUME NEW p \in Process, CreateNew(p) PROVE LocksExclude'
  BY <1>0, <1>3 DEF CreateNew, Refuse, NoCall, LocksExclude, CallMatches, HasWallet, Call, Locked
<1>4. ASSUME NEW p \in Process, CloseClaim(p) PROVE LocksExclude'
  BY <1>0, <1>4 DEF CloseClaim, LocksExclude, CallMatches, HasWallet, Call, Locked
<1>5. ASSUME NEW p \in Process, RemoveCreated(p) PROVE LocksExclude'
  BY <1>0, <1>5 DEF RemoveCreated, Refuse, NoCall, LocksExclude, CallMatches, HasWallet, Call, Locked
<1>6. ASSUME NEW p \in Process, OpenExisting(p) PROVE LocksExclude'
  BY <1>0, <1>6 DEF OpenExisting, Refuse, NoCall, LocksExclude, CallMatches, HasWallet, Call, Locked
<1>7. ASSUME NEW p \in Process, OpenReadOnly(p) PROVE LocksExclude'
  BY <1>0, <1>7 DEF OpenReadOnly, Refuse, NoCall, LocksExclude, CallMatches, HasWallet, Call, Locked
<1>8. ASSUME NEW p \in Process, LockShared(p) PROVE LocksExclude'
  BY <1>0, <1>8 DEF LockShared, LocksExclude, CallMatches, HasWallet, Call, Locked
<1>9. ASSUME NEW p \in Process, ValidateExisting(p) PROVE LocksExclude'
  BY <1>0, <1>9 DEF ValidateExisting, Refuse, NoCall, LocksExclude, CallMatches, HasWallet, Call, Locked
<1>10. ASSUME NEW p \in Process, OpenDatabase(p) PROVE LocksExclude'
  <2>1. ASSUME NEW f \in File, call' = [call EXCEPT ![p].pc = "lock", ![p].file = f]
        PROVE  LocksExclude'
    <3>1. call[p].lock = "none"
      BY <1>0, <1>10 DEF OpenDatabase, CallMatches, HasWallet
    <3>2. /\ \A q \in Process \ {p} : call'[q] = call[q]
          /\ call'[p].lock = "none"
      BY <2>1, <3>1, BindEffect DEF Step
    <3> QED BY <1>0, <3>2 DEF LocksExclude
  <2>2. Unused \subseteq File /\ (path # NoFile => path \in File)
    BY DEF Unused, FInv, FileTypeOK
  <2>3. CASE Fail(p)
    BY <1>0, <2>3, FailEffect DEF LocksExclude
  <2> QED BY <1>10, <2>1, <2>2, <2>3 DEF OpenDatabase
<1>11. ASSUME NEW p \in Process, LockDatabase(p) PROVE LocksExclude'
  BY <1>0, <1>11 DEF LockDatabase, LocksExclude, CallMatches, HasWallet, Call, Locked
<1>12. ASSUME NEW p \in Process, InitBuckets(p) PROVE LocksExclude'
  <2>1. CASE call' = [call EXCEPT ![p].pc = "fill"]
    BY <1>0, <2>1 DEF LocksExclude, Call
  <2>2. CASE Fail(p)
    BY <1>0, <2>2, FailEffect DEF LocksExclude
  <2> QED BY <1>12, <2>1, <2>2 DEF InitBuckets
<1>13. ASSUME NEW p \in Process, FillPool(p) PROVE LocksExclude'
  <2>1. CASE call' = [call EXCEPT ![p].pc = "idle"]
    BY <1>0, <2>1 DEF LocksExclude, Call
  <2>2. CASE Fail(p)
    BY <1>0, <2>2, FailEffect DEF LocksExclude
  <2>3. CASE UNCHANGED call
    BY <1>0, <2>3 DEF LocksExclude
  <2> QED BY <1>13, <2>1, <2>2, <2>3 DEF FillPool
<1>14. ASSUME NEW p \in Process, UseAddress(p) PROVE LocksExclude'
  BY <1>0, <1>14 DEF UseAddress, LocksExclude, Call
<1>18. ASSUME NEW p \in Process, RefillPool(p) PROVE LocksExclude'
  BY <1>0, <1>18 DEF RefillPool, LocksExclude, Call
<1>15. ASSUME NEW p \in Process, Crash(p) PROVE LocksExclude'
  BY <1>0, <1>15 DEF Crash, NoCall, LocksExclude, CallMatches, HasWallet, Call, Locked
<1>16. ASSUME UNCHANGED call PROVE LocksExclude'
  BY <1>0, <1>16 DEF LocksExclude
<1>17. ASSUME NEW f \in File, PutBack(f) PROVE UNCHANGED call
  BY <1>17 DEF PutBack
<1> QED BY <1>1, <1>2, <1>3, <1>4, <1>5, <1>6, <1>7, <1>8, <1>9, <1>10, <1>11, <1>12, <1>13, <1>14, <1>15, <1>16, <1>17,
           <1>18
        DEF FileNext, LibraryStep, MoveAside, fileVars


\* A holder of an open wallet that keeps it, and adds records to its file at
\* most, takes nothing away.
LEMMA FilesKept ==
  ASSUME FInv, NEW p \in Process, call[p].pc \in {"idle", "refill"}, call'[p].pc \in {"idle", "refill"},
         call[p].file \in File, call'[p].file = call[p].file,
         \A q \in Process \ {p} : call'[q] = call[q], UNCHANGED <<path, aside, created>>,
         \A g \in File : /\ file'[g].stage = file[g].stage
                         /\ g # call[p].file => file'[g].records = file[g].records
  PROVE  FilesExist'
<1>0. /\ FilesExist /\ NoFile \notin File /\ created \subseteq File
      /\ \A q \in Process : call[q].file \in File \cup {NoFile}
  BY FileAssumption DEF FInv, FileTypeOK, Call
<1>1. Unused' = Unused
  BY DEF Unused
<1>2. HasWallet(p) /\ HasWallet(p)' /\ file[call[p].file].stage = "ready"
  BY <1>0 DEF HasWallet, FilesExist
<1>3. \A q \in Process \ {p} : HasWallet(q)' = HasWallet(q)
  BY DEF HasWallet
<1>4. \A g \in File : file'[g].records # <<>> => file'[g].stage = "ready"
  BY <1>0, <1>2 DEF FilesExist
<1>5. ASSUME NEW q \in Process, call'[q].file # NoFile
      PROVE  /\ call'[q].file \notin Unused'
             /\ call'[q].file \in aside' => HasWallet(q)'
             /\ call'[q].pc = "fill" \/ HasWallet(q)' => file'[call'[q].file].stage = "ready"
  <2>1. CASE q = p
    BY <1>0, <1>1, <1>2, <2>1 DEF FilesExist
  <2>2. CASE q # p
    BY <1>0, <1>1, <1>3, <1>5, <2>2 DEF FilesExist
  <2> QED BY <2>1, <2>2
<1> QED BY <1>0, <1>1, <1>4, <1>5 DEF FilesExist

\* Only what exists is named, kept or opened.
LEMMA FilesStep ==
  ASSUME FInv, [FileNext]_fileVars PROVE FilesExist'
<1>0. /\ call \in [Process -> Call] /\ file \in [File -> Content] /\ NoFile \notin File
      /\ aside \subseteq File /\ path \in File \cup {NoFile} /\ created \subseteq File
      /\ FilesExist /\ CreatedStays
      /\ \A q \in Process : CallMatches(q)
  BY FileAssumption DEF FInv, FileTypeOK
<1>1. ASSUME NEW p \in Process, NEW kind \in {"create", "open"}, NEW s \in Seed, LoadWallet(p, kind, s)
      PROVE  FilesExist'
  BY <1>0, <1>1 DEF LoadWallet, NoCall, FilesExist, CallMatches, HasWallet, Call, Content, Unused
<1>2. ASSUME NEW p \in Process, Close(p) PROVE FilesExist'
  BY <1>0, <1>2 DEF Close, NoCall, FilesExist, CallMatches, HasWallet, Call, Content, Unused
<1>3. ASSUME NEW p \in Process, CreateNew(p) PROVE FilesExist'
  <2>1. CASE Refuse(p) /\ UNCHANGED <<path, file>>
    BY <1>0, <1>3, <2>1 DEF CreateNew, Refuse, NoCall, FilesExist, HasWallet, Unused
  <2>2. ASSUME NEW f \in Unused, path' = f, file' = [file EXCEPT ![f].stage = "empty"],
               call' = [call EXCEPT ![p].pc = "claimed"]
        PROVE  FilesExist'
    <3>1. UNCHANGED <<aside, created>> /\ call[p].pc = "begin"
      BY <1>3 DEF CreateNew
    <3>2. Unused' \subseteq Unused \ {f}
      BY <1>0, <2>2 DEF Unused, Content
    <3>3. f \notin aside \cup created /\ file[f].records = <<>>
      BY <1>0, <2>2 DEF FilesExist, Unused
    <3>4. \A g \in File : file'[g].records # <<>> => file'[g].stage = "ready"
      BY <1>0, <2>2, <3>3 DEF FilesExist, Content
    <3>5. \A q \in Process : call'[q].file = call[q].file /\ (HasWallet(q)' <=> HasWallet(q))
                            /\ (call'[q].pc = "fill" <=> call[q].pc = "fill")
      BY <1>0, <2>2, <3>1 DEF Call, HasWallet, CallMatches
    <3>6. \A q \in Process : call[q].file # NoFile => call[q].file # f
      BY <1>0, <2>2 DEF FilesExist
    <3>7. \A g \in File \ {f} : file'[g] = file[g]
      BY <1>0, <2>2
    <3>8. \A q \in Process : call[q].file \in File \cup {NoFile}
      BY <1>0 DEF Call
    <3> QED BY <1>0, <2>2, <3>1, <3>2, <3>3, <3>4, <3>5, <3>6, <3>7, <3>8 DEF FilesExist
  <2> QED BY <1>3, <2>1, <2>2 DEF CreateNew
<1>4. ASSUME NEW p \in Process, CloseClaim(p) PROVE FilesExist'
  BY <1>0, <1>4 DEF CloseClaim, FilesExist, CallMatches, HasWallet, Call, Content, Unused
<1>5. ASSUME NEW p \in Process, RemoveCreated(p) PROVE FilesExist'
  BY <1>0, <1>5 DEF RemoveCreated, Refuse, NoCall, FilesExist, CallMatches, HasWallet, Call, Content, Unused
<1>6. ASSUME NEW p \in Process, OpenExisting(p) PROVE FilesExist'
  <2>1. UNCHANGED <<path, aside, file, created>> /\ call[p].pc = "begin"
    BY <1>6 DEF OpenExisting
  <2>2. /\ \A q \in Process \ {p} : call'[q] = call[q]
        /\ call'[p].file = NoFile
    BY <1>0, <1>6, <2>1 DEF OpenExisting, Refuse, NoCall, Call, CallMatches, HasWallet
  <2>3. \A q \in Process : call'[q].file # NoFile =>
          call'[q] = call[q] /\ (HasWallet(q)' <=> HasWallet(q))
    BY <2>2 DEF HasWallet
  <2> QED BY <1>0, <2>1, <2>3 DEF FilesExist, Unused
<1>7. ASSUME NEW p \in Process, OpenReadOnly(p) PROVE FilesExist'
  <2>1. CASE Refuse(p)
    BY <1>0, <1>7, <2>1 DEF OpenReadOnly, Refuse, NoCall, FilesExist, HasWallet, Unused
  <2>2. CASE path # NoFile /\ call' = [call EXCEPT ![p].pc = "share", ![p].file = path]
    <3>1. /\ \A q \in Process \ {p} : call'[q] = call[q]
          /\ call'[p].file = path /\ call'[p].pc = "share"
      BY <1>0, <2>2, BindEffect DEF Step
    <3>2. UNCHANGED <<path, aside, file, created>>
      BY <1>7 DEF OpenReadOnly
    <3>3. path \in File \ Unused /\ path \notin aside
      BY <1>0, <2>2 DEF FilesExist
    <3> QED BY <1>0, <3>1, <3>2, <3>3 DEF FilesExist, HasWallet, Unused
  <2> QED BY <1>7, <2>1, <2>2 DEF OpenReadOnly
<1>8. ASSUME NEW p \in Process, LockShared(p) PROVE FilesExist'
  BY <1>0, <1>8 DEF LockShared, FilesExist, CallMatches, HasWallet, Call, Content, Unused
<1>9. ASSUME NEW p \in Process, ValidateExisting(p) PROVE FilesExist'
  <2>1. /\ \A q \in Process \ {p} : call'[q] = call[q]
        /\ call'[p].file = NoFile
    BY <1>0, <1>9 DEF ValidateExisting, Refuse, NoCall, Call
  <2>2. UNCHANGED <<path, aside, file, created>>
    BY <1>9 DEF ValidateExisting
  <2>3. \A q \in Process : call'[q].file # NoFile =>
          call'[q] = call[q] /\ (HasWallet(q)' <=> HasWallet(q))
    BY <2>1 DEF HasWallet
  <2> QED BY <1>0, <2>2, <2>3 DEF FilesExist, Unused
<1>10. ASSUME NEW p \in Process, OpenDatabase(p) PROVE FilesExist'
  <2>0. UNCHANGED <<aside, created>>
    BY <1>10 DEF OpenDatabase
  <2>1. CASE path # NoFile /\ call' = [call EXCEPT ![p].pc = "lock", ![p].file = path]
             /\ UNCHANGED <<path, file>>
    <3>1. /\ \A q \in Process \ {p} : call'[q] = call[q]
          /\ call'[p].file = path /\ call'[p].pc = "lock"
      BY <1>0, <2>1, BindEffect DEF Step
    <3>3. path \in File \ Unused /\ path \notin aside
      BY <1>0, <2>1 DEF FilesExist
    <3> QED BY <1>0, <2>0, <2>1, <3>1, <3>3 DEF FilesExist, HasWallet, Unused
  <2>2. ASSUME NEW f \in Unused, path' = f, file' = [file EXCEPT ![f].stage = "empty"],
               call' = [call EXCEPT ![p].pc = "lock", ![p].file = f]
        PROVE  FilesExist'
    <3>1. f \in File
      BY DEF Unused
    <3>2. Unused' \subseteq Unused \ {f}
      BY <1>0, <2>2 DEF Unused, Content
    <3>3. f \notin aside \cup created /\ file[f].records = <<>>
      BY <1>0, <2>2 DEF FilesExist, Unused
    <3>4. \A g \in File : file'[g].records # <<>> => file'[g].stage = "ready"
      BY <1>0, <2>2, <3>3 DEF FilesExist, Content
    <3>5. /\ \A q \in Process \ {p} : call'[q] = call[q]
          /\ call'[p].file = f /\ call'[p].pc = "lock"
      BY <1>0, <2>2, <3>1, BindEffect DEF Step
    <3>6. \A q \in Process : call[q].file # NoFile => call[q].file # f
      BY <1>0, <2>2 DEF FilesExist
    <3>7. \A g \in File \ {f} : file'[g] = file[g]
      BY <1>0, <2>2
    <3>8. \A q \in Process : call[q].file \in File \cup {NoFile}
      BY <1>0 DEF Call
    <3>9. f \notin Unused' /\ \A g \in File \ {f} : g \in Unused' => g \in Unused
      BY <3>2
    <3>10. ASSUME NEW q \in Process, call'[q].file # NoFile
           PROVE  /\ call'[q].file \notin Unused'
                  /\ call'[q].file \in aside' => HasWallet(q)'
                  /\ call'[q].pc = "fill" \/ HasWallet(q)' => file'[call'[q].file].stage = "ready"
      <4>1. CASE q = p
        BY <2>0, <3>2, <3>3, <3>5, <4>1 DEF HasWallet
      <4>2. CASE q # p
        <5>1. call'[q] = call[q] /\ (HasWallet(q)' <=> HasWallet(q))
          BY <3>5, <4>2 DEF HasWallet
        <5> QED BY <1>0, <2>0, <3>2, <3>6, <3>7, <3>8, <3>10, <5>1 DEF FilesExist
      <4> QED BY <4>1, <4>2
    <3> QED BY <1>0, <2>0, <2>2, <3>2, <3>3, <3>4, <3>10 DEF FilesExist
  <2>3. CASE Fail(p) /\ UNCHANGED <<path, file>>
    BY <1>0, <2>0, <2>3, FailEffect DEF FilesExist, HasWallet, Unused
  <2> QED BY <1>10, <2>1, <2>2, <2>3 DEF OpenDatabase
<1>11. ASSUME NEW p \in Process, LockDatabase(p) PROVE FilesExist'
  BY <1>0, <1>11 DEF LockDatabase, FilesExist, CallMatches, HasWallet, Call, Content, Unused
<1>12. ASSUME NEW p \in Process, InitBuckets(p) PROVE FilesExist'
  <2>0. UNCHANGED <<path, aside, created>> /\ call[p].pc = "schema"
    BY <1>12 DEF InitBuckets
  <2>1. CASE /\ file' = [file EXCEPT ![call[p].file].stage = "ready"]
             /\ call' = [call EXCEPT ![p].pc = "fill"]
    <3>1. call[p].file \in File /\ call[p].file \notin Unused /\ call[p].file \notin aside
      BY <1>0, <2>0 DEF CallMatches, Call, FilesExist, HasWallet
    <3>2. \A g \in File : /\ file'[g].records = file[g].records
                          /\ g # call[p].file => file'[g].stage = file[g].stage
                          /\ g = call[p].file => file'[g].stage = "ready"
      BY <1>0, <2>1, <3>1 DEF Content
    <3>3. Unused' \subseteq Unused
      BY <3>2 DEF Unused
    <3>4. /\ \A q \in Process \ {p} : call'[q] = call[q]
          /\ call'[p].file = call[p].file
      BY <1>0, <2>1 DEF Call
    <3>5. ASSUME NEW q \in Process, call'[q].file # NoFile
          PROVE  /\ call'[q].file \notin Unused'
                 /\ call'[q].file \in aside' => HasWallet(q)'
                 /\ call'[q].pc = "fill" \/ HasWallet(q)' => file'[call'[q].file].stage = "ready"
      <4>1. CASE q = p
        BY <2>0, <3>1, <3>2, <3>3, <3>4, <4>1
      <4>2. CASE q # p
        <5>1. call'[q] = call[q] /\ (HasWallet(q)' <=> HasWallet(q)) /\ call[q].file \in File
          BY <1>0, <3>4, <3>5, <4>2 DEF HasWallet, Call
        <5> QED BY <1>0, <2>0, <3>2, <3>3, <3>5, <5>1 DEF FilesExist
      <4> QED BY <4>1, <4>2
    <3> QED BY <1>0, <2>0, <3>2, <3>3, <3>5 DEF FilesExist
  <2>2. CASE Fail(p) /\ UNCHANGED file
    BY <1>0, <2>0, <2>2, FailEffect DEF FilesExist, HasWallet, Unused
  <2> QED BY <1>12, <2>1, <2>2 DEF InitBuckets
<1>13. ASSUME NEW p \in Process, FillPool(p) PROVE FilesExist'
  <2>0. UNCHANGED <<path, aside>> /\ call[p].pc = "fill"
    BY <1>13 DEF FillPool
  <2>1. /\ call[p].file \in File /\ call[p].file \notin Unused /\ call[p].file \notin aside
        /\ file[call[p].file].stage = "ready"
    BY <1>0, <2>0 DEF CallMatches, Call, FilesExist, HasWallet
  <2>2. CASE Generate(call[p].file, call[p].seed) /\ UNCHANGED <<call, created>>
    <3>1. \A g \in File : /\ file'[g].stage = file[g].stage
                          /\ g # call[p].file => file'[g].records = file[g].records
      BY <1>0, <2>1, <2>2 DEF Content, Generate
    <3>2. Unused' = Unused
      BY <3>1 DEF Unused
    <3>3. \A q \in Process : call'[q] = call[q] /\ (HasWallet(q)' <=> HasWallet(q))
                            /\ call[q].file \in File \cup {NoFile}
      BY <1>0, <2>2 DEF HasWallet, Call
    <3> QED BY <1>0, <2>0, <2>1, <2>2, <3>1, <3>2, <3>3 DEF FilesExist
  <2>3. CASE Fail(p) /\ UNCHANGED <<file, created>>
    BY <1>0, <2>0, <2>3, FailEffect DEF FilesExist, HasWallet, Unused
  <2>4. CASE /\ call' = [call EXCEPT ![p].pc = "idle"] /\ UNCHANGED file
             /\ created' \subseteq created \cup {call[p].file}
    <3>1. /\ \A q \in Process \ {p} : call'[q] = call[q] /\ (HasWallet(q)' <=> HasWallet(q))
          /\ call'[p].file = call[p].file
      BY <1>0, <2>4 DEF Call, HasWallet
    <3>2. Unused' = Unused
      BY <2>4 DEF Unused
    <3> QED BY <1>0, <2>0, <2>1, <2>4, <3>1, <3>2 DEF FilesExist
  <2> QED BY <1>13, <2>2, <2>3, <2>4 DEF FillPool
<1>14. ASSUME NEW p \in Process, UseAddress(p) PROVE FilesExist'
  <2>1. call[p].file \in File /\ UNCHANGED <<path, aside, created>>
    BY <1>0, <1>14 DEF UseAddress, HasWallet, Call
  <2>2. \A g \in File : file'[g].stage = file[g].stage /\ file'[g].records = file[g].records
    BY <1>0, <1>14, <2>1 DEF UseAddress, Content
  <2>3. /\ call'[p].file = call[p].file /\ call'[p].pc = "refill" /\ call[p].pc = "idle"
        /\ \A q \in Process \ {p} : call'[q] = call[q]
    BY <1>0, <1>14 DEF UseAddress, Call
  <2> QED BY <1>0, <2>1, <2>2, <2>3, FilesKept
<1>19. ASSUME NEW p \in Process, RefillPool(p) PROVE FilesExist'
  <2>1. /\ call[p].pc = "refill" /\ call[p].file \in File /\ UNCHANGED <<path, aside, created>>
        /\ HasWallet(p) /\ file[call[p].file].stage = "ready"
    BY <1>0, <1>19 DEF RefillPool, HasWallet, Call, CallMatches, FilesExist
  <2>2. \A g \in File : /\ file'[g].stage = file[g].stage
                        /\ g # call[p].file => file'[g].records = file[g].records
    BY <1>0, <1>19, <2>1 DEF RefillPool, Generate, Content
  <2>3. /\ call'[p].file = call[p].file /\ call'[p].pc \in {"idle", "refill"}
        /\ \A q \in Process \ {p} : call'[q] = call[q]
    BY <1>0, <1>19, <2>1 DEF RefillPool, Call
  <2> QED BY <1>0, <2>1, <2>2, <2>3, FilesKept
<1>15. ASSUME NEW p \in Process, Crash(p) PROVE FilesExist'
  BY <1>0, <1>15 DEF Crash, NoCall, FilesExist, CallMatches, HasWallet, Call, Content, Unused
<1>16. CASE MoveAside
  BY <1>0, <1>16 DEF MoveAside, FilesExist, CallMatches, HasWallet, Unused
<1>17. ASSUME NEW f \in File, PutBack(f) PROVE FilesExist'
  BY <1>0, <1>17 DEF PutBack, FilesExist, CallMatches, HasWallet, Unused
<1>18. CASE UNCHANGED fileVars
  BY <1>0, <1>18 DEF fileVars, FilesExist, HasWallet, Unused
<1> QED BY <1>1, <1>2, <1>3, <1>4, <1>5, <1>6, <1>7, <1>8, <1>9, <1>10, <1>11, <1>12, <1>13, <1>14, <1>15, <1>16, <1>17,
           <1>18, <1>19
        DEF FileNext, LibraryStep


\* A creation has the path for itself, and what was created stays.
LEMMA CreatorStep ==
  ASSUME FInv, [FileNext]_fileVars PROVE CreatorOwnsPath' /\ CreatedStays'
<1>0. /\ call \in [Process -> Call] /\ NoFile \notin File
      /\ aside \subseteq File /\ path \in File \cup {NoFile} /\ created \subseteq File
      /\ FilesExist /\ CreatorOwnsPath /\ CreatedStays
      /\ \A q \in Process : CallMatches(q)
  BY FileAssumption DEF FInv, FileTypeOK
<1>1. ASSUME NEW p \in Process, NEW kind \in {"create", "open"}, NEW s \in Seed, LoadWallet(p, kind, s)
      PROVE  CreatorOwnsPath' /\ CreatedStays'
  BY <1>0, <1>1 DEF LoadWallet, NoCall, CreatorOwnsPath, Creating, CreatedStays, CallMatches, HasWallet, Call, FilesExist
<1>2. ASSUME NEW p \in Process, Close(p) PROVE CreatorOwnsPath' /\ CreatedStays'
  BY <1>0, <1>2 DEF Close, NoCall, CreatorOwnsPath, Creating, CreatedStays, CallMatches, HasWallet, Call, FilesExist
<1>3. ASSUME NEW p \in Process, CreateNew(p) PROVE CreatorOwnsPath' /\ CreatedStays'
  BY <1>0, <1>3 DEF CreateNew, Refuse, NoCall, CreatorOwnsPath, Creating, CreatedStays, CallMatches, HasWallet, Call, FilesExist
<1>4. ASSUME NEW p \in Process, CloseClaim(p) PROVE CreatorOwnsPath' /\ CreatedStays'
  BY <1>0, <1>4 DEF CloseClaim, CreatorOwnsPath, Creating, CreatedStays, CallMatches, HasWallet, Call, FilesExist
<1>5. ASSUME NEW p \in Process, RemoveCreated(p) PROVE CreatorOwnsPath' /\ CreatedStays'
  BY <1>0, <1>5 DEF RemoveCreated, Refuse, NoCall, CreatorOwnsPath, Creating, CreatedStays, CallMatches, HasWallet, Call, FilesExist
<1>6. ASSUME NEW p \in Process, OpenExisting(p) PROVE CreatorOwnsPath' /\ CreatedStays'
  BY <1>0, <1>6 DEF OpenExisting, Refuse, NoCall, CreatorOwnsPath, Creating, CreatedStays, CallMatches, HasWallet, Call, FilesExist
<1>7. ASSUME NEW p \in Process, OpenReadOnly(p) PROVE CreatorOwnsPath' /\ CreatedStays'
  BY <1>0, <1>7 DEF OpenReadOnly, Refuse, NoCall, CreatorOwnsPath, Creating, CreatedStays, CallMatches, HasWallet, Call, FilesExist
<1>8. ASSUME NEW p \in Process, LockShared(p) PROVE CreatorOwnsPath' /\ CreatedStays'
  BY <1>0, <1>8 DEF LockShared, CreatorOwnsPath, Creating, CreatedStays, CallMatches, HasWallet, Call, FilesExist
<1>9. ASSUME NEW p \in Process, ValidateExisting(p) PROVE CreatorOwnsPath' /\ CreatedStays'
  BY <1>0, <1>9 DEF ValidateExisting, Refuse, NoCall, CreatorOwnsPath, Creating, CreatedStays, CallMatches, HasWallet, Call, FilesExist
<1>10. ASSUME NEW p \in Process, OpenDatabase(p) PROVE CreatorOwnsPath' /\ CreatedStays'
  <2>0. UNCHANGED <<aside, created>> /\ call[p].pc = "open"
    BY <1>10 DEF OpenDatabase
  <2>1. CASE path # NoFile /\ call' = [call EXCEPT ![p].pc = "lock", ![p].file = path]
             /\ UNCHANGED path
    <3>1. /\ \A q \in Process \ {p} : call'[q] = call[q]
          /\ call'[p].file = path /\ call'[p].kind = call[p].kind
      BY <1>0, <2>1, BindEffect DEF Step
    <3> QED BY <1>0, <2>0, <2>1, <3>1 DEF CreatorOwnsPath, Creating, CreatedStays
  <2>2. ASSUME NEW f \in Unused, path = NoFile, path' = f,
               call' = [call EXCEPT ![p].pc = "lock", ![p].file = f]
        PROVE  CreatorOwnsPath' /\ CreatedStays'
    <3>1. /\ \A q \in Process \ {p} : call'[q] = call[q]
          /\ call'[p].kind = call[p].kind
      BY <1>0, <2>2, BindEffect DEF Step, Unused
    <3>2. \A q \in Process : ~Creating(q)
      BY <1>0, <2>2 DEF CreatorOwnsPath
    <3>3. \A q \in Process : ~Creating(q)'
      BY <2>0, <3>1, <3>2 DEF Creating
    <3>4. CreatedStays'
      BY <1>0, <2>0, <2>2 DEF CreatedStays
    <3> QED BY <3>3, <3>4 DEF CreatorOwnsPath
  <2>3. CASE Fail(p) /\ UNCHANGED path
    BY <1>0, <2>0, <2>3, FailEffect DEF CreatorOwnsPath, Creating, CreatedStays, NoCall
  <2> QED BY <1>10, <2>1, <2>2, <2>3 DEF OpenDatabase
<1>11. ASSUME NEW p \in Process, LockDatabase(p) PROVE CreatorOwnsPath' /\ CreatedStays'
  BY <1>0, <1>11 DEF LockDatabase, CreatorOwnsPath, Creating, CreatedStays, CallMatches, HasWallet, Call, FilesExist
<1>12. ASSUME NEW p \in Process, InitBuckets(p) PROVE CreatorOwnsPath' /\ CreatedStays'
  <2>0. UNCHANGED <<path, aside, created>> /\ call[p].pc = "schema"
    BY <1>12 DEF InitBuckets
  <2>1. CASE call' = [call EXCEPT ![p].pc = "fill"]
    <3>1. /\ \A q \in Process \ {p} : call'[q] = call[q]
          /\ call'[p].file = call[p].file /\ call'[p].kind = call[p].kind
      BY <1>0, <2>1 DEF Call
    <3> QED BY <1>0, <2>0, <3>1 DEF CreatorOwnsPath, Creating, CreatedStays
  <2>2. CASE Fail(p)
    BY <1>0, <2>0, <2>2, FailEffect DEF CreatorOwnsPath, Creating, CreatedStays, NoCall
  <2> QED BY <1>12, <2>1, <2>2 DEF InitBuckets
<1>13. ASSUME NEW p \in Process, FillPool(p) PROVE CreatorOwnsPath' /\ CreatedStays'
  <2>0. UNCHANGED <<path, aside>> /\ call[p].pc = "fill" /\ call[p].file # NoFile
    BY <1>0, <1>13 DEF FillPool, CallMatches
  <2>1. CASE UNCHANGED <<call, created>>
    BY <1>0, <2>0, <2>1 DEF CreatorOwnsPath, Creating, CreatedStays
  <2>2. CASE Fail(p) /\ UNCHANGED created
    BY <1>0, <2>0, <2>2, FailEffect DEF CreatorOwnsPath, Creating, CreatedStays, NoCall
  <2>3. CASE /\ call' = [call EXCEPT ![p].pc = "idle"]
             /\ created' = IF call[p].kind = "create" THEN created \cup {call[p].file} ELSE created
    <3>1. \A q \in Process : Creating(q)' => Creating(q) /\ q # p /\ call'[q] = call[q]
      BY <1>0, <2>3 DEF Creating, Call
    <3>2. call[p].kind = "create" => call[p].file = path /\ \A q \in Process : Creating(q) => q = p
      BY <1>0, <2>0 DEF CreatorOwnsPath, Creating
    <3> QED BY <1>0, <2>0, <2>3, <3>1, <3>2 DEF CreatorOwnsPath, CreatedStays
  <2> QED BY <1>13, <2>1, <2>2, <2>3 DEF FillPool
<1>14. ASSUME NEW p \in Process, UseAddress(p) PROVE CreatorOwnsPath' /\ CreatedStays'
  BY <1>0, <1>14 DEF UseAddress, CreatorOwnsPath, Creating, CreatedStays, Call
<1>19. ASSUME NEW p \in Process, RefillPool(p) PROVE CreatorOwnsPath' /\ CreatedStays'
  BY <1>0, <1>19 DEF RefillPool, CreatorOwnsPath, Creating, CreatedStays, Call
<1>15. ASSUME NEW p \in Process, Crash(p) PROVE CreatorOwnsPath' /\ CreatedStays'
  BY <1>0, <1>15 DEF Crash, NoCall, CreatorOwnsPath, Creating, CreatedStays, CallMatches, HasWallet, Call, FilesExist
<1>16. CASE MoveAside
  BY <1>0, <1>16 DEF MoveAside, CreatorOwnsPath, Creating, CreatedStays
<1>17. ASSUME NEW f \in File, PutBack(f) PROVE CreatorOwnsPath' /\ CreatedStays'
  BY <1>0, <1>17 DEF PutBack, CreatorOwnsPath, Creating, CreatedStays
<1>18. CASE UNCHANGED fileVars
  BY <1>0, <1>18 DEF fileVars, CreatorOwnsPath, Creating, CreatedStays
<1> QED BY <1>1, <1>2, <1>3, <1>4, <1>5, <1>6, <1>7, <1>8, <1>9, <1>10, <1>11, <1>12, <1>13, <1>14, <1>15, <1>16, <1>17,
           <1>18, <1>19
        DEF FileNext, LibraryStep


\* A process that does not step keeps its part, if its file and the path's do.
LEMMA OthersHold ==
  ASSUME FInv, NEW q \in Process, SeedHolds(q), call'[q] = call[q],
         HasWallet(q) \/ call[q].pc \in {"lock", "schema", "fill"} =>
             file'[call[q].file].records = file[call[q].file].records,
         Creating(q) \/ (call[q].kind = "open" /\ call[q].pc = "open") =>
             path' = path /\ file'[path].records = file[path].records
  PROVE  SeedHolds(q)'
<1>1. Creating(q)' = Creating(q) /\ HasWallet(q)' = HasWallet(q)
  BY DEF Creating, HasWallet
<1> QED BY <1>1 DEF SeedHolds, Owner

LEMMA RecordsStay ==
  ASSUME FInv, RecordsKept, aside \cup {path} \subseteq aside' \cup {path'},
         \A f \in File : file'[f].records = file[f].records
  PROVE  RecordsKept'
BY DEF RecordsKept, Owner

\* A step of p that leaves every record and the path where they are.
LEMMA QuietStep ==
  ASSUME FInv, SeedsMatch, NEW p \in Process, path' = path, aside' = aside,
         \A f \in File : file'[f].records = file[f].records,
         \A q \in Process \ {p} : call'[q] = call[q],
         SeedHolds(p)'
  PROVE  SeedsMatch'
<1>0. call \in [Process -> Call] /\ path \in File \cup {NoFile} /\ \A q \in Process : CallMatches(q)
  BY DEF FInv, FileTypeOK
<1>1. RecordsKept'
  BY RecordsStay DEF SeedsMatch
<1>2. ASSUME NEW q \in Process \ {p} PROVE SeedHolds(q)'
  <2>1. HasWallet(q) \/ call[q].pc \in {"lock", "schema", "fill"} => call[q].file \in File
    BY <1>0 DEF CallMatches, HasWallet, Call
  <2>2. Creating(q) \/ (call[q].kind = "open" /\ call[q].pc = "open") => path \in File
    BY <1>0 DEF FInv, CreatorOwnsPath, SeedsMatch, SeedHolds
  <2> QED BY <2>1, <2>2, OthersHold DEF SeedsMatch
<1> QED BY <1>1, <1>2 DEF SeedsMatch

LEMMA LateStays ==
  ASSUME [FileNext]_fileVars, late PROVE late'
BY DEF FileNext, LibraryStep, fileVars, LoadWallet, Close, CreateNew, CloseClaim, RemoveCreated,
       OpenExisting, OpenReadOnly, LockShared, ValidateExisting, OpenDatabase, LockDatabase,
       InitBuckets, FillPool, UseAddress, RefillPool, Crash, MoveAside, PutBack

\* Without a wallet, and outside a creation and an opener's last steps, there
\* is nothing to hold.
LEMMA NothingHeld ==
  ASSUME NEW p, ~HasWallet(p), ~Creating(p), call[p].kind = "open" => call[p].pc \notin {"open", "lock", "schema", "fill"}
  PROVE  SeedHolds(p)
BY DEF SeedHolds

\* The steps that write nothing.
LEMMA SeedsQuiet ==
  ASSUME FInv, SeedsMatch, NEW p \in Process,
         \/ \E kind \in {"create", "open"}, s \in Seed : LoadWallet(p, kind, s)
         \/ Close(p) \/ CloseClaim(p) \/ OpenExisting(p) \/ OpenReadOnly(p) \/ LockShared(p)
         \/ ValidateExisting(p) \/ LockDatabase(p) \/ Crash(p)
  PROVE  SeedsMatch'
<1>0. /\ call \in [Process -> Call] /\ file \in [File -> Content] /\ NoFile \notin File
      /\ NoSeed \notin Seed /\ CallMatches(p) /\ FilesExist /\ SeedHolds(p)
  BY FileAssumption DEF FInv, FileTypeOK, SeedsMatch
<1>n. NoCall.pc = "idle" /\ NoCall.kind = "none" /\ NoCall.file = NoFile
  BY DEF NoCall
<1>1. ASSUME NEW kind \in {"create", "open"}, NEW s \in Seed, LoadWallet(p, kind, s) PROVE SeedsMatch'
  <2>1. call'[p].pc = "begin" /\ \A q \in Process \ {p} : call'[q] = call[q]
    BY <1>0, <1>1 DEF LoadWallet, NoCall
  <2>2. SeedHolds(p)'
    BY <2>1, NothingHeld DEF SeedHolds, Creating, HasWallet
  <2> QED BY <1>1, <2>1, <2>2, QuietStep DEF LoadWallet
<1>2. CASE call'[p] = NoCall /\ UNCHANGED <<path, aside, file>> /\ \A q \in Process \ {p} : call'[q] = call[q]
  <2>1. SeedHolds(p)'
    BY <1>2, <1>n DEF SeedHolds, Creating, HasWallet
  <2> QED BY <1>2, <2>1, QuietStep
<1>3. CASE Close(p) \/ Crash(p)
  BY <1>0, <1>2, <1>3 DEF Close, Crash
<1>4. CASE CloseClaim(p)
  <2>1. PICK next \in {"open", "remove"} : call' = [call EXCEPT ![p].pc = next]
    BY <1>4 DEF CloseClaim
  <2>2. /\ call'[p].pc = next /\ call'[p].kind = "create" /\ call[p].kind = "create"
        /\ call[p].pc = "claimed" /\ \A q \in Process \ {p} : call'[q] = call[q]
    BY <1>0, <1>4, <2>1 DEF CloseClaim, CallMatches, Call
  <2>3. path' = path /\ file' = file /\ aside' = aside
    BY <1>4 DEF CloseClaim
  <2>4. SeedHolds(p)'
    BY <1>0, <2>2, <2>3 DEF SeedHolds, Creating, HasWallet, Owner
  <2> QED BY <2>2, <2>3, <2>4, QuietStep
<1>5. ASSUME Refuse(p), UNCHANGED <<path, aside, file>> PROVE SeedsMatch'
  BY <1>0, <1>2, <1>5 DEF Refuse
<1>6. ASSUME NEW pc \in {"validate", "share", "check"}, call'[p].pc = pc, call'[p].kind = "open",
             \A q \in Process \ {p} : call'[q] = call[q], UNCHANGED <<path, aside, file>>
      PROVE  SeedsMatch'
  <2>1. SeedHolds(p)'
    BY <1>6 DEF SeedHolds, Creating, HasWallet
  <2> QED BY <1>6, <2>1, QuietStep
<1>7. CASE OpenExisting(p)
  <2>1. CASE Refuse(p)
    BY <1>5, <1>7, <2>1 DEF OpenExisting
  <2>2. CASE call' = [call EXCEPT ![p].pc = "validate"]
    BY <1>0, <1>6, <1>7, <2>2 DEF OpenExisting, Call
  <2> QED BY <1>7, <2>1, <2>2 DEF OpenExisting
<1>8. CASE OpenReadOnly(p)
  <2>1. CASE Refuse(p)
    BY <1>5, <1>8, <2>1 DEF OpenReadOnly
  <2>2. CASE call' = [call EXCEPT ![p].pc = "share", ![p].file = path]
    BY <1>0, <1>6, <1>8, <2>2 DEF OpenReadOnly, Call, CallMatches
  <2> QED BY <1>8, <2>1, <2>2 DEF OpenReadOnly
<1>9. CASE LockShared(p)
  BY <1>0, <1>6, <1>9 DEF LockShared, Call, CallMatches
<1>10. CASE ValidateExisting(p)
  <2>1. CASE Refuse(p)
    BY <1>5, <1>10, <2>1 DEF ValidateExisting
  <2>2. CASE ~Refuse(p)
    <3>1. /\ Owner(call[p].file) = call[p].seed
          /\ call' = [call EXCEPT ![p].pc = "open", ![p].file = NoFile, ![p].lock = "none"]
          /\ call[p].pc = "check" /\ UNCHANGED <<path, aside, file>>
      BY <1>10, <2>2 DEF ValidateExisting
    <3>2. /\ call'[p].pc = "open" /\ call'[p].kind = "open" /\ call'[p].file = NoFile
          /\ call'[p].seed = call[p].seed /\ \A q \in Process \ {p} : call'[q] = call[q]
      BY <1>0, <3>1 DEF Call, CallMatches
    <3>3. call[p].file \in File /\ call[p].file \notin aside /\ call[p].seed \in Seed
      BY <1>0, <3>1 DEF CallMatches, FilesExist, HasWallet, Call, NoCall
    <3>4. file[call[p].file].records # <<>>
      BY <1>0, <3>1, <3>3 DEF Owner
    <3>5. call[p].file = path
      BY <3>3, <3>4 DEF SeedsMatch, RecordsKept
    <3>6. SeedHolds(p)'
      BY <1>0, <3>1, <3>2, <3>3, <3>5 DEF SeedHolds, Creating, HasWallet, Owner
    <3> QED BY <3>1, <3>2, <3>6, QuietStep
  <2> QED BY <2>1, <2>2
<1>11. CASE LockDatabase(p)
  <2>1. /\ call'[p].pc = "schema" /\ call'[p].kind = call[p].kind /\ call'[p].seed = call[p].seed
        /\ call'[p].file = call[p].file /\ call[p].pc = "lock"
        /\ \A q \in Process \ {p} : call'[q] = call[q]
    BY <1>0, <1>11 DEF LockDatabase, Call
  <2>2. /\ UNCHANGED <<path, aside>>
        /\ \A f \in File : file'[f].records = file[f].records
    BY <1>0, <1>11 DEF LockDatabase, Content
  <2>3. call[p].file \in File
    BY <1>0, <2>1 DEF CallMatches, Call
  <2>4. Creating(p) => path \in File
    BY <1>0 DEF FInv, CreatorOwnsPath, FileTypeOK
  <2>5. SeedHolds(p)'
    BY <1>0, <2>1, <2>2, <2>3, <2>4 DEF SeedHolds, Creating, HasWallet, Owner
  <2> QED BY <2>1, <2>2, <2>5, QuietStep
<1> QED BY <1>1, <1>3, <1>4, <1>7, <1>8, <1>9, <1>10, <1>11

\* A step of p that names a file with no records where the path named none.
LEMMA ClaimStep ==
  ASSUME FInv, SeedsMatch, NEW p \in Process, NEW f \in Unused, path = NoFile, path' = f,
         aside' = aside, file' = [file EXCEPT ![f].stage = "empty"],
         \A q \in Process \ {p} : call'[q] = call[q],
         SeedHolds(p)'
  PROVE  SeedsMatch'
<1>0. /\ call \in [Process -> Call] /\ file \in [File -> Content] /\ NoFile \notin File
      /\ f \in File /\ \A q \in Process : CallMatches(q)
  BY FileAssumption DEF FInv, FileTypeOK, Unused
<1>1. \A g \in File : file'[g].records = file[g].records
  BY <1>0 DEF Content
<1>2. RecordsKept'
  BY <1>0, <1>1 DEF SeedsMatch, RecordsKept, Owner
<1>3. ASSUME NEW q \in Process \ {p} PROVE SeedHolds(q)'
  <2>1. HasWallet(q) \/ call[q].pc \in {"lock", "schema", "fill"} => call[q].file \in File
    BY <1>0 DEF CallMatches, HasWallet, Call
  <2>2. ~Creating(q) /\ ~(call[q].kind = "open" /\ call[q].pc = "open")
    BY DEF FInv, CreatorOwnsPath, SeedsMatch, SeedHolds
  <2> QED BY <1>1, <2>1, <2>2, OthersHold DEF SeedsMatch
<1> QED BY <1>2, <1>3 DEF SeedsMatch

\* The claim of a new file, and an error on the way.
LEMMA SeedsClaim ==
  ASSUME FInv, SeedsMatch, NEW p \in Process, CreateNew(p) PROVE SeedsMatch'
<1>0. call \in [Process -> Call] /\ path \in File \cup {NoFile}
  BY DEF FInv, FileTypeOK
<1>1. CASE Refuse(p) /\ UNCHANGED <<path, file>>
  <2>1. call'[p] = NoCall /\ \A q \in Process \ {p} : call'[q] = call[q]
    BY <1>0, <1>1 DEF Refuse
  <2>2. SeedHolds(p)'
    BY <2>1 DEF SeedHolds, NoCall, Creating, HasWallet
  <2> QED BY <1>1, <2>1, <2>2, QuietStep DEF CreateNew
<1>2. ASSUME NEW f \in Unused, path = NoFile, path' = f, file' = [file EXCEPT ![f].stage = "empty"],
             call' = [call EXCEPT ![p].pc = "claimed"], aside' = aside, call[p].kind = "create"
      PROVE  SeedsMatch'
  <2>1. /\ call'[p].pc = "claimed" /\ call'[p].kind = "create"
        /\ \A q \in Process \ {p} : call'[q] = call[q]
    BY <1>0, <1>2 DEF Call
  <2>2. f \in File /\ file[f].records = <<>>
    BY <1>2 DEF FInv, FilesExist, Unused
  <2>3. Owner(path)' = NoSeed
    BY <1>2, <2>2 DEF Owner, FInv, FileTypeOK, Content
  <2>4. SeedHolds(p)'
    BY <2>1, <2>3 DEF SeedHolds, Creating, HasWallet
  <2> QED BY <1>2, <2>1, <2>4, ClaimStep
<1> QED BY <1>1, <1>2 DEF CreateNew

\* A failure before the first address, or of an opener.
LEMMA SeedsFail ==
  ASSUME FInv, SeedsMatch, NEW p \in Process, Fail(p), UNCHANGED <<path, aside, file>>,
         call[p].pc \in {"open", "lock", "schema", "fill"},
         call[p].kind = "create" => Owner(path) = NoSeed
  PROVE  SeedsMatch'
<1>1. /\ \A q \in Process \ {p} : call'[q] = call[q]
      /\ ~HasWallet(p)'
      /\ IF call[p].kind = "create" THEN call'[p].kind = "create" /\ call'[p].pc = "remove"
                                    ELSE call'[p] = NoCall
  BY FailEffect
<1>2. SeedHolds(p)'
  BY <1>1 DEF SeedHolds, NoCall, Creating, HasWallet, Owner
<1> QED BY <1>1, <1>2, QuietStep

LEMMA SeedsOpenDatabase ==
  ASSUME FInv, SeedsMatch, NEW p \in Process, OpenDatabase(p) PROVE SeedsMatch'
<1>0. /\ call \in [Process -> Call] /\ path \in File \cup {NoFile} /\ CallMatches(p) /\ SeedHolds(p)
      /\ call[p].pc = "open" /\ aside' = aside /\ call[p].kind \in {"create", "open"}
  BY DEF FInv, FileTypeOK, SeedsMatch, OpenDatabase, CallMatches, NoCall, Call
<1>1. path # NoFile
  BY <1>0 DEF FInv, CreatorOwnsPath, Creating, SeedHolds
<1>2. CASE Fail(p) /\ UNCHANGED <<path, file>>
  <2>1. call[p].kind = "create" => Owner(path) = NoSeed
    BY <1>0 DEF SeedHolds, Creating
  <2> QED BY <1>0, <1>2, <2>1, SeedsFail
<1>3. CASE call' = [call EXCEPT ![p].pc = "lock", ![p].file = path] /\ UNCHANGED <<path, file>>
  <2>1. /\ \A q \in Process \ {p} : call'[q] = call[q]
        /\ call'[p].pc = "lock" /\ call'[p].file = path /\ call'[p].kind = call[p].kind
        /\ call'[p].seed = call[p].seed
    BY <1>0, <1>1, <1>3, BindEffect DEF Step
  <2>2. SeedHolds(p)'
    BY <1>0, <1>3, <2>1 DEF SeedHolds, Creating, HasWallet, Owner
  <2> QED BY <1>0, <1>3, <2>1, <2>2, QuietStep
<1> QED BY <1>1, <1>2, <1>3 DEF OpenDatabase

LEMMA SeedsInitBuckets ==
  ASSUME FInv, SeedsMatch, NEW p \in Process, InitBuckets(p) PROVE SeedsMatch'
<1>0. /\ call \in [Process -> Call] /\ file \in [File -> Content] /\ CallMatches(p) /\ SeedHolds(p)
      /\ call[p].pc = "schema" /\ UNCHANGED <<path, aside>> /\ call[p].kind \in {"create", "open"}
  BY DEF FInv, FileTypeOK, SeedsMatch, InitBuckets, CallMatches, NoCall, Call
<1>1. CASE Fail(p) /\ UNCHANGED file
  <2>1. call[p].kind = "create" => Owner(path) = NoSeed
    BY <1>0 DEF SeedHolds, Creating
  <2> QED BY <1>0, <1>1, <2>1, SeedsFail
<1>2. CASE /\ file' = [file EXCEPT ![call[p].file].stage = "ready"]
           /\ call' = [call EXCEPT ![p].pc = "fill"]
  <2>1. /\ \A q \in Process \ {p} : call'[q] = call[q]
        /\ call'[p].pc = "fill" /\ call'[p].file = call[p].file
        /\ call'[p].kind = call[p].kind /\ call'[p].seed = call[p].seed
    BY <1>0, <1>2 DEF Call
  <2>2. \A f \in File : file'[f].records = file[f].records
    BY <1>0, <1>2 DEF Content
  <2>3. call[p].file \in File /\ (Creating(p) => path \in File)
    BY <1>0 DEF CallMatches, Call, FInv, CreatorOwnsPath, FileTypeOK
  <2>4. SeedHolds(p)'
    BY <1>0, <2>1, <2>2, <2>3 DEF SeedHolds, Creating, HasWallet, Owner
  <2> QED BY <1>0, <2>1, <2>2, <2>4, QuietStep
<1> QED BY <1>1, <1>2 DEF InitBuckets

\* An address more is its file's owner's, or the first of a file without one.
LEMMA AppendKeeps ==
  ASSUME FInv, SeedsMatch, NEW f \in File, NEW s \in Seed, f \in aside \cup {path},
         Owner(f) \in {NoSeed, s}, UNCHANGED <<path, aside>>,
         file'[f].records = Append(file[f].records, s),
         \A g \in File \ {f} : file'[g] = file[g]
  PROVE  RecordsKept' /\ Owner(f)' = s
<1>0. file[f].records \in Seq(Seed) /\ NoSeed \notin Seed
  BY FileAssumption DEF FInv, FileTypeOK, Content
<1>1. Owner(f)' = s
  BY <1>0, AppendFirst DEF Owner
<1>2. \A i \in DOMAIN file'[f].records : file'[f].records[i] = s
  <2>1. \A i \in DOMAIN file[f].records : file[f].records[i] = s
    <3>1. CASE file[f].records = <<>>
      BY <3>1
    <3>2. CASE file[f].records # <<>>
      BY <1>0, <3>2, AppendFirst DEF SeedsMatch, RecordsKept, Owner
    <3> QED BY <3>1, <3>2
  <2> QED BY <1>0, <2>1, AppendFirst
<1>3. ASSUME NEW g \in File \ {f}, file'[g].records # <<>>
      PROVE  /\ g \in aside' \cup {path'}
             /\ \A i \in DOMAIN file'[g].records : file'[g].records[i] = Owner(g)'
  BY <1>3 DEF SeedsMatch, RecordsKept, Owner
<1> QED BY <1>1, <1>2, <1>3 DEF RecordsKept

\* No other process has a claim on a file under an exclusive lock, except on
\* its path, and then with the seed of what is there.
LEMMA OthersSpared ==
  ASSUME FInv, SeedsMatch, NEW p \in Process, call[p].lock = "exclusive", NEW s \in Seed,
         Owner(call[p].file) \in {NoSeed, s}, Owner(call[p].file) = NoSeed => Creating(p),
         UNCHANGED <<path, aside>>, call'[p] = call[p], Owner(call[p].file)' = s,
         \A g \in File \ {call[p].file} : file'[g] = file[g],
         \A q \in Process \ {p} : call'[q] = call[q],
         NEW q \in Process \ {p}
  PROVE  SeedHolds(q)'
<1>0. /\ call \in [Process -> Call] /\ path \in File \cup {NoFile} /\ NoFile \notin File
      /\ CallMatches(p) /\ CallMatches(q) /\ SeedHolds(q) /\ CreatorOwnsPath /\ LocksExclude
      /\ NoSeed \notin Seed
  BY FileAssumption DEF FInv, FileTypeOK, SeedsMatch
<1>1. HasWallet(q)' = HasWallet(q) /\ Creating(q)' = Creating(q) /\ call'[q] = call[q]
  BY DEF HasWallet, Creating
<1>2. ASSUME Creating(q) PROVE call[p].file # path
  <2>1. ~Creating(p)
    BY <1>0, <1>2 DEF CreatorOwnsPath
  <2>2. Owner(call[p].file) = s
    BY <2>1
  <2>3. CASE call[q].pc = "fill"
    <3>1. call[q].file = path /\ call[q].lock = "exclusive"
      BY <1>0, <1>2, <2>3 DEF CallMatches, CreatorOwnsPath
    <3> QED BY <1>0, <3>1 DEF LocksExclude
  <2>4. CASE call[q].pc # "fill"
    BY <1>0, <1>2, <2>2, <2>4 DEF SeedHolds
  <2> QED BY <2>3, <2>4
<1>3. call[p].file \in File
  BY <1>0 DEF CallMatches, Call
<1>4. ASSUME Creating(q) PROVE SeedHolds(q)'
  <2>1. path \in File /\ Owner(path)' = Owner(path)
    BY <1>0, <1>2, <1>4 DEF CreatorOwnsPath, Owner
  <2>2. ~HasWallet(q) /\ call[q].kind = "create"
    BY <1>4 DEF Creating, HasWallet
  <2> QED BY <1>0, <1>1, <1>4, <2>1, <2>2 DEF SeedHolds
<1>5. ASSUME call[q].pc \in {"schema", "fill"} \/ HasWallet(q), ~Creating(q) PROVE SeedHolds(q)'
  <2>1. call[q].lock = "exclusive" /\ call[q].file \in File
    BY <1>0, <1>5 DEF CallMatches, Call
  <2>2. call[q].file # call[p].file
    BY <1>0, <2>1 DEF LocksExclude
  <2>3. Owner(call[q].file)' = Owner(call[q].file)
    BY <1>1, <2>1, <2>2 DEF Owner
  <2>4. call[q].pc # "open"
    BY <1>5 DEF HasWallet
  <2> QED BY <1>0, <1>1, <1>5, <2>3, <2>4 DEF SeedHolds
<1>6. ASSUME NEW g \in File, Owner(g) \in Seed PROVE Owner(g)' = Owner(g)
  <2>1. CASE g = call[p].file
    BY <1>0, <1>6, <2>1
  <2>2. CASE g # call[p].file
    BY <1>6, <2>2 DEF Owner
  <2> QED BY <2>1, <2>2
<1>7. ASSUME call[q].kind = "open", call[q].pc = "open" PROVE SeedHolds(q)'
  <2>1. path \in File /\ Owner(path) = call[q].seed /\ call[q].seed \in Seed
    BY <1>0, <1>7 DEF SeedHolds, CallMatches, NoCall
  <2>2. Owner(path)' = call[q].seed
    BY <1>0, <1>6, <2>1
  <2> QED BY <1>0, <1>1, <1>7, <2>1, <2>2 DEF SeedHolds, Creating, HasWallet
<1>8. ASSUME call[q].kind = "open", call[q].pc = "lock" PROVE SeedHolds(q)'
  <2>1. call[q].file \in File /\ Owner(call[q].file) = call[q].seed /\ call[q].seed \in Seed
    BY <1>0, <1>8 DEF SeedHolds, CallMatches, NoCall, Call
  <2>2. Owner(call[q].file)' = call[q].seed
    BY <1>0, <1>6, <2>1
  <2> QED BY <1>0, <1>1, <1>8, <2>1, <2>2 DEF SeedHolds, Creating, HasWallet
<1> QED BY <1>0, <1>1, <1>4, <1>5, <1>7, <1>8 DEF SeedHolds

\* An address is generated by a call that fills the pool.
LEMMA SeedsGenerate ==
  ASSUME FInv, SeedsMatch, NEW p \in Process, call[p].pc = "fill",
         Generate(call[p].file, call[p].seed), UNCHANGED <<path, aside, call>>
  PROVE  SeedsMatch'
<1>0. /\ call \in [Process -> Call] /\ file \in [File -> Content] /\ CallMatches(p) /\ SeedHolds(p)
      /\ CreatorOwnsPath /\ FilesExist
  BY DEF FInv, FileTypeOK, SeedsMatch
<1> DEFINE f == call[p].file
           s == call[p].seed
<1>1. f \in File /\ f \notin aside /\ f # NoFile /\ s \in Seed /\ call[p].lock = "exclusive" /\ ~HasWallet(p)
  BY <1>0, FileAssumption DEF CallMatches, Call, FilesExist, HasWallet, NoCall
<1>2. CASE call[p].kind = "create"
  <2>1. Creating(p) /\ f = path /\ Owner(f) \in {NoSeed, s}
    BY <1>0, <1>1, <1>2 DEF Creating, CreatorOwnsPath, SeedHolds
  <2>2. file'[f].records = Append(file[f].records, s) /\ \A g \in File \ {f} : file'[g] = file[g]
    BY <1>0, <1>1 DEF Generate, Content
  <2>3. RecordsKept' /\ Owner(f)' = s
    BY <1>1, <2>1, <2>2, AppendKeeps
  <2>4. SeedHolds(p)'
    BY <1>1, <1>2, <2>1, <2>3 DEF SeedHolds, HasWallet
  <2>5. ASSUME NEW q \in Process \ {p} PROVE SeedHolds(q)'
    BY <1>1, <2>1, <2>2, <2>3, OthersSpared
  <2> QED BY <2>3, <2>4, <2>5 DEF SeedsMatch
<1>3. CASE call[p].kind # "create"
  <2>1. call[p].kind = "open" /\ Owner(f) = s /\ NoSeed # s
    BY <1>0, <1>1, <1>3, FileAssumption DEF CallMatches, NoCall, Call, SeedHolds
  <2>2. file[f].records # <<>>
    BY <2>1 DEF Owner
  <2>3. f \in aside \cup {path}
    BY <1>1, <2>2 DEF SeedsMatch, RecordsKept
  <2>4. file'[f].records = Append(file[f].records, s) /\ \A g \in File \ {f} : file'[g] = file[g]
    BY <1>0, <1>1 DEF Generate, Content
  <2>5. RecordsKept' /\ Owner(f)' = s
    BY <1>1, <2>1, <2>3, <2>4, AppendKeeps
  <2>6. SeedHolds(p)'
    BY <1>1, <1>3, <2>1, <2>5 DEF SeedHolds, HasWallet, Creating
  <2>7. ASSUME NEW q \in Process \ {p} PROVE SeedHolds(q)'
    BY <1>1, <2>1, <2>4, <2>5, OthersSpared
  <2> QED BY <2>5, <2>6, <2>7 DEF SeedsMatch
<1> QED BY <1>2, <1>3

\* The pool is filled, or could not be.
LEMMA SeedsFillPool ==
  ASSUME FInv, SeedsMatch, NEW p \in Process, FillPool(p), ~late' PROVE SeedsMatch'
<1>0. /\ call \in [Process -> Call] /\ file \in [File -> Content] /\ CallMatches(p) /\ SeedHolds(p)
      /\ call[p].pc = "fill" /\ UNCHANGED <<path, aside>> /\ call[p].kind \in {"create", "open"}
      /\ call[p].file \in File /\ call[p].seed \in Seed /\ CreatorOwnsPath
  BY DEF FInv, FileTypeOK, SeedsMatch, FillPool, CallMatches, NoCall, Call
<1>1. CASE Generate(call[p].file, call[p].seed) /\ UNCHANGED call
  BY <1>0, <1>1, SeedsGenerate
<1>2. CASE /\ Fail(p) /\ UNCHANGED file
           /\ late' = (late \/ (call[p].kind = "create" /\ file[call[p].file].records # <<>>))
  <2>1. call[p].kind = "create" => Owner(path) = NoSeed
    BY <1>0, <1>2 DEF Owner, CreatorOwnsPath, Creating, CallMatches
  <2> QED BY <1>0, <1>2, <2>1, SeedsFail
<1>3. CASE /\ PoolIsFull(call[p].file) /\ UNCHANGED file
           /\ call' = [call EXCEPT ![p].pc = "idle"]
  <2>1. /\ call'[p].pc = "idle" /\ call'[p].file = call[p].file /\ call'[p].seed = call[p].seed
        /\ \A q \in Process \ {p} : call'[q] = call[q]
    BY <1>0, <1>3 DEF Call
  <2>2. Owner(call[p].file) = call[p].seed
    <3>1. Len(file[call[p].file].records) # 0
      BY <1>0, <1>3, FileAssumption DEF PoolIsFull, Content
    <3>2. Owner(call[p].file) # NoSeed
      BY <1>0, <3>1, FileAssumption, AppendFirst DEF Owner, Content
    <3> QED BY <1>0, <3>2 DEF SeedHolds, Creating, CreatorOwnsPath, CallMatches
  <2>3. SeedHolds(p)'
    BY <1>0, <1>3, <2>1, <2>2 DEF SeedHolds, Creating, Owner
  <2> QED BY <1>0, <1>3, <2>1, <2>3, QuietStep
<1> QED BY <1>1, <1>2, <1>3 DEF FillPool

\* A credit moves no record.
LEMMA SeedsUse ==
  ASSUME FInv, SeedsMatch, NEW p \in Process, UseAddress(p) PROVE SeedsMatch'
<1>0. /\ call \in [Process -> Call] /\ file \in [File -> Content] /\ SeedHolds(p)
      /\ HasWallet(p) /\ UNCHANGED <<path, aside>>
  BY DEF FInv, FileTypeOK, SeedsMatch, UseAddress
<1>1. call[p].file \in File
  BY <1>0 DEF HasWallet, Call
<1>2. \A f \in File : file'[f].records = file[f].records
  BY <1>0, <1>1 DEF UseAddress, Content
<1>3. /\ call'[p].pc = "refill" /\ call'[p].file = call[p].file /\ call'[p].seed = call[p].seed
      /\ \A q \in Process \ {p} : call'[q] = call[q]
  BY <1>0 DEF UseAddress, Call
<1>4. SeedHolds(p)'
  BY <1>0, <1>1, <1>2, <1>3 DEF SeedHolds, HasWallet, Creating, Owner
<1> QED BY <1>0, <1>2, <1>3, <1>4, QuietStep

\* The holder of an open wallet generates an address, or stops.
LEMMA SeedsRefill ==
  ASSUME FInv, SeedsMatch, NEW p \in Process, RefillPool(p) PROVE SeedsMatch'
<1>0. /\ call \in [Process -> Call] /\ file \in [File -> Content] /\ CallMatches(p) /\ SeedHolds(p)
      /\ call[p].pc = "refill" /\ UNCHANGED <<path, aside>> /\ NoSeed \notin Seed
  BY FileAssumption DEF FInv, FileTypeOK, SeedsMatch, RefillPool
<1> DEFINE f == call[p].file
           s == call[p].seed
<1>1. /\ f \in File /\ s \in Seed /\ HasWallet(p) /\ call[p].lock = "exclusive" /\ Owner(f) = s
  BY <1>0 DEF CallMatches, Call, NoCall, HasWallet, SeedHolds
<1>2. CASE Generate(f, s) /\ UNCHANGED call
  <2>0. file[f].records # <<>>
    BY <1>0, <1>1 DEF Owner
  <2>1. f \in aside \cup {path}
    BY <1>1, <2>0 DEF SeedsMatch, RecordsKept
  <2>2. /\ file'[f].records = Append(file[f].records, s)
        /\ \A g \in File \ {f} : file'[g] = file[g]
    BY <1>0, <1>1, <1>2 DEF Generate, Content
  <2>3. RecordsKept' /\ Owner(f)' = s
    BY <1>0, <1>1, <1>2, <2>1, <2>2, AppendKeeps
  <2>4. SeedHolds(p)'
    BY <1>0, <1>1, <1>2, <2>3 DEF SeedHolds, HasWallet, Creating
  <2>5. ASSUME NEW q \in Process \ {p} PROVE SeedHolds(q)'
    BY <1>0, <1>1, <1>2, <2>2, <2>3, OthersSpared
  <2> QED BY <2>3, <2>4, <2>5 DEF SeedsMatch
<1>3. CASE call' = [call EXCEPT ![p].pc = "idle"] /\ UNCHANGED file
  <2>1. /\ call'[p].pc = "idle" /\ call'[p].file = f /\ call'[p].seed = s
        /\ \A q \in Process \ {p} : call'[q] = call[q]
    BY <1>0, <1>3 DEF Call
  <2>2. SeedHolds(p)'
    BY <1>1, <1>3, <2>1 DEF SeedHolds, HasWallet, Creating, Owner
  <2> QED BY <1>0, <1>3, <2>1, <2>2, QuietStep
<1> QED BY <1>2, <1>3 DEF RefillPool

\* A creation that failed before its first address removes an empty file.
LEMMA SeedsRemove ==
  ASSUME FInv, SeedsMatch, NEW p \in Process, RemoveCreated(p) PROVE SeedsMatch'
<1>0. /\ call \in [Process -> Call] /\ file \in [File -> Content] /\ FilesExist
      /\ NoSeed \notin Seed /\ NoFile \notin File
      /\ call[p].pc = "remove" /\ path' = NoFile /\ UNCHANGED <<aside, file>>
  BY FileAssumption DEF FInv, FileTypeOK, RemoveCreated
<1>1. call'[p] = NoCall /\ \A q \in Process \ {p} : call'[q] = call[q]
  BY <1>0 DEF RemoveCreated, Refuse
<1>2. Creating(p)
  BY <1>0 DEF Creating, FInv, CallMatches
<1>3. path \in File /\ Owner(path) = NoSeed /\ \A q \in Process \ {p} : ~Creating(q)
  BY <1>0, <1>2 DEF FInv, CreatorOwnsPath, FileTypeOK, SeedsMatch, SeedHolds
<1>4. file[path].records = <<>>
  <2>1. file[path].records \in Seq(Seed)
    BY <1>0, <1>3 DEF Content
  <2> QED BY <1>0, <1>3, <2>1, AppendFirst DEF Owner
<1>5. RecordsKept'
  BY <1>0, <1>3, <1>4 DEF SeedsMatch, RecordsKept, Owner
<1>6. SeedHolds(p)'
  BY <1>1 DEF SeedHolds, NoCall, Creating, HasWallet
<1>7. ASSUME NEW q \in Process \ {p} PROVE SeedHolds(q)'
  <2>1. SeedHolds(q) /\ CallMatches(q) /\ call'[q] = call[q]
    BY <1>1 DEF SeedsMatch, FInv
  <2>2. call[q].kind = "open" => call[q].pc # "open"
    BY <1>0, <1>3, <2>1 DEF SeedHolds, CallMatches, NoCall
  <2> QED BY <1>0, <1>3, <2>1, <2>2 DEF SeedHolds, Creating, HasWallet, Owner
<1> QED BY <1>5, <1>6, <1>7 DEF SeedsMatch

\* Who writes a file has its seed, as long as no creation has failed late.
LEMMA SeedsStep ==
  ASSUME FInv, [FileNext]_fileVars, ~late' PROVE SeedsMatch'
<1>0. ~late /\ SeedsMatch /\ aside \subseteq File /\ path \in File \cup {NoFile}
  BY LateStays DEF FInv, FileTypeOK
<1>1. CASE MoveAside
  BY <1>0, <1>1 DEF MoveAside, SeedsMatch, RecordsKept, SeedHolds, Creating, HasWallet, Owner
<1>2. ASSUME NEW f \in File, PutBack(f) PROVE SeedsMatch'
  BY <1>0, <1>2, FileAssumption DEF PutBack, SeedsMatch, RecordsKept, SeedHolds, Creating, HasWallet, Owner, FInv, FileTypeOK
<1>3. CASE UNCHANGED fileVars
  BY <1>0, <1>3 DEF fileVars, SeedsMatch, RecordsKept, SeedHolds, Creating, HasWallet, Owner
<1> QED BY <1>0, <1>1, <1>2, <1>3, SeedsQuiet, SeedsClaim, SeedsRemove, SeedsOpenDatabase, SeedsInitBuckets,
           SeedsFillPool, SeedsUse, SeedsRefill
        DEF FileNext, LibraryStep

\* The inductive invariant holds of every reachable state.
THEOREM FileSafe == FileSpec => []FInv
<1>1. FileInit => FInv
  <2> SUFFICES ASSUME FileInit PROVE FInv
    OBVIOUS
  <2>1. FileTypeOK
    <3>1. [stage |-> "unused", records |-> <<>>, used |-> 0] \in Content
      BY DEF Content, Stage
    <3>2. file \in [File -> Content]
      BY <3>1 DEF FileInit
    <3>3. call \in [Process -> Call]
      BY NoCallIsCall DEF FileInit
    <3> QED BY <3>2, <3>3 DEF FileInit, FileTypeOK
  <2>2. /\ \A p \in Process : CallMatches(p)
        /\ \A p \in Process : ~Creating(p) /\ ~HasWallet(p)
    BY DEF FileInit, CallMatches, NoCall, HasWallet, Creating
  <2>3. LocksExclude /\ FilesExist /\ CreatorOwnsPath /\ CreatedStays
    BY <2>2, FileAssumption DEF FileInit, LocksExclude, FilesExist, CreatorOwnsPath, CreatedStays, NoCall, Unused
  <2>4. SeedsMatch
    BY <2>2 DEF FileInit, SeedsMatch, RecordsKept, SeedHolds, NoCall
  <2> QED BY <2>1, <2>2, <2>3, <2>4 DEF FInv
<1>2. FInv /\ [FileNext]_fileVars => FInv'
  <2> SUFFICES ASSUME FInv, [FileNext]_fileVars PROVE FInv'
    OBVIOUS
  <2>1. FileTypeOK' /\ \A p \in Process : CallMatches(p)'
    BY TypeStep, CallsStep
  <2>2. LocksExclude' /\ FilesExist' /\ CreatorOwnsPath' /\ CreatedStays'
    BY LocksStep, FilesStep, CreatorStep
  <2>3. ~late' => SeedsMatch'
    BY SeedsStep
  <2> QED BY <2>1, <2>2, <2>3 DEF FInv
<1> QED BY <1>1, <1>2, PTL DEF FileSpec

\* What a caller was given as a new wallet is never removed or replaced.
THEOREM CreatedSafe == FileSpec => []CreatedStays
<1>1. FInv => CreatedStays
  BY DEF FInv
<1> QED BY <1>1, FileSafe, PTL

\* Nobody waits for a lock of its own, or of a process that waits.
THEOREM NoCircle == FileSpec => []NobodyWaitsInACircle
<1>1. FInv => NobodyWaitsInACircle
  BY DEF FInv, NobodyWaitsInACircle, CallMatches, HasWallet
<1> QED BY <1>1, FileSafe, PTL

\* All addresses of a file are encrypted under one seed.
THEOREM OneSeed == FileSpec => []OneSeedPerFile
<1>1. FInv => OneSeedPerFile
  BY DEF FInv, OneSeedPerFile, SeedsMatch, RecordsKept
<1> QED BY <1>1, FileSafe, PTL

\* A wallet that is open can be opened again with its holder's seed.
THEOREM Reopenable == FileSpec => []OpenIsReopenable
<1>1. FInv => OpenIsReopenable
  BY DEF FInv, OpenIsReopenable, SeedsMatch, SeedHolds, FilesExist, HasWallet
<1> QED BY <1>1, FileSafe, PTL
=============================================================================
