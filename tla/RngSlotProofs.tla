--------------------------- MODULE RngSlotProofs ---------------------------
(* Keys depend on their seed alone and signatures on the system's randomness, *)
(* for any number of threads, seeds and draws.                                *)
EXTENDS RngSlot, TLAPS

\* What a job has drawn so far, by what the callback noted.
JobOK(j) ==
  /\ j.ok => j.pc \in {"restore", "unlock"}
  /\ j.op = "seeded" =>
       /\ ~j.called => j.sources = {} /\ ~j.cbErr
       /\ j.called /\ ~j.cbErr => j.sources = {j.seed}
       /\ j.ok => j.called /\ ~j.cbErr
  /\ j.op # "seeded" =>
       /\ j.pc \notin {"install", "check", "restore"}
       /\ j.draws = 0 => j.sources = {}
       /\ j.draws > 0 => j.sources = {System}
       /\ j.ok => j.draws > 0

\* While a key is derived, the callback installed is its own.
OwnCallback ==
  \A th \in Thread : job[th].op = "seeded" /\ job[th].pc \in {"draw", "check"} => slot = th

RngInv ==
  /\ RngTypeOK
  /\ \A th \in Thread : JobOK(job[th])
  /\ CallbackIsExclusive /\ OwnCallback
  /\ KeyIsFromItsSeed /\ RandomnessIsSystem

\* A step that replaces one job by a good one leaves all jobs good.
LEMMA OneJob ==
  ASSUME job \in [Thread -> Job], \A x \in Thread : JobOK(job[x]),
         NEW th \in Thread, NEW j \in Job, JobOK(j), job' = [job EXCEPT ![th] = j]
  PROVE  /\ job' \in [Thread -> Job]
         /\ \A x \in Thread : JobOK(job'[x])
         /\ job'[th] = j
         /\ \A x \in Thread : x # th => job'[x] = job[x]
<1>1. job' \in [Thread -> Job] /\ job'[th] = j /\ \A x \in Thread : x # th => job'[x] = job[x]
  OBVIOUS
<1> QED BY <1>1

\* The thread that draws while a callback is installed is the one it is for.
LEMMA DrawsFromOwnSlot ==
  ASSUME RngInv, NEW th \in Thread, job[th].pc = "draw"
  PROVE  IF slot = System THEN job[th].op # "seeded" ELSE slot = th /\ job[th].op = "seeded"
<1>1. rngMu = th
  BY DEF RngInv, RngTypeOK
<1>2. slot # System => slot = th /\ job[th].op = "seeded"
  BY <1>1 DEF RngInv, CallbackIsExclusive
<1>3. slot = System => job[th].op # "seeded"
  BY RngAssumption DEF RngInv, OwnCallback
<1> QED BY <1>2, <1>3

\* One draw from the right generator keeps a job good.
LEMMA DrawIsGood ==
  ASSUME NEW j \in Job, JobOK(j), j.draws < MaxDraws, NEW right \in BOOLEAN
  PROVE  /\ j.op # "seeded" =>
              LET new == [j EXCEPT !.draws = @ + 1, !.sources = @ \cup {System}]
              IN  new \in Job /\ JobOK(new) /\ new.op = j.op /\ new.pc = j.pc
         /\ j.op = "seeded" =>
              LET accepts == ~j.called /\ right
                  new == [j EXCEPT !.called = TRUE, !.cbErr = @ \/ ~accepts, !.draws = @ + 1,
                                   !.sources = @ \cup {IF accepts THEN j.seed ELSE Zeros}]
              IN  j.ok = FALSE => new \in Job /\ JobOK(new) /\ new.op = j.op /\ new.pc = j.pc
<1>1. j.draws + 1 \in 0 .. MaxDraws /\ j.draws \in Nat /\ MaxDraws \in Nat
  BY RngAssumption DEF Job
<1>2. CASE j.op # "seeded"
  <2> DEFINE new == [j EXCEPT !.draws = j.draws + 1, !.sources = j.sources \cup {System}]
  <2>1. new \in Job
    BY <1>1 DEF Job, Source
  <2>2. /\ new.op = j.op /\ new.pc = j.pc /\ new.draws = j.draws + 1 /\ new.ok = j.ok
        /\ new.sources = j.sources \cup {System}
    BY DEF Job
  <2>3. new.sources = {System} /\ new.draws > 0
    BY <1>1, <1>2, <2>2 DEF JobOK
  <2> HIDE DEF new
  <2>4. JobOK(new)
    BY <1>1, <1>2, <2>2, <2>3 DEF JobOK
  <2> QED BY <1>2, <2>1, <2>2, <2>4 DEF new
<1>3. CASE j.op = "seeded" /\ j.ok = FALSE
  <2> DEFINE accepts == ~j.called /\ right
             source == IF accepts THEN j.seed ELSE Zeros
             new == [j EXCEPT !.called = TRUE, !.cbErr = j.cbErr \/ ~accepts,
                              !.draws = j.draws + 1, !.sources = j.sources \cup {source}]
  <2>1. accepts \in BOOLEAN /\ (j.cbErr \/ ~accepts) \in BOOLEAN /\ source \in Source
    BY DEF Job, Source
  <2>2. accepts => source = j.seed /\ ~j.called
    OBVIOUS
  <2> HIDE DEF accepts, source
  <2>3. new \in Job
    BY <1>1, <2>1 DEF Job
  <2>4. /\ new.op = j.op /\ new.pc = j.pc /\ new.called = TRUE /\ new.ok = j.ok /\ new.seed = j.seed
        /\ new.cbErr = (j.cbErr \/ ~accepts) /\ new.sources = j.sources \cup {source}
    BY DEF Job
  <2> HIDE DEF new
  <2>5. ~new.cbErr => new.sources = {new.seed}
    BY <1>3, <2>2, <2>4 DEF JobOK
  <2>6. JobOK(new)
    BY <1>3, <2>4, <2>5 DEF JobOK
  <2> QED BY <1>3, <2>3, <2>4, <2>6 DEF new, accepts, source
<1> QED BY <1>2, <1>3

\* A call that takes no seed starts in a good state.
LEMMA NewCall ==
  ASSUME NEW op \in {"new", "sign"}
  PROVE  LET new == [NoJob EXCEPT !.op = op, !.pc = "lock"] IN new \in Job /\ JobOK(new)
<1> DEFINE new == [NoJob EXCEPT !.op = op, !.pc = "lock"]
<1>1. NoJob \in Job /\ NoJob.draws = 0 /\ NoJob.sources = {} /\ ~NoJob.ok
  BY RngAssumption DEF NoJob, Job, RngOp, RngPc, Source
<1>2. op \in RngOp /\ op # "seeded"
  BY DEF RngOp
<1>3. new \in Job
  BY <1>1, <1>2 DEF Job, RngPc
<1>4. new.op = op /\ new.pc = "lock" /\ new.draws = 0 /\ new.sources = {} /\ ~new.ok
  BY <1>1 DEF Job
<1> HIDE DEF new
<1>5. JobOK(new)
  BY <1>2, <1>4 DEF JobOK
<1> QED BY <1>3, <1>5 DEF new

\* Keys depend on their own seed alone and signatures on the system's
\* randomness, because the callback is installed and removed under the mutex.
THEOREM RngSafe ==
  RngSpec => [](RngTypeOK /\ CallbackIsExclusive /\ KeyIsFromItsSeed /\ RandomnessIsSystem)
<1>1. RngInit => RngInv
  <2> SUFFICES ASSUME RngInit PROVE RngInv
    OBVIOUS
  <2>1. NoJob \in Job /\ JobOK(NoJob)
    BY RngAssumption DEF NoJob, Job, RngOp, RngPc, Source, JobOK
  <2>2. \A th \in Thread : job[th] = NoJob
    BY DEF RngInit
  <2> QED BY <2>1, <2>2, RngAssumption
          DEF RngInit, RngInv, RngTypeOK, NoJob, CallbackIsExclusive, OwnCallback,
              KeyIsFromItsSeed, RandomnessIsSystem
<1>2. RngInv /\ [RngNext]_rngVars => RngInv'
  <2> SUFFICES ASSUME RngInv, [RngNext]_rngVars PROVE RngInv'
    OBVIOUS
  <2>0. /\ job \in [Thread -> Job] /\ \A x \in Thread : JobOK(job[x])
        /\ System \notin Thread /\ NoThread \notin Thread
        /\ rngMu \in Thread \cup {NoThread} /\ slot \in Thread \cup {System}
        /\ \A th \in Thread : rngMu = th <=> job[th].pc \notin {"idle", "lock"}
        /\ made \subseteq [op : RngOp, seed : Seed \cup {Zeros}, sources : SUBSET Source]
    BY RngAssumption DEF RngInv, RngTypeOK
  <2>1. ASSUME NEW th \in Thread, NEW seed \in Seed, CallSeeded(th, seed)
        PROVE  RngInv'
    <3> DEFINE new == [NoJob EXCEPT !.op = "seeded", !.pc = "lock", !.seed = seed]
    <3>1. /\ job' = [job EXCEPT ![th] = new]
          /\ rngMu' = rngMu /\ slot' = slot /\ made' = made
      BY <2>0, <2>1 DEF CallSeeded
    <3>2. new.pc = "lock" /\ job[th].pc = "idle"
      BY <2>0, <2>1 DEF CallSeeded, Job, RngOp, RngPc, NoJob, Source
    <3>3. new \in Job /\ JobOK(new)
      BY <2>0, <2>1, RngAssumption DEF CallSeeded, Job, RngOp, RngPc, NoJob, Source, JobOK
    <3> HIDE DEF new
    <3>4. /\ job' \in [Thread -> Job] /\ \A x \in Thread : JobOK(job'[x])
          /\ job'[th] = new /\ \A x \in Thread : x # th => job'[x] = job[x]
      BY <2>0, <3>1, <3>3, OneJob
    <3> QED BY <2>0, <2>1, <3>1, <3>2, <3>4 DEF CallSeeded, RngInv, RngTypeOK, CallbackIsExclusive, OwnCallback, KeyIsFromItsSeed, RandomnessIsSystem
  <2>2. ASSUME NEW th \in Thread, NEW op \in {"new", "sign"}, CallNewOrSign(th, op)
        PROVE  RngInv'
    <3> DEFINE new == [NoJob EXCEPT !.op = op, !.pc = "lock"]
    <3>1. /\ job' = [job EXCEPT ![th] = new]
          /\ rngMu' = rngMu /\ slot' = slot /\ made' = made
      BY <2>0, <2>2 DEF CallNewOrSign
    <3>2. new.pc = "lock" /\ job[th].pc = "idle"
      BY <2>0, <2>2 DEF CallNewOrSign, Job, RngOp, RngPc, NoJob, Source
    <3>3. new \in Job /\ JobOK(new)
      BY NewCall
    <3> HIDE DEF new
    <3>4. /\ job' \in [Thread -> Job] /\ \A x \in Thread : JobOK(job'[x])
          /\ job'[th] = new /\ \A x \in Thread : x # th => job'[x] = job[x]
      BY <2>0, <3>1, <3>3, OneJob
    <3> QED BY <2>0, <2>2, <3>1, <3>2, <3>4 DEF CallNewOrSign, RngInv, RngTypeOK, CallbackIsExclusive, OwnCallback, KeyIsFromItsSeed, RandomnessIsSystem
  <2>3. ASSUME NEW th \in Thread, LockRng(th)
        PROVE  RngInv'
    <3>1. slot = System
      BY <2>0, <2>3 DEF LockRng, RngInv, CallbackIsExclusive
    <3>2. CASE job[th].op = "seeded"
      <4> DEFINE new == [job[th] EXCEPT !.pc = "install"]
      <4>1. job' = [job EXCEPT ![th] = new] /\ rngMu' = th /\ slot' = slot /\ made' = made
        BY <2>0, <2>3, <3>2 DEF LockRng
      <4>2. new.pc = "install" /\ new.op = "seeded" /\ job[th].pc = "lock"
        BY <2>0, <2>3, <3>2 DEF LockRng, Job
      <4>3. new \in Job /\ JobOK(new)
        BY <2>0, <2>3, <3>2 DEF LockRng, Job, RngPc, JobOK
      <4> HIDE DEF new
      <4>4. /\ job' \in [Thread -> Job] /\ \A x \in Thread : JobOK(job'[x])
            /\ job'[th] = new /\ \A x \in Thread : x # th => job'[x] = job[x]
        BY <2>0, <4>1, <4>3, OneJob
      <4>5. \A x \in Thread : job[x].pc \in {"idle", "lock"}
        BY <2>0, <2>3 DEF LockRng
      <4> QED BY <2>0, <3>1, <4>1, <4>2, <4>4, <4>5 DEF RngInv, RngTypeOK, CallbackIsExclusive, OwnCallback, KeyIsFromItsSeed, RandomnessIsSystem
    <3>3. CASE job[th].op # "seeded"
      <4> DEFINE new == [job[th] EXCEPT !.pc = "draw"]
      <4>1. job' = [job EXCEPT ![th] = new] /\ rngMu' = th /\ slot' = slot /\ made' = made
        BY <2>0, <2>3, <3>3 DEF LockRng
      <4>2. new.pc = "draw" /\ new.op # "seeded" /\ job[th].pc = "lock"
        BY <2>0, <2>3, <3>3 DEF LockRng, Job
      <4>3. new \in Job /\ JobOK(new)
        BY <2>0, <2>3, <3>3 DEF LockRng, Job, RngPc, JobOK
      <4> HIDE DEF new
      <4>4. /\ job' \in [Thread -> Job] /\ \A x \in Thread : JobOK(job'[x])
            /\ job'[th] = new /\ \A x \in Thread : x # th => job'[x] = job[x]
        BY <2>0, <4>1, <4>3, OneJob
      <4>5. \A x \in Thread : job[x].pc \in {"idle", "lock"}
        BY <2>0, <2>3 DEF LockRng
      <4> QED BY <2>0, <3>1, <4>1, <4>2, <4>4, <4>5 DEF RngInv, RngTypeOK, CallbackIsExclusive, OwnCallback, KeyIsFromItsSeed, RandomnessIsSystem
    <3> QED BY <3>2, <3>3
  <2>4. ASSUME NEW th \in Thread, InstallCallback(th)
        PROVE  RngInv'
    <3>0. job[th].pc = "install" /\ job[th].op = "seeded" /\ rngMu = th
      BY <2>0, <2>4 DEF InstallCallback, JobOK
    <3>a. slot = System
      BY <2>0, <3>0 DEF RngInv, CallbackIsExclusive
    <3>1. CASE slot' = slot /\ job' = [job EXCEPT ![th].pc = "unlock"]
      <4> DEFINE new == [job[th] EXCEPT !.pc = "unlock"]
      <4>1. job' = [job EXCEPT ![th] = new] /\ rngMu' = rngMu /\ made' = made
        BY <2>0, <2>4, <3>1 DEF InstallCallback
      <4>2. new.pc = "unlock"
        BY <2>0, <2>4, <3>1 DEF InstallCallback, Job, RngPc, JobOK
      <4>3. new \in Job /\ JobOK(new)
        BY <2>0, <2>4, <3>1 DEF InstallCallback, Job, RngPc, JobOK
      <4> HIDE DEF new
      <4>4. /\ job' \in [Thread -> Job] /\ \A x \in Thread : JobOK(job'[x])
            /\ job'[th] = new /\ \A x \in Thread : x # th => job'[x] = job[x]
        BY <2>0, <4>1, <4>3, OneJob
      <4> QED BY <2>0, <3>1, <3>0, <3>a, <4>1, <4>2, <4>4 DEF RngInv, RngTypeOK, CallbackIsExclusive, OwnCallback, KeyIsFromItsSeed, RandomnessIsSystem
    <3>2. CASE slot' = th /\ job' = [job EXCEPT ![th].pc = "draw"]
      <4> DEFINE new == [job[th] EXCEPT !.pc = "draw"]
      <4>1. job' = [job EXCEPT ![th] = new] /\ rngMu' = rngMu /\ made' = made
        BY <2>0, <2>4, <3>2 DEF InstallCallback
      <4>2. new.pc = "draw" /\ new.op = job[th].op
        BY <2>0, <2>4, <3>2 DEF InstallCallback, Job, RngPc, JobOK
      <4>3. new \in Job /\ JobOK(new)
        BY <2>0, <2>4, <3>2 DEF InstallCallback, Job, RngPc, JobOK
      <4> HIDE DEF new
      <4>4. /\ job' \in [Thread -> Job] /\ \A x \in Thread : JobOK(job'[x])
            /\ job'[th] = new /\ \A x \in Thread : x # th => job'[x] = job[x]
        BY <2>0, <4>1, <4>3, OneJob
      <4> QED BY <2>0, <3>2, <3>0, <3>a, <4>1, <4>2, <4>4 DEF RngInv, RngTypeOK, CallbackIsExclusive, OwnCallback, KeyIsFromItsSeed, RandomnessIsSystem
    <3>3. CASE slot' = th /\ job' = [job EXCEPT ![th].pc = "restore"]
      <4> DEFINE new == [job[th] EXCEPT !.pc = "restore"]
      <4>1. job' = [job EXCEPT ![th] = new] /\ rngMu' = rngMu /\ made' = made
        BY <2>0, <2>4, <3>3 DEF InstallCallback
      <4>2. new.pc = "restore" /\ new.op = job[th].op
        BY <2>0, <2>4, <3>3 DEF InstallCallback, Job, RngPc, JobOK
      <4>3. new \in Job /\ JobOK(new)
        BY <2>0, <2>4, <3>3 DEF InstallCallback, Job, RngPc, JobOK
      <4> HIDE DEF new
      <4>4. /\ job' \in [Thread -> Job] /\ \A x \in Thread : JobOK(job'[x])
            /\ job'[th] = new /\ \A x \in Thread : x # th => job'[x] = job[x]
        BY <2>0, <4>1, <4>3, OneJob
      <4> QED BY <2>0, <3>3, <3>0, <3>a, <4>1, <4>2, <4>4 DEF RngInv, RngTypeOK, CallbackIsExclusive, OwnCallback, KeyIsFromItsSeed, RandomnessIsSystem
    <3> QED BY <2>4, <3>1, <3>2, <3>3 DEF InstallCallback
  <2>5. ASSUME NEW th \in Thread, Draw(th)
        PROVE  RngInv'
    <3>0. /\ job[th].pc = "draw" /\ job[th].draws < MaxDraws /\ job[th].ok = FALSE
          /\ rngMu' = rngMu /\ slot' = slot /\ made' = made
      BY <2>0, <2>5 DEF Draw, JobOK, Job
    <3>1. PICK new \in Job : /\ JobOK(new) /\ new.op = job[th].op /\ new.pc = job[th].pc
                              /\ job' = [job EXCEPT ![th] = new]
      <4>1. CASE slot = System
        <5>1. job[th].op # "seeded"
          BY <3>0, <4>1, DrawsFromOwnSlot
        <5>2. job' = [job EXCEPT ![th] = [job[th] EXCEPT !.draws = @ + 1, !.sources = @ \cup {System}]]
          BY <2>0, <2>5, <4>1 DEF Draw
        <5>3. TRUE \in BOOLEAN
          OBVIOUS
        <5> QED BY <2>0, <3>0, <5>1, <5>2, <5>3, DrawIsGood
      <4>2. CASE slot # System
        <5>1. slot = th /\ job[th].op = "seeded"
          BY <3>0, <4>2, DrawsFromOwnSlot
        <5>2. PICK right \in BOOLEAN : job' = Callback(th, th, right)
          BY <2>5, <4>2, <5>1 DEF Draw
        <5> DEFINE accepts == ~job[th].called /\ right
                   new == [job[th] EXCEPT !.called = TRUE, !.cbErr = @ \/ ~accepts, !.draws = @ + 1,
                                          !.sources = @ \cup {IF accepts THEN job[th].seed ELSE Zeros}]
        <5>3. job' = [job EXCEPT ![th] = new]
          <6>1. ASSUME NEW x \in Thread, x # th
                PROVE  Callback(th, th, right)[x] = job[x]
            <7> DEFINE j == job[x]
            <7>1. j \in Job
              BY <2>0
            <7>2. Callback(th, th, right)[x] =
                    [j EXCEPT !.called = @ \/ x = th, !.cbErr = @ \/ (x = th /\ ~accepts),
                              !.draws = @, !.sources = @]
              BY <6>1 DEF Callback
            <7>3. (j.called \/ x = th) = j.called /\ (j.cbErr \/ (x = th /\ ~accepts)) = j.cbErr
              BY <6>1, <7>1 DEF Job
            <7>4. Callback(th, th, right)[x] =
                    [j EXCEPT !.called = j.called, !.cbErr = j.cbErr, !.draws = j.draws, !.sources = j.sources]
              BY <7>2, <7>3
            <7> HIDE DEF j, accepts
            <7>5. [j EXCEPT !.called = j.called, !.cbErr = j.cbErr, !.draws = j.draws, !.sources = j.sources] = j
              BY <7>1 DEF Job
            <7> QED BY <7>4, <7>5 DEF j
          <6>2. Callback(th, th, right)[th] = new
            <7>1. Callback(th, th, right)[th] =
                    [job[th] EXCEPT !.called = @ \/ th = th, !.cbErr = @ \/ (th = th /\ ~accepts),
                                    !.draws = @ + 1,
                                    !.sources = @ \cup {IF accepts THEN job[th].seed ELSE Zeros}]
              BY DEF Callback
            <7>2. (job[th].called \/ th = th) = TRUE
                  /\ (job[th].cbErr \/ (th = th /\ ~accepts)) = (job[th].cbErr \/ ~accepts)
              OBVIOUS
            <7> QED BY <7>1, <7>2
          <6>3. DOMAIN Callback(th, th, right) = Thread
                /\ Callback(th, th, right) = [x \in Thread |-> Callback(th, th, right)[x]]
            BY DEF Callback
          <6> HIDE DEF new
          <6> QED BY <2>0, <5>2, <6>1, <6>2, <6>3
        <5>4. new \in Job /\ JobOK(new) /\ new.op = job[th].op /\ new.pc = job[th].pc
          BY <2>0, <3>0, <5>1, DrawIsGood, ZenonT(40)
        <5> QED BY <5>3, <5>4
      <4> QED BY <4>1, <4>2
    <3>2. /\ job' \in [Thread -> Job] /\ \A x \in Thread : JobOK(job'[x])
          /\ job'[th] = new /\ \A x \in Thread : x # th => job'[x] = job[x]
      BY <2>0, <3>1, OneJob
    <3> QED BY <2>0, <3>0, <3>1, <3>2 DEF RngInv, RngTypeOK, CallbackIsExclusive, OwnCallback, KeyIsFromItsSeed, RandomnessIsSystem
  <2>6. ASSUME NEW th \in Thread, Drawn(th)
        PROVE  RngInv'
    <3>0. /\ job[th].pc = "draw" /\ rngMu = th
          /\ rngMu' = rngMu /\ slot' = slot /\ made' = made
      BY <2>0, <2>6 DEF Drawn
    <3>a. IF slot = System THEN job[th].op # "seeded" ELSE slot = th /\ job[th].op = "seeded"
      BY <3>0, DrawsFromOwnSlot
    <3>b. PICK failed \in BOOLEAN :
            /\ failed \/ job[th].op = "seeded" \/ job[th].draws > 0
            /\ job' = [job EXCEPT ![th].pc = IF job[th].op # "seeded" THEN "unlock"
                                              ELSE IF failed THEN "restore" ELSE "check",
                                  ![th].ok = ~failed /\ job[th].op # "seeded"]
      BY <2>6 DEF Drawn
    <3>1. CASE job[th].op # "seeded"
      <4> DEFINE new == [job[th] EXCEPT !.pc = "unlock", !.ok = ~failed]
      <4>1. job' = [job EXCEPT ![th] = new]
        BY <2>0, <3>b, <3>1 DEF Job
      <4>2. new.pc = "unlock" /\ new \in Job
        BY <2>0, ZenonT(40) DEF Job, RngPc
      <4>3. JobOK(new)
        BY <2>0, <3>b, <3>1 DEF Job, JobOK
      <4> HIDE DEF new
      <4>4. /\ job' \in [Thread -> Job] /\ \A x \in Thread : JobOK(job'[x])
            /\ job'[th] = new /\ \A x \in Thread : x # th => job'[x] = job[x]
        BY <2>0, <4>1, <4>2, <4>3, OneJob
      <4> QED BY <2>0, <3>0, <3>a, <3>1, <4>2, <4>4 DEF RngInv, RngTypeOK, CallbackIsExclusive, OwnCallback, KeyIsFromItsSeed, RandomnessIsSystem
    <3>2. CASE job[th].op = "seeded"
      <4> DEFINE pc == IF failed THEN "restore" ELSE "check"
                 new == [job[th] EXCEPT !.pc = pc, !.ok = FALSE]
      <4>1. job' = [job EXCEPT ![th] = new]
        BY <2>0, <3>b, <3>2 DEF Job
      <4>2. pc \in {"restore", "check"}
        OBVIOUS
      <4> HIDE DEF pc
      <4>3. new.pc = pc /\ new.op = "seeded" /\ new \in Job
        BY <2>0, <3>2, <4>2 DEF Job, RngPc
      <4>4. JobOK(new)
        BY <2>0, <3>2 DEF Job, JobOK
      <4> HIDE DEF new
      <4>5. /\ job' \in [Thread -> Job] /\ \A x \in Thread : JobOK(job'[x])
            /\ job'[th] = new /\ \A x \in Thread : x # th => job'[x] = job[x]
        BY <2>0, <4>1, <4>3, <4>4, OneJob
      <4> QED BY <2>0, <3>0, <3>a, <3>2, <4>2, <4>3, <4>5 DEF RngInv, RngTypeOK, CallbackIsExclusive, OwnCallback, KeyIsFromItsSeed, RandomnessIsSystem
    <3> QED BY <3>1, <3>2
  <2>7. ASSUME NEW th \in Thread, CheckCallback(th)
        PROVE  RngInv'
    <3> DEFINE new == [job[th] EXCEPT !.pc = "restore", !.ok = job[th].called /\ ~job[th].cbErr]
    <3>0. job[th].op = "seeded" /\ job[th].pc = "check"
      BY <2>0, <2>7 DEF CheckCallback, JobOK
    <3>1. /\ job' = [job EXCEPT ![th] = new]
          /\ rngMu' = rngMu /\ slot' = slot /\ made' = made
      BY <2>0, <2>7 DEF CheckCallback
    <3>2. new.pc = "restore" /\ new.op = "seeded" /\ new \in Job
      BY <2>0, <3>0, ZenonT(40) DEF Job, RngPc
    <3>3. JobOK(new)
      BY <2>0, <3>0 DEF Job, JobOK
    <3> HIDE DEF new
    <3>4. /\ job' \in [Thread -> Job] /\ \A x \in Thread : JobOK(job'[x])
          /\ job'[th] = new /\ \A x \in Thread : x # th => job'[x] = job[x]
      BY <2>0, <3>1, <3>2, <3>3, OneJob
    <3> QED BY <2>0, <3>0, <3>1, <3>2, <3>4 DEF RngInv, RngTypeOK, CallbackIsExclusive, OwnCallback, KeyIsFromItsSeed, RandomnessIsSystem
  <2>8. ASSUME NEW th \in Thread, RestoreSystem(th)
        PROVE  RngInv'
    <3> DEFINE new == [job[th] EXCEPT !.pc = "unlock"]
    <3>1. /\ job' = [job EXCEPT ![th] = new]
          /\ rngMu' = rngMu /\ slot' = System /\ made' = made
      BY <2>0, <2>8 DEF RestoreSystem
    <3>2. new.pc = "unlock" /\ job[th].pc = "restore"
      BY <2>0, <2>8 DEF RestoreSystem, Job, RngOp, RngPc, NoJob, Source
    <3>3. new \in Job /\ JobOK(new)
      BY <2>0, <2>8, RngAssumption DEF RestoreSystem, Job, RngOp, RngPc, NoJob, Source, JobOK
    <3> HIDE DEF new
    <3>4. /\ job' \in [Thread -> Job] /\ \A x \in Thread : JobOK(job'[x])
          /\ job'[th] = new /\ \A x \in Thread : x # th => job'[x] = job[x]
      BY <2>0, <3>1, <3>3, OneJob
    <3> QED BY <2>0, <2>8, <3>1, <3>2, <3>4 DEF RestoreSystem, RngInv, RngTypeOK, CallbackIsExclusive, OwnCallback, KeyIsFromItsSeed, RandomnessIsSystem
  <2>9. ASSUME NEW th \in Thread, UnlockRng(th)
        PROVE  RngInv'
    <3> DEFINE k == [op |-> job[th].op, seed |-> job[th].seed, sources |-> job[th].sources]
    <3>0. job[th].pc = "unlock" /\ rngMu = th
      BY <2>0, <2>9 DEF UnlockRng
    <3>1. rngMu' = NoThread /\ slot' = slot /\ job' = [job EXCEPT ![th] = NoJob]
      BY <2>9 DEF UnlockRng
    <3>2. NoJob \in Job /\ JobOK(NoJob) /\ NoJob.pc = "idle"
      BY RngAssumption DEF NoJob, Job, RngOp, RngPc, Source, JobOK
    <3>3. /\ job' \in [Thread -> Job] /\ \A x \in Thread : JobOK(job'[x])
          /\ job'[th] = NoJob /\ \A x \in Thread : x # th => job'[x] = job[x]
      BY <2>0, <3>1, <3>2, OneJob
    <3>4. slot = System
      BY <2>0, <3>0 DEF RngInv, CallbackIsExclusive
    <3>5. job[th].ok => /\ k.op = "seeded" => k.sources = {k.seed}
                        /\ k.op # "seeded" => k.sources = {System}
      BY <2>0 DEF JobOK
    <3>6. k \in [op : RngOp, seed : Seed \cup {Zeros}, sources : SUBSET Source]
      BY <2>0 DEF Job
    <3> HIDE DEF k
    <3>7. made' = IF job[th].ok THEN made \cup {k} ELSE made
      BY <2>9 DEF UnlockRng, k
    <3>8. /\ made' \subseteq [op : RngOp, seed : Seed \cup {Zeros}, sources : SUBSET Source]
          /\ KeyIsFromItsSeed' /\ RandomnessIsSystem'
      BY <2>0, <3>5, <3>6, <3>7 DEF RngInv, KeyIsFromItsSeed, RandomnessIsSystem
    <3>9. RngTypeOK' /\ CallbackIsExclusive' /\ OwnCallback'
      BY <2>0, <3>0, <3>1, <3>2, <3>3, <3>4, <3>8 DEF RngInv, RngTypeOK, CallbackIsExclusive, OwnCallback
    <3> QED BY <3>3, <3>8, <3>9 DEF RngInv
  <2>10. CASE UNCHANGED rngVars
    BY <2>10 DEF rngVars, JobOK, RngInv, RngTypeOK, CallbackIsExclusive, OwnCallback, KeyIsFromItsSeed, RandomnessIsSystem
  <2> QED BY <2>1, <2>2, <2>3, <2>4, <2>5, <2>6, <2>7, <2>8, <2>9, <2>10 DEF RngNext, Run
<1>3. RngInv => RngTypeOK /\ CallbackIsExclusive /\ KeyIsFromItsSeed /\ RandomnessIsSystem
  BY DEF RngInv
<1> QED BY <1>1, <1>2, <1>3, PTL DEF RngSpec
=============================================================================
