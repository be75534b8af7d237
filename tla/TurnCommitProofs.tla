------------------------- MODULE TurnCommitProofs -------------------------
(***************************************************************************)
(* Proofs about TurnCommit, for every number of processes and every bound. *)
(*                                                                         *)
(* The inductive invariant relates a session to the database through the   *)
(* revision alone: a session whose version is as old as the database holds *)
(* the stored history, and the process that wrote the current revision     *)
(* knows what it wrote.  Every write advances the revision, so a write by  *)
(* anyone else makes both premises false.                                  *)
(***************************************************************************)
EXTENDS TurnCommit, TLAPS

(* Sessions that rely on a version they observed. *)
Observed ==
  \A p \in Procs :
    pc[p] \in {"ready", "selfplay"} /\ ahead[p] = 0 =>
      /\ srev[p] <= rev
      /\ origin[p] # "recovered" /\ srev[p] = rev => shist[p] = hist

(* Processes between their save and their answer. *)
Committed ==
  \A p \in Procs :
    pc[p] \in {"saved", "rollback"} =>
      /\ srev[p] + 1 <= rev
      /\ rev = srev[p] + 1 => hist = Append(shist[p], rev)

RecoveredIsEmpty ==
  \A p \in Procs : origin[p] = "recovered" => shist[p] = <<>>

MissingIsEmpty == blob = "missing" => hist = <<>>

IndInv ==
  /\ TypeOK
  /\ RowsMatchLog
  /\ Observed
  /\ Committed
  /\ RecoveredIsEmpty
  /\ MissingIsEmpty

(* The acknowledged turns, when every session advances only by a save. *)
Pending == {p \in Procs : pc[p] \in {"saved", "rollback"}}
Stored(n) == \E i \in 1..Len(hist) : hist[i] = n

AckInv ==
  /\ \A n \in acked : Stored(n) /\ n <= rev
  /\ \A p \in Pending : srev[p] + 1 \notin acked
  /\ \A p \in Pending : pc[p] = "saved" => Stored(srev[p] + 1)
  /\ \A p, q \in Pending : srev[p] = srev[q] => p = q

-----------------------------------------------------------------------------
LEMMA AppendFacts ==
  ASSUME NEW s \in Seq(Nat), NEW x \in Nat
  PROVE  /\ Append(s, x) \in Seq(Nat)
         /\ Len(Append(s, x)) = Len(s) + 1
         /\ \A i \in 1..Len(s) : Append(s, x)[i] = s[i]
         /\ Append(s, x)[Len(s) + 1] = x
  OBVIOUS

LEMMA AppendEmpty ==
  ASSUME NEW x \in Nat
  PROVE  Append(<<>>, x) = <<x>>
  OBVIOUS

LEMMA EmptyFacts ==
  /\ <<>> \in Seq(Nat)
  /\ Len(<<>>) = 0
  /\ \A s \in Seq(Nat) : Len(s) \in Nat /\ (Len(s) = 0 => s = <<>>)
  OBVIOUS

(* Type correctness: every history stays a sequence of revisions and every *)
(* counter within its bound.                                               *)
LEMMA InitType == Init => TypeOK
  BY EmptyFacts, MaxRevAssumption, MaxBlockedAssumption, MaxDamageAssumption
     DEF Init, TypeOK, Blobs, Origins, PCs

LEMMA StopType ==
  ASSUME TypeOK, NEW p \in Procs, Stop(p)
  PROVE  /\ pc' \in [Procs -> PCs] /\ origin' \in [Procs -> Origins]
         /\ srev' \in [Procs -> 0..MaxRev] /\ shist' \in [Procs -> Seq(Nat)]
         /\ ahead' \in [Procs -> 0..MaxBlocked] /\ acked' \subseteq 1..MaxRev
  BY EmptyFacts, MaxRevAssumption, MaxBlockedAssumption
     DEF Stop, SetSession, Goto, TypeOK, PCs, Origins

LEMMA SessionType ==
  ASSUME TypeOK, NEW p \in Procs, NEW o \in Origins, NEW r \in 0..MaxRev,
         NEW h \in Seq(Nat), NEW a \in 0..MaxBlocked, SetSession(p, o, r, h, a)
  PROVE  /\ origin' \in [Procs -> Origins]
         /\ srev' \in [Procs -> 0..MaxRev] /\ shist' \in [Procs -> Seq(Nat)]
         /\ ahead' \in [Procs -> 0..MaxBlocked]
  BY DEF SetSession, TypeOK

LEMMA WriteType ==
  ASSUME TypeOK, NEW h \in Seq(Nat), NEW quality \in SUBSET Nat, Write(h, quality)
  PROVE  /\ rev' \in 0..MaxRev /\ blob' \in Blobs /\ hist' \in Seq(Nat)
         /\ rows' \subseteq Nat /\ damaged' \in 0..MaxDamage
         /\ rev' = rev + 1
  BY MaxRevAssumption DEF Write, TypeOK, Blobs

LEMMA BootLoads ==
  ASSUME TypeOK, NEW p \in Procs, Boot(p)
  PROVE  \E o \in Origins, r \in 0..MaxRev, h \in Seq(Nat) : Load(p, o, r, h)
<1>1. rev \in 0..MaxRev /\ hist \in Seq(Nat) /\ <<>> \in Seq(Nat)
  BY EmptyFacts DEF TypeOK
<1>2. {"fresh", "restored", "recovered"} = Origins
  BY DEF Origins
<1>3. CASE Load(p, "fresh", rev, <<>>)
  BY <1>1, <1>2, <1>3
<1>4. CASE Load(p, "restored", rev, hist)
  BY <1>1, <1>2, <1>4
<1>5. CASE Load(p, "recovered", rev, <<>>)
  BY <1>1, <1>2, <1>5
<1> QED BY <1>3, <1>4, <1>5 DEF Boot

LEMMA StepType ==
  ASSUME IndInv, NEW p \in Procs, Step(p)
  PROVE  TypeOK'
<1> USE EmptyFacts, MaxRevAssumption, MaxBlockedAssumption, MaxDamageAssumption
<1>t. TypeOK
  BY DEF IndInv
<1>1. CASE Boot(p)
  <2>a. PICK o \in Origins, r \in 0..MaxRev, h \in Seq(Nat) : Load(p, o, r, h)
    BY <1>1, <1>t, BootLoads
  <2>1. 0 \in 0..MaxBlocked
    OBVIOUS
  <2>2. pc' \in [Procs -> PCs]
    BY <1>t, <2>a DEF Load, Goto, TypeOK, PCs
  <2> QED BY <1>t, <2>a, <2>1, <2>2, SessionType DEF Load, TypeOK, database
<1>2. CASE BootReadFails(p)
  <2> SUFFICES ASSUME NEW r \in 0..MaxRev, Load(p, "recovered", r, <<>>)
               PROVE  TypeOK'
    BY <1>2, <1>t DEF BootReadFails, TypeOK
  <2>1. 0 \in 0..MaxBlocked /\ "recovered" \in Origins
    BY DEF Origins
  <2>2. pc' \in [Procs -> PCs]
    BY <1>t DEF Load, Goto, TypeOK, PCs
  <2> QED BY <1>t, <2>1, <2>2, SessionType DEF Load, TypeOK, database
<1>3. CASE BlockedTurn(p)
  <2>1. /\ srev[p] + 1 \in 0..MaxRev /\ ahead[p] + 1 \in 0..MaxBlocked
        /\ shist[p] \in Seq(Nat)
        /\ (IF origin[p] = "recovered" THEN "restored" ELSE origin[p]) \in Origins
    BY <1>3, <1>t DEF BlockedTurn, TypeOK, Origins
  <2> QED BY <1>3, <1>t, <2>1, SessionType DEF BlockedTurn, Advance, TypeOK, database
<1>4. CASE Save(p)
  <2>a. shist[p] \in Seq(Nat) /\ rev + 1 \in Nat /\ rows \subseteq Nat
    BY <1>t DEF TypeOK
  <2>b. NextTurn(p) \in Nat
    BY <2>a DEF NextTurn
  <2>1. /\ Append(shist[p], rev + 1) \in Seq(Nat)
        /\ rows \cup {NextTurn(p)} \in SUBSET Nat
    BY <2>a, <2>b, AppendFacts
  <2>2. pc' \in [Procs -> PCs]
    BY <1>4, <1>t DEF Save, Goto, TypeOK, PCs
  <2> QED BY <1>4, <1>t, <2>1, <2>2, WriteType DEF Save, TypeOK, session
<1>5. CASE SaveRefused(p)
  BY <1>5, <1>t, StopType DEF SaveRefused, TypeOK, database
<1>6. CASE Respond(p)
  <2>1. srev[p] + 1 \in 1..MaxRev
    BY <1>6, <1>t DEF Respond, IndInv, Committed, TypeOK
  <2>2. /\ Append(shist[p], srev[p] + 1) \in Seq(Nat) /\ 0 \in 0..MaxBlocked
        /\ srev[p] + 1 \in 0..MaxRev
        /\ (IF origin[p] = "recovered" THEN "restored" ELSE origin[p]) \in Origins
    BY <1>t, <2>1, AppendFacts DEF TypeOK, Origins
  <2>3. pc' \in [Procs -> PCs] /\ acked' \subseteq 1..MaxRev
    BY <1>6, <1>t, <2>1 DEF Respond, Goto, TypeOK, PCs
  <2> QED BY <1>6, <1>t, <2>2, <2>3, SessionType DEF Respond, Advance, TypeOK, database
<1>7. CASE RuntimeCommitFails(p)
  BY <1>7, <1>t DEF RuntimeCommitFails, Goto, TypeOK, PCs, database, session
<1>8. CASE Rollback(p)
  <2>1. shist[p] \in Seq(Nat) /\ {n \in rows : n <= Len(shist[p])} \in SUBSET Nat
    BY <1>t DEF TypeOK
  <2>2. /\ rev' \in 0..MaxRev /\ blob' \in Blobs /\ hist' \in Seq(Nat)
        /\ rows' \subseteq Nat /\ damaged' \in 0..MaxDamage
    <3>1. CASE Matches(srev[p] + 1, Append(shist[p], srev[p] + 1))
      BY <1>8, <3>1, <1>t, <2>1, WriteType DEF Rollback, UndoTurn, RowsUpTo
    <3>2. CASE ~Matches(srev[p] + 1, Append(shist[p], srev[p] + 1))
      BY <1>8, <3>2, <1>t DEF Rollback, UndoTurn, RowsUpTo, TypeOK, database
    <3> QED BY <3>1, <3>2
  <2>3. Stop(p)
    BY <1>8 DEF Rollback
  <2> QED BY <1>t, <2>2, <2>3, StopType DEF TypeOK
<1>9. CASE SelfPlaySave(p)
  <2>1. shist[p] \in Seq(Nat) /\ rows \in SUBSET Nat
    BY <1>t DEF TypeOK
  <2>2. /\ rev' \in 0..MaxRev /\ blob' \in Blobs /\ hist' \in Seq(Nat)
        /\ rows' \subseteq Nat /\ damaged' \in 0..MaxDamage
    <3>1. CASE Matches(srev[p], shist[p])
      BY <1>9, <3>1, <1>t, <2>1, WriteType DEF SelfPlaySave
    <3>2. CASE ~Matches(srev[p], shist[p])
      BY <1>9, <3>2, <1>t DEF SelfPlaySave, TypeOK, database
    <3> QED BY <3>1, <3>2
  <2>3. Stop(p)
    BY <1>9 DEF SelfPlaySave
  <2> QED BY <1>t, <2>2, <2>3, StopType DEF TypeOK
<1>10. CASE Crash(p)
  BY <1>10, <1>t, StopType DEF Crash, TypeOK, database
<1> QED BY <1>1, <1>2, <1>3, <1>4, <1>5, <1>6, <1>7, <1>8, <1>9, <1>10 DEF Step

LEMMA DamageType ==
  ASSUME TypeOK, DamageBlob
  PROVE  TypeOK'
  BY MaxDamageAssumption DEF DamageBlob, TypeOK, Blobs, session

-----------------------------------------------------------------------------
(* A process changes nobody else's session. *)
LEMMA OthersUnchanged ==
  ASSUME TypeOK, NEW p \in Procs, Step(p), NEW q \in Procs, q # p
  PROVE  /\ pc'[q] = pc[q] /\ origin'[q] = origin[q] /\ srev'[q] = srev[q]
         /\ shist'[q] = shist[q] /\ ahead'[q] = ahead[q]
<1>1. CASE Boot(p) \/ BootReadFails(p)
  BY <1>1 DEF Boot, BootReadFails, Load, SetSession, Goto, TypeOK
<1>2. CASE BlockedTurn(p) \/ Respond(p)
  BY <1>2 DEF BlockedTurn, Respond, Advance, SetSession, Goto, TypeOK
<1>3. CASE Save(p) \/ RuntimeCommitFails(p)
  BY <1>3 DEF Save, RuntimeCommitFails, Goto, TypeOK, session
<1>4. CASE SaveRefused(p) \/ Rollback(p) \/ SelfPlaySave(p) \/ Crash(p)
  <2>1. Stop(p)
    BY <1>4 DEF SaveRefused, Rollback, SelfPlaySave, Crash
  <2> QED BY <2>1 DEF Stop, SetSession, Goto, TypeOK
<1> QED BY <1>1, <1>2, <1>3, <1>4 DEF Step

(* Every write to the database advances the revision. *)
LEMMA WritesAdvance ==
  ASSUME NEW p \in Procs, Step(p)
  PROVE  rev' = rev + 1 \/ UNCHANGED <<rev, blob, hist, rows>>
<1>1. CASE Rollback(p)
  BY <1>1 DEF Rollback, UndoTurn, RowsUpTo, Write, database
<1>2. CASE SelfPlaySave(p)
  BY <1>2 DEF SelfPlaySave, Write, database
<1> QED BY <1>1, <1>2 DEF Step, Boot, BootReadFails, Load, BlockedTurn, Save,
           SaveRefused, Respond, RuntimeCommitFails, Crash, Write, database

(* Where the process p is after its own step. *)
LEMMA StopResult ==
  ASSUME TypeOK, NEW p \in Procs, Stop(p)
  PROVE  pc'[p] = "down" /\ origin'[p] = "fresh" /\ shist'[p] = <<>>
  BY DEF Stop, SetSession, Goto, TypeOK

LEMMA LoadResult ==
  ASSUME TypeOK, NEW p \in Procs, NEW o, NEW r, NEW h, Load(p, o, r, h)
  PROVE  /\ pc'[p] \in {"ready", "selfplay"} /\ origin'[p] = o /\ srev'[p] = r
         /\ shist'[p] = h /\ ahead'[p] = 0
         /\ UNCHANGED <<rev, blob, hist, rows, acked>>
  BY DEF Load, SetSession, Goto, TypeOK, database

LEMMA AdvanceResult ==
  ASSUME TypeOK, NEW p \in Procs, NEW h, NEW a, Advance(p, h, a)
  PROVE  /\ origin'[p] # "recovered" /\ srev'[p] = srev[p] + 1
         /\ shist'[p] = h /\ ahead'[p] = a
  BY DEF Advance, SetSession, TypeOK

-----------------------------------------------------------------------------
LEMMA StepRows ==
  ASSUME IndInv, NEW p \in Procs, Step(p)
  PROVE  RowsMatchLog'
<1>t. TypeOK /\ rows = 1..Len(hist)
  BY DEF IndInv, RowsMatchLog
<1>s. shist[p] \in Seq(Nat) /\ Len(shist[p]) \in Nat /\ hist \in Seq(Nat)
      /\ Len(hist) \in Nat /\ rev \in Nat /\ srev[p] \in Nat
  BY <1>t, EmptyFacts DEF TypeOK
<1>1. CASE Save(p)
  <2>1. hist' = Append(shist[p], rev + 1) /\ rows' = rows \cup {Len(shist[p]) + 1}
    BY <1>1 DEF Save, Write, NextTurn
  <2>2. Len(hist') = Len(shist[p]) + 1
    BY <2>1, <1>s, AppendFacts
  <2>3. Len(hist) = Len(shist[p])
    <3>1. CASE origin[p] = "recovered"
      <4>0. shist[p] = <<>>
        BY <3>1 DEF IndInv, RecoveredIsEmpty
      <4>1. Len(shist[p]) = 0
        BY <4>0, EmptyFacts
      <4>2. Len(shist[p]) + 1 \notin rows
        BY <1>1 DEF Save, SaveAccepted, NextTurn
      <4>3. 1 \notin 1..Len(hist)
        BY <1>t, <4>1, <4>2
      <4> QED BY <1>s, <4>1, <4>3
    <3>2. CASE origin[p] # "recovered"
      BY <1>1, <3>2 DEF Save, SaveAccepted, CasAccepts, Matches
    <3> QED BY <3>1, <3>2
  <2> QED BY <1>t, <1>s, <2>1, <2>2, <2>3 DEF RowsMatchLog
<1>2. CASE Rollback(p) /\ Matches(srev[p] + 1, Append(shist[p], srev[p] + 1))
  <2>1. hist' = shist[p] /\ rows' = {n \in rows : n <= Len(shist[p])}
    BY <1>2 DEF Rollback, UndoTurn, RowsUpTo, Write
  <2>2. Len(hist) = Len(shist[p]) + 1
    BY <1>2, <1>s, AppendFacts DEF Matches
  <2> QED BY <1>t, <1>s, <2>1, <2>2 DEF RowsMatchLog
<1>3. CASE SelfPlaySave(p) /\ Matches(srev[p], shist[p])
  <2>1. hist' = shist[p] /\ rows' = rows /\ Len(hist) = Len(shist[p])
    BY <1>3 DEF SelfPlaySave, Write, Matches
  <2> QED BY <1>t, <2>1 DEF RowsMatchLog
<1>4. CASE UNCHANGED <<hist, rows>>
  BY <1>t, <1>4 DEF RowsMatchLog
<1>5. \/ UNCHANGED <<hist, rows>>
      \/ Save(p)
      \/ Rollback(p) /\ Matches(srev[p] + 1, Append(shist[p], srev[p] + 1))
      \/ SelfPlaySave(p) /\ Matches(srev[p], shist[p])
  <2>1. CASE Rollback(p)
    BY <2>1 DEF Rollback, UndoTurn, RowsUpTo, database
  <2>2. CASE SelfPlaySave(p)
    BY <2>2 DEF SelfPlaySave, database
  <2> QED BY <2>1, <2>2 DEF Step, Boot, BootReadFails, Load, BlockedTurn, SaveRefused,
             Respond, RuntimeCommitFails, Crash, database
<1> QED BY <1>1, <1>2, <1>3, <1>4, <1>5

(* A session other than the writer's cannot be at the new revision. *)
LEMMA StepObserved ==
  ASSUME IndInv, NEW p \in Procs, Step(p)
  PROVE  Observed'
<1>t. TypeOK /\ Observed /\ Committed
  BY DEF IndInv
<1>s. rev \in Nat /\ \A q \in Procs : srev[q] \in Nat
  BY <1>t, MaxRevAssumption DEF TypeOK
<1> SUFFICES ASSUME NEW q \in Procs, pc'[q] \in {"ready", "selfplay"}, ahead'[q] = 0
             PROVE  /\ srev'[q] <= rev'
                    /\ origin'[q] # "recovered" /\ srev'[q] = rev' => shist'[q] = hist'
  BY DEF Observed
<1>1. CASE q # p
  <2>1. srev[q] <= rev /\ (origin[q] # "recovered" /\ srev[q] = rev => shist[q] = hist)
    BY <1>t, <1>1, OthersUnchanged DEF Observed
  <2>2. /\ origin'[q] = origin[q] /\ srev'[q] = srev[q] /\ shist'[q] = shist[q]
    BY <1>t, <1>1, OthersUnchanged
  <2>3. CASE rev' = rev + 1
    BY <1>s, <2>1, <2>2, <2>3
  <2>4. CASE UNCHANGED <<rev, blob, hist, rows>>
    BY <2>1, <2>2, <2>4
  <2> QED BY <2>3, <2>4, WritesAdvance
<1>2. CASE q = p
  <2>1. CASE Boot(p)
    <3>1. CASE Load(p, "fresh", rev, <<>>) /\ blob = "missing"
      <4>1. hist = <<>>
        BY <3>1 DEF IndInv, MissingIsEmpty
      <4> QED BY <1>2, <1>t, <1>s, <3>1, <4>1, LoadResult
    <3>2. CASE Load(p, "restored", rev, hist)
      BY <1>2, <1>t, <1>s, <3>2, LoadResult
    <3>3. CASE Load(p, "recovered", rev, <<>>)
      BY <1>2, <1>t, <1>s, <3>3, LoadResult
    <3> QED BY <2>1, <3>1, <3>2, <3>3 DEF Boot
  <2>2. CASE BootReadFails(p)
    BY <1>2, <1>t, <1>s, <2>2, LoadResult DEF BootReadFails
  <2>3. CASE BlockedTurn(p)
    <3>1. ahead'[p] = ahead[p] + 1 /\ ahead[p] \in Nat
      BY <1>t, <2>3, AdvanceResult, MaxBlockedAssumption DEF BlockedTurn, TypeOK
    <3> QED BY <1>2, <3>1
  <2>4. CASE Respond(p)
    <3>1. /\ srev'[p] = srev[p] + 1 /\ shist'[p] = Append(shist[p], srev[p] + 1)
          /\ UNCHANGED <<rev, hist>>
      BY <1>t, <2>4, AdvanceResult DEF Respond, database
    <3>2. srev[p] + 1 <= rev /\ (rev = srev[p] + 1 => hist = Append(shist[p], rev))
      BY <1>t, <2>4 DEF Respond, Committed
    <3> QED BY <1>2, <3>1, <3>2
  <2>5. CASE Save(p) \/ RuntimeCommitFails(p)
    BY <1>2, <1>t, <2>5 DEF Save, RuntimeCommitFails, Goto, TypeOK
  <2>6. CASE SaveRefused(p) \/ Rollback(p) \/ SelfPlaySave(p) \/ Crash(p)
    <3>1. Stop(p)
      BY <2>6 DEF SaveRefused, Rollback, SelfPlaySave, Crash
    <3> QED BY <1>2, <1>t, <3>1, StopResult
  <2> QED BY <2>1, <2>2, <2>3, <2>4, <2>5, <2>6 DEF Step
<1> QED BY <1>1, <1>2

LEMMA StepCommitted ==
  ASSUME IndInv, NEW p \in Procs, Step(p)
  PROVE  Committed'
<1>t. TypeOK /\ Committed
  BY DEF IndInv
<1>s. rev \in Nat /\ \A q \in Procs : srev[q] \in Nat
  BY <1>t, MaxRevAssumption DEF TypeOK
<1> SUFFICES ASSUME NEW q \in Procs, pc'[q] \in {"saved", "rollback"}
             PROVE  /\ srev'[q] + 1 <= rev'
                    /\ rev' = srev'[q] + 1 => hist' = Append(shist'[q], rev')
  BY DEF Committed
<1>1. CASE q # p
  <2>1. srev[q] + 1 <= rev /\ (rev = srev[q] + 1 => hist = Append(shist[q], rev))
    BY <1>t, <1>1, OthersUnchanged DEF Committed
  <2>2. srev'[q] = srev[q] /\ shist'[q] = shist[q]
    BY <1>t, <1>1, OthersUnchanged
  <2>3. CASE rev' = rev + 1
    BY <1>s, <2>1, <2>2, <2>3
  <2>4. CASE UNCHANGED <<rev, blob, hist, rows>>
    BY <2>1, <2>2, <2>4
  <2> QED BY <2>3, <2>4, WritesAdvance
<1>2. CASE q = p
  <2>1. CASE Save(p)
    <3>1. srev[p] = rev
      BY <2>1 DEF Save, SaveAccepted, CasAccepts, Matches, MatchesRepair
    <3>2. /\ srev' = srev /\ shist' = shist /\ rev' = rev + 1
          /\ hist' = Append(shist[p], rev + 1)
      BY <2>1 DEF Save, Write, session
    <3> QED BY <1>2, <1>s, <3>1, <3>2
  <2>2. CASE RuntimeCommitFails(p)
    <3>1. pc[p] = "saved" /\ UNCHANGED <<srev, shist, rev, hist>>
      BY <2>2 DEF RuntimeCommitFails, session, database
    <3> QED BY <1>2, <1>t, <3>1 DEF Committed
  <2>3. CASE Boot(p) \/ BootReadFails(p) \/ Respond(p) \/ BlockedTurn(p)
    <3>1. pc'[p] \in {"ready", "selfplay"}
      BY <1>t, <2>3 DEF Boot, BootReadFails, Load, Respond, BlockedTurn, Goto, TypeOK
    <3> QED BY <1>2, <3>1
  <2>4. CASE SaveRefused(p) \/ Rollback(p) \/ SelfPlaySave(p) \/ Crash(p)
    <3>1. Stop(p)
      BY <2>4 DEF SaveRefused, Rollback, SelfPlaySave, Crash
    <3> QED BY <1>2, <1>t, <3>1, StopResult
  <2> QED BY <2>1, <2>2, <2>3, <2>4 DEF Step
<1> QED BY <1>1, <1>2

LEMMA StepRecovered ==
  ASSUME IndInv, NEW p \in Procs, Step(p)
  PROVE  RecoveredIsEmpty'
<1>t. TypeOK /\ RecoveredIsEmpty
  BY DEF IndInv
<1> SUFFICES ASSUME NEW q \in Procs, origin'[q] = "recovered"
             PROVE  shist'[q] = <<>>
  BY DEF RecoveredIsEmpty
<1>1. CASE q # p
  BY <1>t, <1>1, OthersUnchanged DEF RecoveredIsEmpty
<1>2. CASE q = p
  <2>1. CASE Boot(p) \/ BootReadFails(p)
    BY <1>2, <1>t, <2>1, LoadResult DEF Boot, BootReadFails
  <2>2. CASE BlockedTurn(p) \/ Respond(p)
    BY <1>2, <1>t, <2>2, AdvanceResult DEF BlockedTurn, Respond
  <2>3. CASE Save(p) \/ RuntimeCommitFails(p)
    BY <1>2, <1>t, <2>3 DEF Save, RuntimeCommitFails, session, RecoveredIsEmpty
  <2>4. CASE SaveRefused(p) \/ Rollback(p) \/ SelfPlaySave(p) \/ Crash(p)
    <3>1. Stop(p)
      BY <2>4 DEF SaveRefused, Rollback, SelfPlaySave, Crash
    <3> QED BY <1>2, <1>t, <3>1, StopResult
  <2> QED BY <2>1, <2>2, <2>3, <2>4 DEF Step
<1> QED BY <1>1, <1>2

LEMMA StepMissing ==
  ASSUME IndInv, NEW p \in Procs, Step(p)
  PROVE  MissingIsEmpty'
<1>1. CASE Rollback(p)
  BY <1>1 DEF Rollback, UndoTurn, RowsUpTo, Write, database, IndInv, MissingIsEmpty
<1>2. CASE SelfPlaySave(p)
  BY <1>2 DEF SelfPlaySave, Write, database, IndInv, MissingIsEmpty
<1> QED BY <1>1, <1>2 DEF Step, Boot, BootReadFails, Load, BlockedTurn, Save,
           SaveRefused, Respond, RuntimeCommitFails, Crash, Write, database,
           IndInv, MissingIsEmpty

-----------------------------------------------------------------------------
LEMMA InitInv == Init => IndInv
<1> SUFFICES ASSUME Init PROVE IndInv
  OBVIOUS
<1>1. RowsMatchLog
  BY EmptyFacts DEF Init, RowsMatchLog
<1>2. Observed /\ Committed
  BY DEF Init, Observed, Committed
<1>3. RecoveredIsEmpty /\ MissingIsEmpty
  BY DEF Init, RecoveredIsEmpty, MissingIsEmpty
<1> QED BY <1>1, <1>2, <1>3, InitType DEF IndInv

LEMMA NextInv == IndInv /\ [Next]_vars => IndInv'
<1> SUFFICES ASSUME IndInv, [Next]_vars PROVE IndInv'
  OBVIOUS
<1>1. ASSUME NEW p \in Procs, Step(p) PROVE IndInv'
  BY <1>1, StepType, StepRows, StepObserved, StepCommitted, StepRecovered, StepMissing
     DEF IndInv
<1>2. CASE DamageBlob
  <2>1. TypeOK'
    BY <1>2, DamageType DEF IndInv
  <2> QED BY <1>2, <2>1 DEF DamageBlob, session, IndInv, RowsMatchLog, Observed,
             Committed, RecoveredIsEmpty, MissingIsEmpty
<1>3. CASE UNCHANGED vars
  BY <1>3 DEF vars, session, database, IndInv, TypeOK, RowsMatchLog, Observed,
     Committed, RecoveredIsEmpty, MissingIsEmpty
<1> QED BY <1>1, <1>2, <1>3 DEF Next

(* The inductive invariant holds in every reachable state of the protocol. *)
THEOREM SpecIndInv == Spec => []IndInv
  BY InitInv, NextInv, PTL DEF Spec

(* Every reachable state is well typed. *)
THEOREM SpecTypeOK == Spec => []TypeOK
<1>1. IndInv => TypeOK
  BY DEF IndInv
<1> QED BY <1>1, SpecIndInv, PTL

(* Projection rows and blob agree in every reachable state, with any       *)
(* number of processes, blocked turns and damages.                         *)
THEOREM SpecRowsMatchLog == Spec => []RowsMatchLog
<1>1. IndInv => RowsMatchLog
  BY DEF IndInv
<1> QED BY <1>1, SpecIndInv, PTL

-----------------------------------------------------------------------------
(* A session with the version it observed builds on the stored history. *)
THEOREM SpecNoLostUpdate == Spec => NoLostUpdate
<1> DEFINE Step1 == \A p \in Procs :
      /\ pc[p] = "ready" /\ pc'[p] = "saved"
      /\ origin[p] # "recovered" /\ ahead[p] = 0
      => hist' = Append(hist, rev')
<1>1. IndInv /\ [Next]_vars => [Step1]_vars
  <2> SUFFICES ASSUME IndInv, Next, NEW p \in Procs,
                      pc[p] = "ready", pc'[p] = "saved",
                      origin[p] # "recovered", ahead[p] = 0
               PROVE  hist' = Append(hist, rev')
    OBVIOUS
  <2>t. TypeOK
    BY DEF IndInv
  <2>1. PICK q \in Procs : Step(q)
    BY DEF Next, DamageBlob
  <2>2. q = p
    BY <2>t, <2>1, OthersUnchanged
  <2>3. Save(p)
    <3>1. CASE Boot(p) \/ BootReadFails(p) \/ Respond(p) \/ BlockedTurn(p)
               \/ RuntimeCommitFails(p)
      BY <3>1, <2>t DEF Boot, BootReadFails, Respond, BlockedTurn, RuntimeCommitFails
    <3>2. CASE SaveRefused(p) \/ Rollback(p) \/ SelfPlaySave(p) \/ Crash(p)
      <4>1. Stop(p)
        BY <3>2 DEF SaveRefused, Rollback, SelfPlaySave, Crash
      <4> QED BY <2>t, <4>1, StopResult
    <3> QED BY <2>1, <2>2, <3>1, <3>2 DEF Step
  <2>4. srev[p] = rev
    BY <2>3 DEF Save, SaveAccepted, CasAccepts, Matches, MatchesRepair
  <2>5. shist[p] = hist
    BY <2>4 DEF IndInv, Observed
  <2> QED BY <2>3, <2>5 DEF Save, Write
<1> QED BY <1>1, SpecIndInv, PTL DEF Spec, NoLostUpdate

(* What a step does to the stored history. *)
LEMMA HistoryStep ==
  ASSUME IndInv, NEW p \in Procs, Step(p)
  PROVE  \/ UNCHANGED <<rev, blob, hist>>
         \/ /\ rev' = rev + 1 /\ blob' = "readable"
            /\ \/ Save(p)
               \/ blob # "corrupt" /\ hist = Append(hist', rev)
               \/ blob # "corrupt" /\ SelfPlaySave(p) /\ Len(hist') = Len(hist)
                  /\ hist' = shist[p] /\ srev[p] = rev
<1>1. CASE Rollback(p) /\ Matches(srev[p] + 1, Append(shist[p], srev[p] + 1))
  <2>1. rev = srev[p] + 1 /\ blob # "corrupt"
    BY <1>1 DEF Matches
  <2>2. hist = Append(shist[p], rev)
    BY <1>1, <2>1 DEF Rollback, UndoTurn, RowsUpTo, IndInv, Committed
  <2>3. hist' = shist[p] /\ rev' = rev + 1 /\ blob' = "readable"
    BY <1>1 DEF Rollback, UndoTurn, RowsUpTo, Write
  <2> QED BY <2>1, <2>2, <2>3
<1>2. CASE SelfPlaySave(p) /\ Matches(srev[p], shist[p])
  BY <1>2 DEF SelfPlaySave, Matches, Write
<1>3. CASE Save(p)
  BY <1>3 DEF Save, Write
<1>4. \/ UNCHANGED <<rev, blob, hist>>
      \/ Save(p)
      \/ Rollback(p) /\ Matches(srev[p] + 1, Append(shist[p], srev[p] + 1))
      \/ SelfPlaySave(p) /\ Matches(srev[p], shist[p])
  <2>1. CASE Rollback(p)
    BY <2>1 DEF Rollback, UndoTurn, RowsUpTo, database
  <2>2. CASE SelfPlaySave(p)
    BY <2>2 DEF SelfPlaySave, database
  <2> QED BY <2>1, <2>2 DEF Step, Boot, BootReadFails, Load, BlockedTurn, SaveRefused,
             Respond, RuntimeCommitFails, Crash, database
<1> QED BY <1>1, <1>2, <1>3, <1>4

(* A save never shortens the history and starts a new one only when no     *)
(* turn was stored.                                                        *)
LEMMA SaveLengthens ==
  ASSUME IndInv, NEW p \in Procs, Save(p)
  PROVE  /\ Len(hist) = Len(shist[p])
         /\ hist' = Append(shist[p], rev + 1)
         /\ Len(hist') = Len(hist) + 1
         /\ origin[p] = "recovered" => shist[p] = <<>> /\ blob = "corrupt"
         /\ origin[p] # "recovered" => blob # "corrupt" /\ srev[p] = rev
<1>t. TypeOK /\ rows = 1..Len(hist)
  BY DEF IndInv, RowsMatchLog
<1>s. shist[p] \in Seq(Nat) /\ Len(shist[p]) \in Nat /\ Len(hist) \in Nat /\ rev \in Nat
  BY <1>t, EmptyFacts DEF TypeOK
<1>1. hist' = Append(shist[p], rev + 1)
  BY DEF Save, Write
<1>2. Len(hist') = Len(shist[p]) + 1
  BY <1>1, <1>s, AppendFacts
<1>3. CASE origin[p] = "recovered"
  <2>1. shist[p] = <<>> /\ blob = "corrupt"
    BY <1>3 DEF IndInv, RecoveredIsEmpty, Save, SaveAccepted, CasAccepts, MatchesRepair
  <2>2. Len(shist[p]) = 0
    BY <2>1, EmptyFacts
  <2>3. Len(shist[p]) + 1 \notin rows
    BY DEF Save, SaveAccepted, NextTurn
  <2>4. 1 \notin 1..Len(hist)
    BY <1>t, <2>2, <2>3
  <2>5. Len(hist) = 0
    BY <1>s, <2>4
  <2> QED BY <1>1, <1>2, <1>3, <2>1, <2>2, <2>5
<1>4. CASE origin[p] # "recovered"
  <2>1. blob # "corrupt" /\ srev[p] = rev /\ Len(hist) = Len(shist[p])
    BY <1>4 DEF Save, SaveAccepted, CasAccepts, Matches
  <2> QED BY <1>1, <1>2, <1>4, <2>1
<1> QED BY <1>3, <1>4

(* Only the last turn is ever undone. *)
THEOREM SpecOnlyTheLastTurnIsUndone == Spec => OnlyTheLastTurnIsUndone
<1> DEFINE Step1 == Len(hist') < Len(hist) => hist = Append(hist', rev)
<1>1. IndInv /\ [Next]_vars => [Step1]_vars
  <2> SUFFICES ASSUME IndInv, Next, Len(hist') < Len(hist)
               PROVE  hist = Append(hist', rev)
    OBVIOUS
  <2>1. Len(hist) \in Nat
    BY EmptyFacts DEF IndInv, TypeOK
  <2>2. CASE DamageBlob
    BY <2>1, <2>2 DEF DamageBlob
  <2>3. ASSUME NEW p \in Procs, Step(p) PROVE hist = Append(hist', rev)
    <3>1. CASE Save(p)
      BY <2>1, <3>1, SaveLengthens
    <3>2. CASE UNCHANGED <<rev, blob, hist>>
      BY <2>1, <3>2
    <3> QED BY <2>1, <2>3, <3>1, <3>2, HistoryStep
  <2> QED BY <2>2, <2>3 DEF Next
<1> QED BY <1>1, SpecIndInv, PTL DEF Spec, OnlyTheLastTurnIsUndone

-----------------------------------------------------------------------------
(* Where a session advances only by a save, the commit protocol implements *)
(* the log.  The premise is needed: AckedTurnsSurvive and the log both     *)
(* fail as soon as two blocked turns advance a session.                    *)
LEMMA RefineStep ==
  ASSUME IndInv, MaxBlocked = 0, Next
  PROVE  [Log!Next]_<<rev, hist, blob # "corrupt">>
<1>0. \A p \in Procs : ahead[p] = 0
  BY DEF IndInv, TypeOK
<1>1. CASE DamageBlob
  BY <1>1 DEF DamageBlob, Log!Next, Log!Damage
<1>2. ASSUME NEW p \in Procs, Step(p)
      PROVE  [Log!Next]_<<rev, hist, blob # "corrupt">>
  <2>1. CASE UNCHANGED <<rev, blob, hist>>
    BY <2>1
  <2>2. CASE Save(p) /\ origin[p] = "recovered"
    <3>1. hist' = Append(<<>>, rev + 1) /\ blob = "corrupt"
      BY <2>2, SaveLengthens
    <3>a. rev + 1 \in Nat
      BY MaxRevAssumption DEF IndInv, TypeOK
    <3>b. hist' = <<rev + 1>>
      BY <3>1, <3>a, AppendEmpty
    <3>2. rev' = rev + 1 /\ blob' = "readable"
      BY <2>2 DEF Save, Write
    <3> QED BY <3>1, <3>2, <3>b DEF Log!Next, Log!Restart, Log!Write
  <2>3. CASE Save(p) /\ origin[p] # "recovered"
    <3>1. blob # "corrupt" /\ srev[p] = rev /\ hist' = Append(shist[p], rev + 1)
      BY <2>3, SaveLengthens
    <3>2. shist[p] = hist
      BY <1>0, <2>3, <3>1 DEF Save, IndInv, Observed
    <3>3. rev' = rev + 1 /\ blob' = "readable"
      BY <2>3 DEF Save, Write
    <3> QED BY <3>1, <3>2, <3>3 DEF Log!Next, Log!CommitTurn, Log!Write
  <2>4. CASE /\ rev' = rev + 1 /\ blob' = "readable"
             /\ blob # "corrupt" /\ hist = Append(hist', rev)
    BY <2>4 DEF Log!Next, Log!RetractTurn, Log!Write
  <2>5. CASE /\ rev' = rev + 1 /\ blob' = "readable" /\ blob # "corrupt"
             /\ SelfPlaySave(p) /\ Len(hist') = Len(hist)
             /\ hist' = shist[p] /\ srev[p] = rev
    <3>1. hist' = hist
      <4>1. CASE origin[p] = "recovered"
        <5>1. hist' = <<>>
          BY <2>5, <4>1 DEF IndInv, RecoveredIsEmpty
        <5>2. Len(hist) = 0
          BY <2>5, <5>1, EmptyFacts
        <5>3. hist \in Seq(Nat)
          BY DEF IndInv, TypeOK
        <5> QED BY <5>1, <5>2, <5>3, EmptyFacts
      <4>2. CASE origin[p] # "recovered"
        BY <1>0, <2>5, <4>2 DEF SelfPlaySave, IndInv, Observed
      <4> QED BY <4>1, <4>2
    <3> QED BY <2>5, <3>1 DEF Log!Next, Log!Resave, Log!Write
  <2> QED BY <1>2, <2>1, <2>2, <2>3, <2>4, <2>5, HistoryStep
<1> QED BY <1>1, <1>2 DEF Next

(* The commit protocol implements the log of turns when no turn is blocked *)
(* (runTurnWithVersion): saves, rollbacks, repairs, self-play and crashes. *)
THEOREM SpecImplementsTurnLog ==
  ASSUME MaxBlocked = 0
  PROVE  Spec => ImplementsTurnLog
<1>1. Init => Log!Init
  BY DEF Init, Log!Init
<1>2. IndInv /\ [Next]_vars => [Log!Next]_<<rev, hist, blob # "corrupt">>
  <2>1. CASE UNCHANGED vars
    BY <2>1 DEF vars, database
  <2> QED BY <2>1, RefineStep
<1> QED BY <1>1, <1>2, SpecIndInv, PTL DEF Spec, ImplementsTurnLog, Log!Spec

-----------------------------------------------------------------------------
(* How a step changes the stored turns, when no session is ahead. *)
LEMMA StoredStep ==
  ASSUME IndInv, AckInv, MaxBlocked = 0, NEW p \in Procs, Step(p)
  PROVE  \/ hist' = hist
         \/ hist' = Append(hist, rev + 1) /\ rev' = rev + 1 /\ Save(p)
         \/ Len(hist) = 0
         \/ hist = Append(hist', rev) /\ rev = srev[p] + 1 /\ p \in Pending
<1>t. TypeOK /\ \A q \in Procs : ahead[q] = 0
  BY DEF IndInv, TypeOK
<1>1. CASE Save(p)
  <2>1. CASE origin[p] = "recovered"
    <3>1. shist[p] = <<>> /\ Len(hist) = Len(shist[p])
      BY <1>1, <2>1, SaveLengthens
    <3> QED BY <3>1, EmptyFacts
  <2>2. CASE origin[p] # "recovered"
    <3>1. srev[p] = rev /\ hist' = Append(shist[p], rev + 1)
      BY <1>1, <2>2, SaveLengthens
    <3>2. shist[p] = hist
      BY <1>t, <1>1, <2>2, <3>1 DEF Save, IndInv, Observed
    <3> QED BY <1>1, <3>1, <3>2 DEF Save, Write
  <2> QED BY <2>1, <2>2
<1>2. CASE Rollback(p) /\ Matches(srev[p] + 1, Append(shist[p], srev[p] + 1))
  <2>1. rev = srev[p] + 1 /\ p \in Pending
    BY <1>2 DEF Matches, Rollback, Pending
  <2>2. hist = Append(shist[p], rev)
    BY <1>2, <2>1 DEF Rollback, UndoTurn, RowsUpTo, IndInv, Committed
  <2> QED BY <1>2, <2>1, <2>2 DEF Rollback, UndoTurn, RowsUpTo, Write
<1>3. CASE SelfPlaySave(p) /\ Matches(srev[p], shist[p])
  <2>1. hist' = shist[p] /\ srev[p] = rev /\ Len(hist) = Len(shist[p])
    BY <1>3 DEF SelfPlaySave, Matches, Write
  <2>2. CASE origin[p] = "recovered"
    <3>1. shist[p] = <<>>
      BY <2>2 DEF IndInv, RecoveredIsEmpty
    <3> QED BY <2>1, <3>1, EmptyFacts
  <2>3. CASE origin[p] # "recovered"
    BY <1>t, <1>3, <2>1, <2>3 DEF SelfPlaySave, IndInv, Observed
  <2> QED BY <2>2, <2>3
<1>4. \/ hist' = hist
      \/ Save(p)
      \/ Rollback(p) /\ Matches(srev[p] + 1, Append(shist[p], srev[p] + 1))
      \/ SelfPlaySave(p) /\ Matches(srev[p], shist[p])
  <2>1. CASE Rollback(p)
    BY <2>1 DEF Rollback, UndoTurn, RowsUpTo, database
  <2>2. CASE SelfPlaySave(p)
    BY <2>2 DEF SelfPlaySave, database
  <2> QED BY <2>1, <2>2 DEF Step, Boot, BootReadFails, Load, BlockedTurn, SaveRefused,
             Respond, RuntimeCommitFails, Crash, database
<1> QED BY <1>1, <1>2, <1>3, <1>4

(* A stored turn stays stored, except the one its own process takes back. *)
LEMMA StoredStays ==
  ASSUME IndInv, AckInv, MaxBlocked = 0, NEW p \in Procs, Step(p),
         NEW n \in Nat, Stored(n), p \in Pending => n # srev[p] + 1
  PROVE  Stored(n)'
<1>h. hist \in Seq(Nat) /\ Len(hist) \in Nat /\ rev \in Nat /\ hist' \in Seq(Nat)
      /\ Len(hist') \in Nat
  <2>1. TypeOK /\ TypeOK'
    BY StepType DEF IndInv
  <2> QED BY <2>1, EmptyFacts DEF TypeOK
<1>1. PICK i \in 1..Len(hist) : hist[i] = n
  BY DEF Stored
<1>2. CASE hist' = hist
  BY <1>1, <1>2 DEF Stored
<1>3. CASE hist' = Append(hist, rev + 1)
  BY <1>h, <1>1, <1>3, AppendFacts DEF Stored
<1>4. CASE Len(hist) = 0
  BY <1>1, <1>4
<1>5. CASE hist = Append(hist', rev) /\ rev = srev[p] + 1 /\ p \in Pending
  <2>1. Len(hist) = Len(hist') + 1 /\ hist[Len(hist') + 1] = rev
        /\ \A j \in 1..Len(hist') : hist[j] = hist'[j]
    BY <1>h, <1>5, AppendFacts
  <2>2. i # Len(hist') + 1
    BY <1>1, <1>5, <2>1
  <2>3. i \in 1..Len(hist') /\ hist'[i] = n
    BY <1>h, <1>1, <2>1, <2>2
  <2> QED BY <2>3 DEF Stored
<1> QED BY <1>2, <1>3, <1>4, <1>5, StoredStep

(* Who is between save and answer after a step, and with which revision. *)
LEMMA PendingStep ==
  ASSUME IndInv, AckInv, NEW p \in Procs, Step(p), NEW q \in Pending'
  PROVE  /\ srev'[q] = srev[q]
         /\ \/ q \in Pending /\ (pc'[q] = "saved" => pc[q] = "saved" /\ q # p)
            \/ q = p /\ Save(p) /\ srev[p] = rev
<1>t. TypeOK
  BY DEF IndInv
<1>1. q \in Procs /\ pc'[q] \in {"saved", "rollback"}
  BY DEF Pending
<1>2. CASE q # p
  BY <1>t, <1>1, <1>2, OthersUnchanged DEF Pending
<1>3. CASE q = p
  <2>1. CASE Save(p)
    BY <1>3, <2>1 DEF Save, session, SaveAccepted, CasAccepts, Matches, MatchesRepair
  <2>2. CASE RuntimeCommitFails(p)
    BY <1>t, <1>3, <2>2 DEF RuntimeCommitFails, session, Goto, Pending, TypeOK
  <2>3. CASE Boot(p) \/ BootReadFails(p) \/ Respond(p) \/ BlockedTurn(p)
    <3>1. pc'[p] \in {"ready", "selfplay"}
      BY <1>t, <2>3 DEF Boot, BootReadFails, Load, Respond, BlockedTurn, Goto, TypeOK
    <3> QED BY <1>1, <1>3, <3>1
  <2>4. CASE SaveRefused(p) \/ Rollback(p) \/ SelfPlaySave(p) \/ Crash(p)
    <3>1. Stop(p)
      BY <2>4 DEF SaveRefused, Rollback, SelfPlaySave, Crash
    <3> QED BY <1>1, <1>t, <1>3, <3>1, StopResult
  <2> QED BY <2>1, <2>2, <2>3, <2>4 DEF Step
<1> QED BY <1>2, <1>3

LEMMA StepAck ==
  ASSUME IndInv, AckInv, MaxBlocked = 0, NEW p \in Procs, Step(p)
  PROVE  AckInv'
<1>t. TypeOK /\ Committed
  BY DEF IndInv
<1>s. /\ rev \in Nat /\ (rev' = rev + 1 \/ rev' = rev) /\ acked \subseteq Nat
      /\ \A q \in Procs : srev[q] \in Nat
  BY <1>t, WritesAdvance, MaxRevAssumption DEF TypeOK
<1>p. \A q \in Pending : q \in Procs /\ srev[q] + 1 <= rev
  BY <1>t DEF Pending, Committed
<1>a. \/ acked' = acked
      \/ Respond(p) /\ acked' = acked \cup {srev[p] + 1} /\ pc[p] = "saved"
         /\ hist' = hist /\ rev' = rev
  BY DEF Step, Boot, BootReadFails, Load, BlockedTurn, Save, SaveRefused, Respond,
         RuntimeCommitFails, Rollback, SelfPlaySave, Crash, Stop, database
<1>1. \A n \in acked' : Stored(n)' /\ n <= rev'
  <2> SUFFICES ASSUME NEW n \in acked' PROVE Stored(n)' /\ n <= rev'
    OBVIOUS
  <2>1. CASE n \in acked
    <3>1. p \in Pending => n # srev[p] + 1
      BY <2>1 DEF AckInv
    <3>2. Stored(n) /\ n <= rev /\ n \in Nat
      BY <1>s, <2>1 DEF AckInv
    <3> QED BY <1>s, <3>1, <3>2, StoredStays
  <2>2. CASE n \notin acked
    <3>1. n = srev[p] + 1 /\ pc[p] = "saved" /\ hist' = hist /\ rev' = rev
      BY <1>a, <2>2
    <3>2. p \in Pending
      BY <3>1 DEF Pending
    <3>3. Stored(n) /\ n <= rev
      BY <1>p, <3>1, <3>2 DEF AckInv
    <3> QED BY <3>1, <3>3 DEF Stored
  <2> QED BY <2>1, <2>2
<1>2. \A q \in Pending' : srev'[q] + 1 \notin acked'
  <2> SUFFICES ASSUME NEW q \in Pending' PROVE srev'[q] + 1 \notin acked'
    OBVIOUS
  <2>0. q \in Procs /\ pc'[q] \in {"saved", "rollback"}
    BY DEF Pending
  <2>1. srev'[q] + 1 \notin acked
    <3>1. CASE q \in Pending
      BY <3>1, PendingStep DEF AckInv
    <3>2. CASE q = p /\ Save(p) /\ srev[p] = rev
      BY <1>s, <3>2, PendingStep DEF AckInv
    <3> QED BY <3>1, <3>2, PendingStep
  <2>2. CASE acked' = acked
    BY <2>1, <2>2
  <2>3. CASE Respond(p) /\ acked' = acked \cup {srev[p] + 1} /\ pc[p] = "saved"
    <3>1. q # p
      BY <1>t, <2>0, <2>3 DEF Respond, Goto, TypeOK
    <3>2. q \in Pending /\ srev'[q] = srev[q] /\ p \in Pending
      BY <2>3, <3>1, PendingStep DEF Pending
    <3>3. srev[q] # srev[p]
      BY <3>1, <3>2 DEF AckInv
    <3> QED BY <1>s, <2>0, <2>1, <2>3, <3>2, <3>3
  <2> QED BY <1>a, <2>2, <2>3
<1>3. \A q \in Pending' : pc'[q] = "saved" =>
        \E i \in 1..Len(hist') : hist'[i] = srev'[q] + 1
  <2> SUFFICES ASSUME NEW q \in Pending', pc'[q] = "saved"
               PROVE  \E i \in 1..Len(hist') : hist'[i] = srev'[q] + 1
    OBVIOUS
  <2>q. q \in Procs
    BY DEF Pending
  <2>1. PICK n \in Nat : n = srev[q] + 1 /\ n = srev'[q] + 1
    BY <1>s, <2>q, PendingStep
  <2>2. CASE q \in Pending /\ pc[q] = "saved" /\ q # p
    <3>1. Stored(n)
      BY <2>1, <2>2 DEF AckInv
    <3>2. p \in Pending => n # srev[p] + 1
      <4> SUFFICES ASSUME p \in Pending PROVE n # srev[p] + 1
        OBVIOUS
      <4>1. srev[p] # srev[q]
        BY <2>2 DEF AckInv
      <4> QED BY <1>s, <2>q, <2>1, <4>1
    <3>3. Stored(n)'
      BY <2>1, <3>1, <3>2, StoredStays
    <3> QED BY <2>1, <3>3 DEF Stored
  <2>3. CASE q = p /\ Save(p) /\ srev[p] = rev
    <3>1. hist' = Append(shist[p], rev + 1) /\ shist[p] \in Seq(Nat)
      BY <1>t, <2>3, SaveLengthens DEF TypeOK
    <3>2. Len(hist') = Len(shist[p]) + 1 /\ hist'[Len(shist[p]) + 1] = rev + 1
          /\ Len(shist[p]) \in Nat
      BY <1>s, <3>1, AppendFacts, EmptyFacts
    <3> QED BY <1>s, <2>1, <2>3, <3>2
  <2> QED BY <2>2, <2>3, PendingStep
<1>4. \A q, r \in Pending' : srev'[q] = srev'[r] => q = r
  <2> SUFFICES ASSUME NEW q \in Pending', NEW r \in Pending', srev'[q] = srev'[r]
               PROVE  q = r
    OBVIOUS
  <2>1. srev'[q] = srev[q] /\ srev'[r] = srev[r]
    BY PendingStep
  <2>p. q \in Procs /\ r \in Procs
    BY DEF Pending
  <2>e. srev[q] = srev[r]
    BY <2>1
  <2>n. srev[q] \in Nat /\ srev[r] \in Nat /\ rev \in Nat
    BY <1>s, <2>p
  <2>2. CASE q \in Pending /\ r \in Pending
    BY <2>1, <2>2 DEF AckInv
  <2>3. CASE q \notin Pending /\ r \in Pending
    <3>1. srev[q] = rev /\ srev[r] + 1 <= rev
      BY <1>p, <2>3, PendingStep
    <3> QED BY <2>e, <2>n, <3>1
  <2>4. CASE q \in Pending /\ r \notin Pending
    <3>1. srev[r] = rev /\ srev[q] + 1 <= rev
      BY <1>p, <2>4, PendingStep
    <3> QED BY <2>e, <2>n, <3>1
  <2>5. CASE q \notin Pending /\ r \notin Pending
    BY <2>5, PendingStep
  <2> QED BY <2>2, <2>3, <2>4, <2>5
<1> QED BY <1>1, <1>2, <1>3, <1>4 DEF AckInv, Stored

(* An acknowledged turn is never lost, when every session advances only by *)
(* a save; any number of processes, crashes, rollbacks and damages.        *)
THEOREM SpecAckedTurnsSurvive ==
  ASSUME MaxBlocked = 0
  PROVE  Spec => []AckedTurnsSurvive
<1>1. Init => AckInv
  BY DEF Init, AckInv, Pending
<1>2. IndInv /\ AckInv /\ [Next]_vars => AckInv'
  <2> SUFFICES ASSUME IndInv, AckInv, [Next]_vars PROVE AckInv'
    OBVIOUS
  <2>1. CASE DamageBlob
    BY <2>1 DEF DamageBlob, session, AckInv, Pending, Stored
  <2>2. CASE UNCHANGED vars
    BY <2>2 DEF vars, database, session, AckInv, Pending, Stored
  <2> QED BY <2>1, <2>2, StepAck DEF Next
<1>3. AckInv => AckedTurnsSurvive
  BY DEF AckInv, AckedTurnsSurvive, Stored
<1> QED BY <1>1, <1>2, <1>3, SpecIndInv, PTL DEF Spec
=============================================================================
