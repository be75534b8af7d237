------------------------ MODULE SidecarLifeProofs -------------------------
(***************************************************************************)
(* Proofs about SidecarLife, for every set of requests, sessions and       *)
(* probes and every number of starts and faults.                           *)
(*                                                                         *)
(* A claim that a client holds, or is about to be told of, is on disk and, *)
(* while a sidecar with a readable store runs, in memory: this is stronger *)
(* than the property in that it starts before the response does and does   *)
(* not depend on whether the file can be read.  A claim that was ever in   *)
(* the store belongs to a request past its admission, which never claims   *)
(* again.  While a probe runs, what it saw of the database is what the     *)
(* workers made of it.                                                     *)
(***************************************************************************)
EXTENDS SidecarLife, TLAPS

Serves  == {"accepted", "fresh", "owner"}
Held(r) == r \notin cleared /\ (r \in told \/ pc[r] = "fresh")

ToldDone     == \A r \in told : pc[r] = "done"
DownIsQuiet  == server = "down" => \A r \in Requests : pc[r] \notin Serves
CorruptEmpty == corrupt => mem = Unclaimed

HeldIsKept ==
  \A r \in Requests : Held(r) =>
    /\ file # "absent"
    /\ disk[SessionOf[r]] = r
    /\ server # "down" /\ ~corrupt => mem[SessionOf[r]] = r

Known(r) == r \in cleared \/ \E s \in Sessions : mem[s] = r \/ disk[s] = r
KnownIsAdmitted == \A r \in Requests : Known(r) => pc[r] \notin {"new", "accepted"}

ClearedIsGone ==
  ~kept => \A r \in cleared : \A s \in Sessions : mem[s] # r /\ disk[s] # r

StoreInv ==
  /\ TypeOK
  /\ ToldDone
  /\ DownIsQuiet
  /\ CorruptEmpty
  /\ HeldIsKept
  /\ KnownIsAdmitted
  /\ ClearedIsGone

OneProbe == \A p, q \in Probes : Running(p) /\ Running(q) => p = q
DbInv ==
  /\ OneProbe
  /\ turns = ran
  /\ \A s \in Sessions : handle[s] # "removed"
  /\ \A s \in Sessions : handle[s] = "current" => opened
  /\ opened => db
  /\ ran # {} => opened
  /\ (\A p \in Probes : ~Running(p)) => db = opened
  /\ \A p \in Probes : Running(p) => existed[p] = opened
ProbeInv == ~raced /\ ~deserted => DbInv

-----------------------------------------------------------------------------
LEMMA InitInv == Init => StoreInv /\ ProbeInv
<1> SUFFICES ASSUME Init PROVE StoreInv /\ ProbeInv
  OBVIOUS
<1>1. TypeOK
  <2>1. Unclaimed \in Claims
    BY DEF Unclaimed, Claims
  <2>2. 0 \in 0..MaxStarts /\ 0 \in 0..MaxFaults
    BY BoundsAssumption
  <2>3. /\ pc \in [Requests -> {"new", "accepted", "fresh", "owner", "done", "lost"}]
        /\ handle \in [Sessions -> {"none", "current", "removed"}]
        /\ probe \in [Probes -> {"idle", "waiting", "running", "done"}]
        /\ existed \in [Probes -> BOOLEAN]
    BY DEF Init
  <2> QED BY <2>1, <2>2, <2>3 DEF Init, TypeOK
<1>2. ToldDone /\ DownIsQuiet /\ CorruptEmpty /\ HeldIsKept
  BY DEF Init, ToldDone, DownIsQuiet, CorruptEmpty, HeldIsKept, Held, Serves
<1>3. KnownIsAdmitted /\ ClearedIsGone
  BY NoOneAssumption
     DEF Init, KnownIsAdmitted, Known, ClearedIsGone, Unclaimed
<1>4. ProbeInv
  BY DEF Init, ProbeInv, DbInv, OneProbe, Running
<1> QED BY <1>1, <1>2, <1>3, <1>4 DEF StoreInv

(* The steps by the part of the state they concern. *)
Process == Start \/ Crash \/ Signal \/ ClearStore \/ Exit \/ DamageFile

LEMMA StepCases ==
  ASSUME [Next]_vars
  PROVE  \/ Process \/ CacheExpires
         \/ \E r \in Requests : Request(r)
         \/ \E p \in Probes : Readiness(p)
         \/ UNCHANGED vars
  BY DEF Next, Process

-----------------------------------------------------------------------------
(* Type correctness.                                                       *)
LEMMA EndsType == ASSUME TypeOK, Ends PROVE TypeOK'
<1>1. mem' \in Claims /\ handle' \in [Sessions -> {"none", "current", "removed"}]
  BY DEF Ends, TypeOK, Claims, Unclaimed
<1>2. pc' \in [Requests -> {"new", "accepted", "fresh", "owner", "done", "lost"}]
  BY DEF Ends, TypeOK
<1>3. probe' \in [Probes -> {"idle", "waiting", "running", "done"}]
  BY DEF Ends, TypeOK
<1>4. deserted' \in BOOLEAN
  BY DEF Ends, TypeOK
<1> QED BY <1>1, <1>2, <1>3, <1>4 DEF Ends, TypeOK, past

LEMMA ProcessType == ASSUME TypeOK, Process PROVE TypeOK'
<1>1. CASE Start
  BY <1>1, BoundsAssumption
     DEF Start, LoadTokens, TypeOK, Claims, Unclaimed, clients, past, base, ready
<1>2. CASE Crash
  BY <1>2, EndsType DEF Crash
<1>3. CASE Signal
  BY <1>3 DEF Signal, TypeOK, store, clients, past, base, ready
<1>4. CASE ClearStore
  <2>1. mem' \in Claims /\ disk' \in Claims
    BY <1>4 DEF ClearStore, TypeOK, Claims, Unclaimed
  <2>2. cleared' \subseteq Requests
    BY <1>4 DEF ClearStore, TypeOK, InStore
  <2>3. faults' \in 0..MaxFaults
    BY <1>4, BoundsAssumption DEF ClearStore, TypeOK, Fault
  <2> QED BY <1>4, <2>1, <2>2, <2>3 DEF ClearStore, TypeOK, clients, base, ready
<1>5. CASE Exit
  BY <1>5, EndsType DEF Exit
<1>6. CASE DamageFile
  BY <1>6, BoundsAssumption
     DEF DamageFile, Fault, TypeOK, clients, past, base, ready
<1> QED BY <1>1, <1>2, <1>3, <1>4, <1>5, <1>6 DEF Process

LEMMA ReleaseType ==
  ASSUME TypeOK, NEW r \in Requests, Release(r)
  PROVE  /\ mem' \in Claims /\ disk' \in Claims
         /\ file' \in {"absent", "readable", "unreadable"}
         /\ faults' \in 0..MaxFaults
         /\ pc' \in [Requests -> {"new", "accepted", "fresh", "owner", "done", "lost"}]
<1>1. [mem EXCEPT ![SessionOf[r]] = NoOne] \in Claims
  BY DEF TypeOK, Claims
<1> QED BY <1>1, BoundsAssumption
           DEF Release, Persist, PersistFails, Fault, Goto, TypeOK

LEMMA RequestType ==
  ASSUME TypeOK, NEW r \in Requests, Request(r)
  PROVE  TypeOK'
<1>1. CASE Accept(r)
  BY <1>1 DEF Accept, Goto, TypeOK, store, past, base, ready
<1>2. CASE Refuse(r)
  BY <1>2 DEF Refuse, Goto, TypeOK, store, past, base, ready
<1>3. CASE \E t \in told \cup {NoOne} : Admit(r, t)
  <2> PICK t \in told \cup {NoOne} : Admit(r, t)
    BY <1>3
  <2>1. Claimed(r) \in Claims
    BY DEF Claimed, TypeOK, Claims
  <2>2. mem' \in Claims /\ disk' \in Claims
    BY <2>1 DEF Admit, Persist, PersistFails, TypeOK
  <2>3. file' \in {"absent", "readable", "unreadable"} /\ faults' \in 0..MaxFaults
    BY BoundsAssumption DEF Admit, Persist, PersistFails, Fault, TypeOK
  <2>4. pc' \in [Requests -> {"new", "accepted", "fresh", "owner", "done", "lost"}]
    BY DEF Admit, Goto, TypeOK
  <2> QED BY <2>2, <2>3, <2>4 DEF Admit, TypeOK, past, base, ready
<1>4. CASE Run(r)
  <2>1. handle' \in [Sessions -> {"none", "current", "removed"}]
    BY <1>4 DEF Run, TypeOK
  <2>2. db' \in BOOLEAN /\ turns' \subseteq Requests
    <3>1. (db' = TRUE /\ turns' = turns \cup {r}) \/ (db' = db /\ turns' = turns)
      BY <1>4, Zenon DEF Run
    <3> QED BY <3>1 DEF TypeOK
  <2>4. ran' \subseteq Requests
    BY <1>4 DEF Run, TypeOK
  <2>3. raced' \in BOOLEAN
    BY <1>4 DEF Run, TypeOK
  <2> QED BY <1>4, <2>1, <2>2, <2>3, <2>4 DEF Run, TypeOK, store, past, ready
<1>5. CASE Respond(r)
  BY <1>5 DEF Respond, Goto, TypeOK, store, past, base, ready
<1>6. CASE RespondFailed(r)
  <2>1. CASE pc[r] = "fresh"
    BY <1>6, <2>1, ReleaseType DEF RespondFailed, TypeOK, past, base, ready
  <2>2. CASE pc[r] # "fresh"
    BY <1>6, <2>2 DEF RespondFailed, Goto, TypeOK, past, base, ready
  <2> QED BY <2>1, <2>2
<1>7. CASE Raise(r)
  BY <1>7 DEF Raise, Goto, TypeOK, store, past, base, ready
<1> QED BY <1>1, <1>2, <1>3, <1>4, <1>5, <1>6, <1>7 DEF Request

LEMMA ReadinessType ==
  ASSUME TypeOK, NEW p \in Probes, Readiness(p)
  PROVE  TypeOK'
<1> USE DEF ProbeGoto, TypeOK, store, clients, past, base
<1>1. CASE AnswerFromCache(p)
  BY <1>1 DEF AnswerFromCache
<1>2. CASE AwaitProbeLock(p)
  BY <1>2 DEF AwaitProbeLock
<1>3. CASE StartProbe(p)
  BY <1>3 DEF StartProbe
<1>4. CASE ProbeCreates(p)
  BY <1>4 DEF ProbeCreates, ready
<1>5. CASE EndProbe(p)
  <2>1. handle' \in [Sessions -> {"none", "current", "removed"}]
    BY <1>5 DEF EndProbe, Cleanup
  <2>2. db' \in BOOLEAN /\ opened' \in BOOLEAN /\ raced' \in BOOLEAN /\ turns' \subseteq Requests
    BY <1>5 DEF EndProbe, Cleanup
  <2>3. probe' \in [Probes -> {"idle", "waiting", "running", "done"}]
    BY <1>5 DEF EndProbe
  <2> QED BY <1>5, <2>1, <2>2, <2>3 DEF EndProbe
<1> QED BY <1>1, <1>2, <1>3, <1>4, <1>5 DEF Readiness

LEMMA StepType == ASSUME TypeOK, [Next]_vars PROVE TypeOK'
<1>1. CASE Process
  BY <1>1, ProcessType
<1>2. CASE CacheExpires
  BY <1>2 DEF CacheExpires, TypeOK, store, clients, past, base
<1>3. CASE \E r \in Requests : Request(r)
  BY <1>3, RequestType
<1>4. CASE \E p \in Probes : Readiness(p)
  BY <1>4, ReadinessType
<1>5. CASE UNCHANGED vars
  BY <1>5 DEF vars, TypeOK, store, clients, past, base, ready
<1> QED BY <1>1, <1>2, <1>3, <1>4, <1>5, StepCases

-----------------------------------------------------------------------------
(* The claims.                                                             *)
LEMMA StoreFrame ==
  ASSUME StoreInv, TypeOK', UNCHANGED <<server, store, pc, told, past>>
  PROVE  StoreInv'
<1>1. ToldDone' /\ DownIsQuiet' /\ CorruptEmpty'
  BY DEF StoreInv, store, ToldDone, DownIsQuiet, CorruptEmpty
<1>2. HeldIsKept'
  BY DEF StoreInv, store, past, HeldIsKept, Held
<1>3. KnownIsAdmitted' /\ ClearedIsGone'
  BY DEF StoreInv, store, past, KnownIsAdmitted, Known, ClearedIsGone
<1> QED BY <1>1, <1>2, <1>3 DEF StoreInv

(* A request that leaves the store alone and goes on without a claim.      *)
LEMMA MoveFrame ==
  ASSUME StoreInv, TypeOK', NEW r \in Requests,
         NEW l \in {"accepted", "owner", "done", "lost"}, Goto(r, l),
         UNCHANGED <<server, store, past>>,
         pc[r] # "done",
         l \in {"accepted", "owner"} => server # "down",
         l = "accepted" => pc[r] = "new",
         told' = told \cup (IF l = "done" /\ pc[r] = "fresh" THEN {r} ELSE {})
         \/ told' = told
  PROVE  StoreInv'
<1>1. pc'[r] = l /\ \A q \in Requests \ {r} : pc'[q] = pc[q]
  BY DEF Goto, StoreInv, TypeOK
<1>a. r \notin told
  BY DEF StoreInv, ToldDone
<1>2. \A q \in Requests : Held(q)' => Held(q)
  BY <1>1 DEF Held, past
<1>3. ToldDone' /\ DownIsQuiet' /\ CorruptEmpty'
  <2>1. told' \subseteq Requests
    BY DEF TypeOK
  <2>2. ToldDone'
    BY <1>1, <1>a, <2>1 DEF StoreInv, TypeOK, ToldDone
  <2>3. DownIsQuiet'
    BY <1>1 DEF StoreInv, DownIsQuiet, Serves
  <2> QED BY <2>2, <2>3 DEF StoreInv, CorruptEmpty, store
<1>4. HeldIsKept'
  BY <1>2 DEF StoreInv, store, HeldIsKept
<1>5. KnownIsAdmitted'
  BY <1>1 DEF StoreInv, store, past, KnownIsAdmitted, Known
<1>6. ClearedIsGone'
  BY DEF StoreInv, store, past, ClearedIsGone
<1> QED BY <1>3, <1>4, <1>5, <1>6 DEF StoreInv

LEMMA StartStore == ASSUME StoreInv, TypeOK', Start PROVE StoreInv'
<1> USE DEF StoreInv, Start, LoadTokens, clients, past
<1>1. ToldDone' /\ DownIsQuiet' /\ CorruptEmpty'
  BY DEF ToldDone, DownIsQuiet, CorruptEmpty, Unclaimed, TypeOK
<1>2. HeldIsKept'
  BY DEF HeldIsKept, Held, TypeOK
<1>3. KnownIsAdmitted'
  <2>1. \A q \in Requests : Known(q)' => Known(q)
    BY NoOneAssumption DEF Known, Unclaimed
  <2> QED BY <2>1 DEF KnownIsAdmitted
<1>4. ClearedIsGone'
  BY NoOneAssumption DEF ClearedIsGone, Unclaimed, TypeOK
<1> QED BY <1>1, <1>2, <1>3, <1>4

LEMMA EndsStore == ASSUME StoreInv, TypeOK', Ends PROVE StoreInv'
<1> USE DEF StoreInv, Ends, past
<1>0. \A q \in Requests :
        /\ pc'[q] \notin Serves
        /\ pc[q] \notin Serves => pc'[q] = pc[q]
        /\ pc'[q] = "new" => pc[q] = "new"
  BY DEF TypeOK, Serves
<1>1. ToldDone' /\ DownIsQuiet' /\ CorruptEmpty'
  BY <1>0 DEF ToldDone, DownIsQuiet, CorruptEmpty, Serves, TypeOK
<1>2. HeldIsKept'
  <2>1. \A q \in Requests : Held(q)' => Held(q)
    BY <1>0 DEF Held, Serves
  <2> QED BY <2>1 DEF HeldIsKept
<1>3. KnownIsAdmitted'
  <2>1. \A q \in Requests : Known(q)' => Known(q)
    BY NoOneAssumption DEF Known, Unclaimed
  <2> QED BY <1>0, <2>1 DEF KnownIsAdmitted, Serves
<1>4. ClearedIsGone'
  BY NoOneAssumption DEF ClearedIsGone, Unclaimed, TypeOK
<1> QED BY <1>1, <1>2, <1>3, <1>4

LEMMA ClearStoreInv == ASSUME StoreInv, TypeOK', ClearStore PROVE StoreInv'
<1> USE DEF StoreInv, ClearStore, clients
<1>0. (file' = "absent" /\ disk' = Unclaimed /\ kept' = kept)
      \/ (file' = file /\ disk' = disk /\ kept' = TRUE)
  OBVIOUS
<1>1. ToldDone' /\ DownIsQuiet' /\ CorruptEmpty'
  BY DEF ToldDone, DownIsQuiet, CorruptEmpty
<1>2. HeldIsKept'
  <2>1. \A q \in Requests : ~Held(q)'
    <3> SUFFICES ASSUME NEW q \in Requests, Held(q) PROVE q \in InStore
      BY DEF Held
    <3>1. disk[SessionOf[q]] = q /\ SessionOf[q] \in Sessions
      BY SessionOfAssumption DEF HeldIsKept
    <3> QED BY <3>1 DEF InStore
  <2> QED BY <2>1 DEF HeldIsKept
<1>3. KnownIsAdmitted'
  <2>1. \A q \in Requests : Known(q)' => Known(q)
    BY <1>0, NoOneAssumption DEF Known, InStore, Unclaimed
  <2> QED BY <2>1 DEF KnownIsAdmitted
<1>4. ClearedIsGone'
  BY <1>0, NoOneAssumption DEF ClearedIsGone, Unclaimed, TypeOK
<1> QED BY <1>1, <1>2, <1>3, <1>4

LEMMA ProcessStore == ASSUME StoreInv, TypeOK', Process PROVE StoreInv'
<1>1. CASE Start
  BY <1>1, StartStore
<1>2. CASE Crash
  BY <1>2, EndsStore DEF Crash
<1>3. CASE Signal
  <2> USE <1>3 DEF Signal, StoreInv, store, clients, past
  <2>1. ToldDone' /\ DownIsQuiet' /\ CorruptEmpty'
    BY DEF ToldDone, DownIsQuiet, CorruptEmpty
  <2>2. HeldIsKept'
    BY DEF HeldIsKept, Held
  <2>3. KnownIsAdmitted' /\ ClearedIsGone'
    BY DEF KnownIsAdmitted, Known, ClearedIsGone
  <2> QED BY <2>1, <2>2, <2>3
<1>4. CASE ClearStore
  BY <1>4, ClearStoreInv
<1>5. CASE Exit
  BY <1>5, EndsStore DEF Exit
<1>6. CASE DamageFile
  <2> USE <1>6 DEF DamageFile, StoreInv, clients, past
  <2>1. ToldDone' /\ DownIsQuiet' /\ CorruptEmpty'
    BY DEF ToldDone, DownIsQuiet, CorruptEmpty
  <2>2. HeldIsKept'
    BY DEF HeldIsKept, Held
  <2>3. KnownIsAdmitted' /\ ClearedIsGone'
    BY DEF KnownIsAdmitted, Known, ClearedIsGone
  <2> QED BY <2>1, <2>2, <2>3
<1> QED BY <1>1, <1>2, <1>3, <1>4, <1>5, <1>6 DEF Process

(* A request that changes the claim of its session in memory, and on disk  *)
(* if the write succeeds.                                                  *)
LEMMA ClaimFrame ==
  ASSUME StoreInv, TypeOK', NEW r \in Requests,
         NEW l \in {"fresh", "done", "lost"}, NEW o \in {r, NoOne},
         Goto(r, l), pc[r] \in {"accepted", "fresh"}, ~corrupt,
         mem[SessionOf[r]] \in {NoOne, r},
         mem' = [mem EXCEPT ![SessionOf[r]] = o],
         (file' = "readable" /\ disk' = mem') \/ (file' = file /\ disk' = disk),
         l = "fresh" => o = r /\ file' = "readable" /\ disk' = mem',
         o = r => pc[r] = "accepted",
         UNCHANGED <<server, corrupt, told, past>>
  PROVE  StoreInv'
<1> DEFINE S == SessionOf[r]
<1>1. pc'[r] = l /\ \A q \in Requests \ {r} : pc'[q] = pc[q]
  BY DEF Goto, StoreInv, TypeOK
<1>2. S \in Sessions /\ mem'[S] = o /\ \A s \in Sessions \ {S} : mem'[s] = mem[s]
  BY SessionOfAssumption DEF StoreInv, TypeOK, Claims
<1>3. server # "down" /\ r \notin told
  BY DEF StoreInv, DownIsQuiet, ToldDone, Serves
<1>4. ToldDone' /\ DownIsQuiet' /\ CorruptEmpty'
  <2>1. told \subseteq Requests
    BY DEF StoreInv, TypeOK
  <2> QED BY <1>1, <1>3, <2>1 DEF StoreInv, ToldDone, DownIsQuiet, CorruptEmpty
<1>5. HeldIsKept'
  <2> SUFFICES ASSUME NEW q \in Requests, Held(q)'
               PROVE  /\ file' # "absent" /\ disk'[SessionOf[q]] = q
                      /\ mem'[SessionOf[q]] = q
    BY DEF HeldIsKept
  <2>1. CASE q = r
    <3>1. l = "fresh"
      BY <1>1, <1>3, <2>1 DEF Held
    <3> QED BY <1>2, <2>1, <3>1
  <2>2. CASE q # r
    <3>1. Held(q)
      BY <1>1, <2>2 DEF Held, past
    <3>2. /\ file # "absent" /\ disk[SessionOf[q]] = q
          /\ mem[SessionOf[q]] = q
      BY <1>3, <3>1 DEF StoreInv, HeldIsKept
    <3>3. SessionOf[q] \in Sessions \ {S}
      BY <2>2, <3>2, SessionOfAssumption, NoOneAssumption
    <3>4. mem'[SessionOf[q]] = q
      BY <1>2, <3>2, <3>3
    <3> QED BY <3>2, <3>4
  <2> QED BY <2>1, <2>2
<1>6. KnownIsAdmitted'
  <2>1. \A q \in Requests : Known(q)' => q = r \/ Known(q)
    <3> SUFFICES ASSUME NEW q \in Requests, Known(q)', q # r PROVE Known(q)
      OBVIOUS
    <3>1. \A s \in Sessions : mem'[s] = q => mem[s] = q
      BY <1>2, NoOneAssumption
    <3>2. cleared' = cleared
      BY DEF past
    <3>3. CASE disk' = mem'
      BY <3>1, <3>2, <3>3 DEF Known
    <3>4. CASE disk' = disk
      BY <3>1, <3>2, <3>4 DEF Known
    <3> QED BY <3>3, <3>4
  <2> SUFFICES ASSUME NEW q \in Requests, Known(q)'
               PROVE  pc'[q] \notin {"new", "accepted"}
    BY DEF KnownIsAdmitted
  <2>2. CASE q = r
    BY <1>1, <2>2
  <2>3. CASE q # r
    BY <1>1, <2>1, <2>3 DEF StoreInv, KnownIsAdmitted
  <2> QED BY <2>2, <2>3
<1>7. ClearedIsGone'
  <2>1. cleared \subseteq Requests
    BY DEF StoreInv, TypeOK
  <2>2. o = r => r \notin cleared
    BY DEF StoreInv, KnownIsAdmitted, Known
  <2> SUFFICES ASSUME ~kept, NEW q \in cleared, NEW s \in Sessions
               PROVE  mem'[s] # q /\ disk'[s] # q
    BY DEF ClearedIsGone, past
  <2>3. mem[s] # q /\ disk[s] # q
    BY DEF StoreInv, ClearedIsGone
  <2>4. o # q
    BY <2>1, <2>2, NoOneAssumption
  <2>5. mem'[s] # q
    BY <1>2, <2>3, <2>4
  <2> QED BY <2>3, <2>5
<1> QED BY <1>4, <1>5, <1>6, <1>7 DEF StoreInv

LEMMA AdmitStore ==
  ASSUME StoreInv, TypeOK', NEW r \in Requests, NEW t \in told \cup {NoOne}, Admit(r, t)
  PROVE  StoreInv'
<1> DEFINE owner == mem[SessionOf[r]]
<1>0. pc[r] = "accepted" /\ server # "down"
  BY DEF Admit, StoreInv, DownIsQuiet, Serves
<1>1. CASE ~corrupt /\ owner = NoOne
  <2>1. mem' = [mem EXCEPT ![SessionOf[r]] = r]
    BY <1>1, NoOneAssumption DEF Admit, Claimed
  <2>2. \/ file' = "readable" /\ disk' = mem' /\ Goto(r, "fresh")
        \/ file' = file /\ disk' = disk /\ Goto(r, "lost")
    BY <1>1 DEF Admit, Persist, PersistFails
  <2>3. UNCHANGED <<server, corrupt, told, past>>
    BY DEF Admit
  <2> QED BY <1>0, <1>1, <2>1, <2>2, <2>3, ClaimFrame
<1>2. CASE ~(~corrupt /\ owner = NoOne)
  <2>1. UNCHANGED <<server, store, told, past>>
    BY <1>2 DEF Admit, store
  <2>2. Goto(r, "owner") \/ Goto(r, "done")
    BY <1>2 DEF Admit
  <2> QED BY <1>0, <2>1, <2>2, MoveFrame
<1> QED BY <1>1, <1>2

LEMMA ReleaseStore ==
  ASSUME StoreInv, TypeOK', NEW r \in Requests, pc[r] = "fresh", Release(r),
         UNCHANGED <<server, corrupt, told, past>>
  PROVE  StoreInv'
<1>1. CASE mem[SessionOf[r]] = r
  <2>1. ~corrupt
    BY <1>1, SessionOfAssumption, NoOneAssumption
       DEF StoreInv, CorruptEmpty, Unclaimed
  <2>2. \/ file' = "readable" /\ disk' = mem' /\ Goto(r, "done")
        \/ file' = file /\ disk' = disk /\ Goto(r, "lost")
    BY <1>1 DEF Release, Persist, PersistFails
  <2>3. mem' = [mem EXCEPT ![SessionOf[r]] = NoOne]
    BY <1>1 DEF Release
  <2> QED BY <1>1, <2>1, <2>2, <2>3, NoOneAssumption, ClaimFrame
<1>2. CASE mem[SessionOf[r]] # r
  <2>1. Goto(r, "done") /\ UNCHANGED <<server, store, told, past>>
    BY <1>2 DEF Release, store
  <2> QED BY <2>1, MoveFrame
<1> QED BY <1>1, <1>2

LEMMA RequestStore ==
  ASSUME StoreInv, TypeOK', NEW r \in Requests, Request(r)
  PROVE  StoreInv'
<1>1. CASE Accept(r)
  BY <1>1, MoveFrame DEF Accept
<1>2. CASE Refuse(r)
  BY <1>2, MoveFrame DEF Refuse
<1>3. CASE \E t \in told \cup {NoOne} : Admit(r, t)
  BY <1>3, AdmitStore
<1>4. CASE Run(r)
  <2>1. UNCHANGED <<server, store, pc, told, past>>
    BY <1>4 DEF Run
  <2> QED BY <2>1, StoreFrame
<1>5. CASE Respond(r)
  <2>1. /\ Goto(r, "done") /\ pc[r] # "done"
        /\ UNCHANGED <<server, store, past>>
    BY <1>5 DEF Respond
  <2>2. told' = told \cup (IF pc[r] = "fresh" THEN {r} ELSE {})
    BY <1>5 DEF Respond
  <2> QED BY <2>1, <2>2, MoveFrame
<1>6. CASE RespondFailed(r)
  <2>1. CASE pc[r] = "fresh"
    BY <1>6, <2>1, ReleaseStore DEF RespondFailed
  <2>2. CASE pc[r] # "fresh"
    <3>1. /\ Goto(r, "done") /\ pc[r] # "done"
          /\ UNCHANGED <<server, store, told, past>>
      BY <1>6, <2>2 DEF RespondFailed, store
    <3> QED BY <3>1, MoveFrame
  <2> QED BY <2>1, <2>2
<1>7. CASE Raise(r)
  <2>1. /\ Goto(r, "lost") /\ pc[r] # "done"
        /\ UNCHANGED <<server, store, told, past>>
    BY <1>7 DEF Raise
  <2> QED BY <2>1, MoveFrame
<1> QED BY <1>1, <1>2, <1>3, <1>4, <1>5, <1>6, <1>7 DEF Request

LEMMA StepStore == ASSUME StoreInv, [Next]_vars PROVE StoreInv'
<1>0. TypeOK'
  BY StepType DEF StoreInv
<1>1. CASE Process
  BY <1>0, <1>1, ProcessStore
<1>2. CASE CacheExpires
  BY <1>0, <1>2, StoreFrame DEF CacheExpires, clients
<1>3. CASE \E r \in Requests : Request(r)
  BY <1>0, <1>3, RequestStore
<1>4. CASE \E p \in Probes : Readiness(p)
  <2> PICK p \in Probes : Readiness(p)
    BY <1>4
  <2>1. UNCHANGED <<server, store, pc, told, past>>
    BY DEF Readiness, AnswerFromCache, AwaitProbeLock, StartProbe, ProbeCreates,
           EndProbe, clients
  <2> QED BY <1>0, <2>1, StoreFrame
<1>5. CASE UNCHANGED vars
  BY <1>0, <1>5, StoreFrame DEF vars, clients
<1> QED BY <1>1, <1>2, <1>3, <1>4, <1>5, StepCases

-----------------------------------------------------------------------------
(* The database.                                                           *)
LEMMA DbFrame ==
  ASSUME ProbeInv, UNCHANGED <<ran, base, existed, deserted>>,
         \A p \in Probes : Running(p)' <=> Running(p)
  PROVE  ProbeInv'
<1> SUFFICES ASSUME DbInv PROVE DbInv'
  BY DEF ProbeInv, base
<1> QED BY DEF DbInv, OneProbe, base

LEMMA EndsDb == ASSUME TypeOK, ProbeInv, Ends PROVE ProbeInv'
<1> SUFFICES ASSUME ~raced, ~deserted, \A p \in Probes : ~Running(p), DbInv
             PROVE  DbInv'
  BY DEF ProbeInv, Ends, Running, TypeOK
<1>1. \A p \in Probes : ~Running(p)'
  BY DEF Ends, Running
<1>2. \A s \in Sessions : handle'[s] = "none"
  BY DEF Ends
<1> QED BY <1>1, <1>2 DEF Ends, DbInv, OneProbe

LEMMA ProcessDb == ASSUME TypeOK, ProbeInv, Process PROVE ProbeInv'
<1>1. CASE Crash \/ Exit
  BY <1>1, EndsDb DEF Crash, Exit
<1>2. CASE Start \/ Signal \/ ClearStore \/ DamageFile
  <2>1. UNCHANGED <<ran, base, existed, deserted, probe>>
    BY <1>2 DEF Start, Signal, ClearStore, DamageFile, clients, ready
  <2> QED BY <2>1, DbFrame DEF Running
<1> QED BY <1>1, <1>2 DEF Process

LEMMA RunDb == ASSUME TypeOK, ProbeInv, NEW r \in Requests, Run(r) PROVE ProbeInv'
<1> DEFINE s == SessionOf[r]
<1>0. s \in Sessions
  BY SessionOfAssumption
<1>1. /\ ran' = ran \cup {r} /\ opened' = TRUE
      /\ raced' = (raced \/ (/\ handle[s] = "none"
                             /\ \E p \in Probes : probe[p] = "running" /\ ~existed[p]))
      /\ UNCHANGED <<probe, existed, deserted>>
  BY DEF Run, ready
<1> SUFFICES ASSUME ~raced', ~raced, ~deserted, DbInv PROVE DbInv'
  BY <1>1 DEF ProbeInv, TypeOK
<1>2. handle[s] = "none" \/ handle[s] = "current"
  BY <1>0 DEF DbInv, TypeOK
<1>3. handle' = [handle EXCEPT ![s] = "current"] /\ db' = TRUE /\ turns' = turns \cup {r}
  BY <1>2 DEF Run
<1>4. \A q \in Sessions : handle'[q] # "removed"
  BY <1>3 DEF DbInv, TypeOK
<1>5. \A p \in Probes : Running(p)' <=> Running(p)
  BY <1>1 DEF Running
<1>6. \A p \in Probes : Running(p)' => existed'[p] = opened'
  <2> SUFFICES ASSUME NEW p \in Probes, Running(p) PROVE existed[p] = TRUE
    BY <1>1, <1>5
  <2>1. CASE handle[s] = "none"
    BY <1>1, <2>1 DEF Running, TypeOK
  <2>2. CASE handle[s] = "current"
    BY <1>0, <2>2 DEF DbInv, TypeOK
  <2> QED BY <1>2, <2>1, <2>2
<1> QED BY <1>1, <1>3, <1>4, <1>5, <1>6 DEF DbInv, OneProbe

LEMMA RequestDb ==
  ASSUME TypeOK, ProbeInv, NEW r \in Requests, Request(r)
  PROVE  ProbeInv'
<1>1. CASE Run(r)
  BY <1>1, RunDb
<1>2. CASE ~Run(r)
  <2>1. UNCHANGED <<ran, base, existed, deserted, probe>>
    BY <1>2 DEF Request, Accept, Refuse, Admit, Respond, RespondFailed, Raise, ready
  <2> QED BY <2>1, DbFrame DEF Running
<1> QED BY <1>1, <1>2

LEMMA ReadinessDb ==
  ASSUME TypeOK, ProbeInv, NEW p \in Probes, Readiness(p)
  PROVE  ProbeInv'
<1>1. CASE AnswerFromCache(p) \/ AwaitProbeLock(p)
  <2>1. UNCHANGED <<ran, base, existed, deserted>>
    BY <1>1 DEF AnswerFromCache, AwaitProbeLock, clients
  <2>2. \A q \in Probes : Running(q)' <=> Running(q)
    BY <1>1 DEF AnswerFromCache, AwaitProbeLock, ProbeGoto, Running, TypeOK
  <2> QED BY <2>1, <2>2, DbFrame
<1>2. CASE StartProbe(p)
  <2> SUFFICES ASSUME DbInv PROVE DbInv'
    BY <1>2 DEF StartProbe, ProbeInv, base
  <2>1. \A q \in Probes : Running(q)' <=> q = p
    BY <1>2 DEF StartProbe, ProbeGoto, Running, TypeOK
  <2>2. db = opened /\ existed'[p] = db
    BY <1>2 DEF StartProbe, DbInv, TypeOK, Running
  <2> QED BY <1>2, <2>1, <2>2 DEF StartProbe, DbInv, OneProbe, base, clients
<1>3. CASE ProbeCreates(p)
  <2> SUFFICES ASSUME DbInv PROVE DbInv'
    BY <1>3 DEF ProbeCreates, ProbeInv, ready
  <2>1. \A q \in Probes : Running(q)' <=> Running(q)
    BY <1>3 DEF ProbeCreates, Running, ready
  <2> QED BY <1>3, <2>1 DEF ProbeCreates, DbInv, OneProbe, ready, clients
<1>4. CASE EndProbe(p)
  <2> SUFFICES ASSUME DbInv PROVE DbInv'
    BY <1>4 DEF EndProbe, ProbeInv
  <2>1. \A q \in Probes : ~Running(q)'
    <3> SUFFICES ASSUME NEW q \in Probes, Running(q)' PROVE FALSE
      OBVIOUS
    <3>1. q # p /\ Running(q)
      BY <1>4 DEF EndProbe, ProbeGoto, Running, TypeOK
    <3> QED BY <1>4, <3>1 DEF EndProbe, DbInv, OneProbe
  <2>2. existed[p] = opened
    BY <1>4 DEF EndProbe, DbInv
  <2>3. CASE existed[p]
    <3>1. UNCHANGED <<db, turns, handle, opened, ran>>
      BY <1>4, <2>3 DEF EndProbe, Cleanup, clients
    <3>2. db = opened
      BY <2>2, <2>3 DEF DbInv, TypeOK
    <3> QED BY <2>1, <3>1, <3>2 DEF DbInv, OneProbe
  <2>4. CASE ~existed[p]
    <3>1. ~opened /\ ran = {} /\ \A s \in Sessions : handle[s] # "current"
      BY <2>2, <2>4 DEF DbInv
    <3>2. /\ db' = FALSE /\ turns' = {} /\ UNCHANGED <<opened, ran>>
          /\ handle' = [s \in Sessions |->
                          IF handle[s] = "current" THEN "removed" ELSE handle[s]]
      BY <1>4, <2>4 DEF EndProbe, Cleanup, clients
    <3>3. \A s \in Sessions : handle'[s] = handle[s]
      BY <3>1, <3>2
    <3> QED BY <2>1, <3>1, <3>2, <3>3 DEF DbInv, OneProbe, TypeOK
  <2> QED BY <2>3, <2>4
<1> QED BY <1>1, <1>2, <1>3, <1>4 DEF Readiness

LEMMA StepDb == ASSUME TypeOK, ProbeInv, [Next]_vars PROVE ProbeInv'
<1>1. CASE Process
  BY <1>1, ProcessDb
<1>2. CASE CacheExpires
  BY <1>2, DbFrame DEF CacheExpires, clients, Running
<1>3. CASE \E r \in Requests : Request(r)
  BY <1>3, RequestDb
<1>4. CASE \E p \in Probes : Readiness(p)
  BY <1>4, ReadinessDb
<1>5. CASE UNCHANGED vars
  BY <1>5, DbFrame DEF vars, clients, ready, Running
<1> QED BY <1>1, <1>2, <1>3, <1>4, <1>5, StepCases

-----------------------------------------------------------------------------
LEMMA Invariance == Spec => [](StoreInv /\ ProbeInv)
<1>1. Init => StoreInv /\ ProbeInv
  BY InitInv
<1>2. StoreInv /\ ProbeInv /\ [Next]_vars => (StoreInv /\ ProbeInv)'
  BY StepStore, StepDb DEF StoreInv
<1> QED BY <1>1, <1>2, PTL DEF Spec

(* A client that was told the token of its session owns it, in memory and  *)
(* on disk, through concurrent claims, releases, failed writes, crashes    *)
(* and restarts, until a shutdown clears the store                         *)
(* (SessionOwnershipStore and do_POST).                                    *)
THEOREM SpecToldTokenHolds == Spec => []ToldTokenHolds
<1>1. StoreInv => ToldTokenHolds
  <2> SUFFICES ASSUME StoreInv, NEW r \in told \ cleared
               PROVE  /\ file = "readable" => disk[SessionOf[r]] = r
                      /\ server \in {"up", "closing"} /\ ~corrupt
                           => mem[SessionOf[r]] = r
                      /\ corrupt => \A s \in Sessions : mem[s] = NoOne
    BY DEF ToldTokenHolds, StoreInv
  <2>1. r \in Requests /\ Held(r)
    BY DEF StoreInv, TypeOK, Held
  <2> QED BY <2>1 DEF StoreInv, HeldIsKept, CorruptEmpty, Unclaimed
<1> QED BY <1>1, Invariance, PTL

(* A claim that a shutdown removed is never written again, by a request    *)
(* that outlives the shutdown or by a later run of the sidecar, unless the *)
(* removal of the file failed (clear_store and graceful_shutdown).         *)
THEOREM SpecClearedClaimsStayCleared == Spec => []ClearedClaimsStayCleared
<1>1. StoreInv => ClearedClaimsStayCleared
  BY DEF StoreInv, ClearedIsGone, ClearedClaimsStayCleared
<1> QED BY <1>1, Invariance, PTL

(* A readiness probe leaves the database of the workers as it is and       *)
(* removes the one its own process created                                 *)
(* (_run_runtime_ready_uncached and cleanup_probe_db_artifacts), unless a  *)
(* worker opened the database under it or the sidecar ended under it.      *)
THEOREM SpecProbeLeavesNoTrace == Spec => []ProbeLeavesNoTrace
<1>1. ProbeInv => ProbeLeavesNoTrace
  BY DEF ProbeInv, DbInv, ProbeLeavesNoTrace
<1> QED BY <1>1, Invariance, PTL
=============================================================================
