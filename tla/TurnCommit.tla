---------------------------- MODULE TurnCommit ----------------------------
(***************************************************************************)
(* The commit protocol of a turn: the compare-and-swap save of             *)
(* Bridge/StatePersistence.hs, the commit, recovery and rollback of        *)
(* Core/TurnPipeline/Finalize/Commit.hs, and the session a process carries *)
(* from one turn to the next (Runtime/Engine.hs, Session/Bootstrap.hs).    *)
(*                                                                         *)
(* Several processes (a sidecar worker, its replacement, a command line)   *)
(* may hold a session of the same identifier over one SQLite file; the     *)
(* lock of SessionLock is per process, so only the transaction orders      *)
(* them.  One transaction is one action.                                   *)
(***************************************************************************)
EXTENDS Integers, Sequences

CONSTANTS Procs,        \* processes that may hold the session
          MaxRev,       \* bound on the revision counters
          MaxBlocked,   \* turns of one session object that end without a save
          MaxDamage     \* times the stored state is damaged

ASSUME MaxRevAssumption == MaxRev \in Nat
ASSUME MaxBlockedAssumption == MaxBlocked \in Nat
ASSUME MaxDamageAssumption == MaxDamage \in Nat

VARIABLES
  \* the database row and rows of the session
  rev,      \* runtime_sessions.state_revision
  blob,     \* the __system_state__ row: whether it exists and can be read
  hist,     \* the turns of the last readable blob; a turn is named by the
            \* revision that committed it, the turn count is the length
  rows,     \* the turns that have a turn_quality row
  damaged,  \* how often the blob was damaged
  \* the Session value of each process
  pc, origin, srev, shist,
  ahead,    \* how many revisions of srev no write of this session produced
  acked     \* the committed turns whose response was returned

database == <<rev, blob, hist, rows, damaged>>
session  == <<origin, srev, shist, ahead>>
vars     == <<database, pc, session, acked>>

(* "unbuildable" decodes, but its governed views cannot be rebuilt. *)
Blobs   == {"missing", "readable", "unbuildable", "corrupt"}
Origins == {"fresh", "restored", "recovered"}
PCs     == {"down", "ready", "saved", "rollback", "selfplay"}

TypeOK ==
  /\ rev \in 0..MaxRev
  /\ blob \in Blobs
  /\ hist \in Seq(Nat)
  /\ rows \subseteq Nat
  /\ damaged \in 0..MaxDamage
  /\ pc \in [Procs -> PCs]
  /\ origin \in [Procs -> Origins]
  /\ srev \in [Procs -> 0..MaxRev]
  /\ shist \in [Procs -> Seq(Nat)]
  /\ ahead \in [Procs -> 0..MaxBlocked]
  /\ acked \subseteq 1..MaxRev

Init ==
  /\ rev = 0
  /\ blob = "missing"
  /\ hist = <<>>
  /\ rows = {}
  /\ damaged = 0
  /\ pc = [p \in Procs |-> "down"]
  /\ origin = [p \in Procs |-> "fresh"]
  /\ srev = [p \in Procs |-> 0]
  /\ shist = [p \in Procs |-> <<>>]
  /\ ahead = [p \in Procs |-> 0]
  /\ acked = {}

-----------------------------------------------------------------------------
(* The session object of p from now on. *)
SetSession(p, o, r, h, a) ==
  /\ origin' = [origin EXCEPT ![p] = o]
  /\ srev' = [srev EXCEPT ![p] = r]
  /\ shist' = [shist EXCEPT ![p] = h]
  /\ ahead' = [ahead EXCEPT ![p] = a]

Goto(p, label) == pc' = [pc EXCEPT ![p] = label]

(* The process ends; its Session value is gone. *)
Stop(p) ==
  /\ Goto(p, "down")
  /\ SetSession(p, "fresh", 0, <<>>, 0)
  /\ UNCHANGED acked

(* A write transaction that passed its compare-and-swap. *)
Write(h, quality) ==
  /\ rev < MaxRev
  /\ rev' = rev + 1
  /\ blob' = "readable"
  /\ hist' = h
  /\ rows' = quality
  /\ UNCHANGED damaged

(* Mutant: the version is compared by its turn alone. *)
MatchesTurnOnly(r, h) ==
  /\ blob # "corrupt"
  /\ Len(hist) = Len(h)

(* bumpStateRevisionCas of an ordinary version: the revision and the turn  *)
(* of the stored blob, which must decode.                                  *)
Matches(r, h) ==
  /\ rev = r
  /\ blob # "corrupt"
  /\ Len(hist) = Len(h)

(* bumpCorruptStateRepairRevisionCas: the same revision, still corrupt. *)
MatchesRepair(r) ==
  /\ rev = r
  /\ blob = "corrupt"

CasAccepts(p) ==
  IF origin[p] = "recovered" THEN MatchesRepair(srev[p])
                             ELSE Matches(srev[p], shist[p])

NextTurn(p) == Len(shist[p]) + 1

(* The turn_quality primary key is (session, turn). *)
SaveAccepted(p) == CasAccepts(p) /\ NextTurn(p) \notin rows

-----------------------------------------------------------------------------
(* loadStateWithVersion and what bootstrapSession makes of it: one read    *)
(* transaction returns the state and the revision it was stored at.  A     *)
(* process is a worker that serves turns or a --self-play command.         *)
Load(p, o, r, h) ==
  /\ SetSession(p, o, r, h, 0)
  /\ \E role \in {"ready", "selfplay"} : Goto(p, role)
  /\ UNCHANGED <<database, acked>>

Boot(p) ==
  /\ pc[p] = "down"
  /\ \/ blob = "missing" /\ Load(p, "fresh", rev, <<>>)
     \/ blob = "readable" /\ Load(p, "restored", rev, hist)
     \/ blob \in {"corrupt", "unbuildable"} /\ Load(p, "recovered", rev, <<>>)

(* A read that fails is taken for a corrupt blob: at the revision of the   *)
(* row when only the blob could not be read, at zero when the transaction  *)
(* itself failed.  A strict process does not come up then, nor on a        *)
(* corrupt blob: it stays down.                                            *)
BootReadFails(p) ==
  /\ pc[p] = "down"
  /\ \E r \in {0, rev} : Load(p, "recovered", r, <<>>)

(* The branch of continueTurn for a turn that returned a response: after a *)
(* save the new state, after a blocked turn the old one.                   *)
Advance(p, h, a) ==
  SetSession(p, IF origin[p] = "recovered" THEN "restored" ELSE origin[p],
             srev[p] + 1, h, a)

(* A turn that returns a response without reaching the save: input over    *)
(* the limit, an essence rupture or an embedding error, all of which       *)
(* runTurnWithVersion turns into an ordinary result.                       *)
BlockedTurn(p) ==
  /\ pc[p] = "ready"
  /\ ahead[p] < MaxBlocked
  /\ srev[p] < MaxRev
  /\ Advance(p, shist[p], ahead[p] + 1)
  /\ UNCHANGED <<database, pc, acked>>

Save(p) ==
  /\ pc[p] = "ready"
  /\ SaveAccepted(p)
  /\ Write(Append(shist[p], rev + 1), rows \cup {NextTurn(p)})
  /\ Goto(p, "saved")
  /\ UNCHANGED <<session, acked>>

(* The exception leaves the turn and ends the worker's loop. *)
SaveRefused(p) ==
  /\ pc[p] = "ready"
  /\ ~SaveAccepted(p)
  /\ Stop(p)
  /\ UNCHANGED database

(* The in-memory commit succeeds, or its one recovery attempt does. *)
Respond(p) ==
  /\ pc[p] = "saved"
  /\ Goto(p, "ready")
  /\ Advance(p, Append(shist[p], srev[p] + 1), 0)
  /\ acked' = acked \cup {srev[p] + 1}
  /\ UNCHANGED database

RuntimeCommitFails(p) ==
  /\ pc[p] = "saved"
  /\ Goto(p, "rollback")
  /\ UNCHANGED <<database, session, acked>>

(* deleteTurnQualityAbove *)
RowsUpTo(turn) == {n \in rows : n <= turn}

(* Mutants: the projection rows are not part of the rollback; the rollback *)
(* does not check that its turn is still the last one.                     *)
UndoKeepsRows(p) ==
  IF Matches(srev[p] + 1, Append(shist[p], srev[p] + 1))
    THEN Write(shist[p], rows)
    ELSE UNCHANGED database
UndoBlindly(p) == Write(shist[p], RowsUpTo(Len(shist[p])))

(* rollbackCommittedTurn: refused unless the turn is still the last one. *)
UndoTurn(p) ==
  IF Matches(srev[p] + 1, Append(shist[p], srev[p] + 1))
    THEN Write(shist[p], RowsUpTo(Len(shist[p])))
    ELSE UNCHANGED database

(* The exception follows whether the turn was undone or not. *)
Rollback(p) ==
  /\ pc[p] = "rollback"
  /\ UndoTurn(p)
  /\ Stop(p)

(* --self-play saves the state it loaded, with no projection and always    *)
(* with an ordinary version.                                               *)
SelfPlaySave(p) ==
  /\ pc[p] = "selfplay"
  /\ IF Matches(srev[p], shist[p])
       THEN Write(shist[p], rows)
       ELSE UNCHANGED database
  /\ Stop(p)

(* A crash, an identity rupture, a transaction that fails: SQLite keeps    *)
(* what was committed and nothing else.                                    *)
Crash(p) ==
  /\ pc[p] # "down"
  /\ Stop(p)
  /\ UNCHANGED database

DamageBlob ==
  /\ blob = "readable"
  /\ damaged < MaxDamage
  /\ damaged' = damaged + 1
  /\ blob' \in {"unbuildable", "corrupt"}
  /\ UNCHANGED <<rev, hist, rows, pc, session, acked>>

Step(p) ==
  \/ Boot(p) \/ BootReadFails(p)
  \/ BlockedTurn(p) \/ Save(p) \/ SaveRefused(p)
  \/ Respond(p) \/ RuntimeCommitFails(p) \/ Rollback(p)
  \/ SelfPlaySave(p)
  \/ Crash(p)

Next == DamageBlob \/ \E p \in Procs : Step(p)

Spec == Init /\ [][Next]_vars

-----------------------------------------------------------------------------
(* The projection rows and the blob never disagree: every durable turn has *)
(* its turn_quality row and no row outlives a turn that was rolled back    *)
(* (one transaction writes both, one transaction removes both).            *)
RowsMatchLog == rows = 1..Len(hist)

(* No lost update: a session that presents the version it observed with    *)
(* its state builds on exactly the turns that are stored, whatever other   *)
(* processes did in between (bumpStateRevisionCas).                        *)
NoLostUpdate ==
  [][\A p \in Procs :
       /\ pc[p] = "ready" /\ pc'[p] = "saved"
       /\ origin[p] # "recovered" /\ ahead[p] = 0
       => hist' = Append(hist, rev')]_vars

(* A stored conversation gets shorter only when the process that committed *)
(* its last turn takes that turn back before anyone wrote after it; no     *)
(* recovery and no rollback overwrites a newer writer (lines 135-137).     *)
OnlyTheLastTurnIsUndone ==
  [][Len(hist') < Len(hist) => hist = Append(hist', rev)]_vars

(* A turn that was committed and answered stays in the stored history, as  *)
(* long as the store is not damaged: no crash, stale writer or rollback    *)
(* removes it ("stale-writer CAS conflict and no silent overwrite",        *)
(* docs/commit_restore_state_machine.md).                                  *)
AckedTurnsSurvive ==
  \A n \in acked : \E i \in 1..Len(hist) : hist[i] = n

(* Persistence of one session behaves as one log that every commit extends *)
(* and that only its last writer can shorten.                              *)
Log == INSTANCE TurnLog WITH
         revision <- rev, log <- hist, readable <- blob # "corrupt"
ImplementsTurnLog == Log!Spec
=============================================================================
