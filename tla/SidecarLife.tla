---------------------------- MODULE SidecarLife ----------------------------
(***************************************************************************)
(* The life of the HTTP sidecar (scripts/http_runtime.py) beside the       *)
(* dispatch of turns that Sidecar describes: the session claims on disk    *)
(* through crashes, restarts, SIGTERM and failed writes, and the readiness *)
(* probe, whose backend may create the database and which removes it       *)
(* again while workers open it.                                            *)
(***************************************************************************)
EXTENDS Naturals

CONSTANTS Requests,    \* POST /turn requests; a token is named by its claimer
          Sessions, SessionOf,
          Probes,      \* GET /runtime-ready requests
          MaxStarts,   \* bound on the starts of the sidecar
          MaxFaults,   \* bound on failed writes, removals and damage
          NoOne

ASSUME SessionOfAssumption == SessionOf \in [Requests -> Sessions]
ASSUME NoOneAssumption == NoOne \notin Requests
ASSUME BoundsAssumption == MaxStarts \in Nat /\ MaxFaults \in Nat

VARIABLES
  server,     \* the main thread: serving, or how far a shutdown has come
  starts, faults,
  mem,        \* SessionOwnershipStore._tokens
  corrupt,    \* SessionOwnershipStore._corrupt
  file,       \* state of the token file
  disk,       \* its claims, when it can be read
  pc,         \* request threads
  ran,        \* requests whose turn was committed
  told,       \* tokens that a response carried
  cleared,    \* the claims a shutdown found in the store
  kept,       \* a shutdown could not remove the token file
  db,         \* whether the database file exists
  turns,      \* the turns in that file
  handle,     \* what the worker of a session has open
  opened,     \* some worker opened a database
  probe,      \* readiness threads
  existed,    \* db_existed_before of a running probe
  fresh,      \* the readiness cache holds an answer that has not expired
  raced,      \* a worker opened the database under a probe that saw none
  deserted    \* the sidecar ended while a probe ran

store   == <<mem, corrupt, file, disk>>
clients == <<pc, ran, told>>
base    == <<db, turns, handle, opened, raced>>
ready   == <<probe, existed, fresh, deserted>>
past    == <<cleared, kept>>
vars    == <<server, starts, faults, store, clients, past, base, ready>>

Unclaimed == [s \in Sessions |-> NoOne]
Claims    == [Sessions -> Requests \cup {NoOne}]

(* The types of the variables, checked as part of ToldTokenHolds. *)
TypeOK ==
  /\ server \in {"down", "up", "closing", "cleared"}
  /\ starts \in 0..MaxStarts /\ faults \in 0..MaxFaults
  /\ mem \in Claims /\ corrupt \in BOOLEAN
  /\ file \in {"absent", "readable", "unreadable"} /\ disk \in Claims
  /\ pc \in [Requests -> {"new", "accepted", "fresh", "owner", "done", "lost"}]
  /\ ran \subseteq Requests /\ told \subseteq Requests /\ cleared \subseteq Requests
  /\ kept \in BOOLEAN
  /\ db \in BOOLEAN /\ turns \subseteq Requests /\ opened \in BOOLEAN
  /\ handle \in [Sessions -> {"none", "current", "removed"}]
  /\ probe \in [Probes -> {"idle", "waiting", "running", "done"}]
  /\ existed \in [Probes -> BOOLEAN]
  /\ fresh \in BOOLEAN /\ raced \in BOOLEAN /\ deserted \in BOOLEAN

Init ==
  /\ server = "down" /\ starts = 0 /\ faults = 0
  /\ mem = Unclaimed /\ corrupt = FALSE /\ file = "absent" /\ disk = Unclaimed
  /\ pc = [r \in Requests |-> "new"]
  /\ ran = {} /\ told = {} /\ cleared = {} /\ kept = FALSE
  /\ db = FALSE /\ turns = {} /\ opened = FALSE
  /\ handle = [s \in Sessions |-> "none"]
  /\ probe = [p \in Probes |-> "idle"] /\ existed = [p \in Probes |-> FALSE]
  /\ fresh = FALSE /\ raced = FALSE /\ deserted = FALSE

Goto(r, label) == pc' = [pc EXCEPT ![r] = label]
ProbeGoto(p, label) == probe' = [probe EXCEPT ![p] = label]

Fault == faults < MaxFaults /\ faults' = faults + 1

-----------------------------------------------------------------------------
(* The sidecar process.                                                    *)

(* Mutant: a store that cannot be read counts as empty. *)
LoadTokensLenient ==
  /\ mem' = IF file = "readable" THEN disk ELSE Unclaimed
  /\ corrupt' = FALSE

(* _load_tokens: no file is an empty store, a file that cannot be read or  *)
(* has another shape refuses every claim.                                  *)
LoadTokens ==
  /\ mem' = IF file = "readable" THEN disk ELSE Unclaimed
  /\ corrupt' = (file = "unreadable")

(* Both guards of main on the address hold and the port is free; a start   *)
(* that is refused changes nothing.                                        *)
Start ==
  /\ server = "down"
  /\ starts < MaxStarts
  /\ starts' = starts + 1
  /\ server' = "up"
  /\ LoadTokens
  /\ UNCHANGED <<faults, file, disk, clients, past, base, ready>>

(* The threads of the process end with it: they are daemons.  A worker     *)
(* ends when its input does.  The process of a probe has its own session.  *)
Ends ==
  /\ server' = "down"
  /\ mem' = Unclaimed /\ corrupt' = FALSE
  /\ pc' = [r \in Requests |->
              IF pc[r] \in {"accepted", "fresh", "owner"} THEN "lost" ELSE pc[r]]
  /\ handle' = [s \in Sessions |-> "none"]
  /\ deserted' = (deserted \/ \E p \in Probes : probe[p] = "running")
  /\ probe' = [p \in Probes |-> IF probe[p] = "idle" THEN "idle" ELSE "done"]
  /\ fresh' = FALSE
  /\ UNCHANGED <<starts, faults, file, disk, ran, told, past, db, turns,
                 opened, raced, existed>>

Crash == server # "down" /\ Ends

(* graceful_shutdown runs in the main thread, which accepts nothing more;  *)
(* requests under way go on until sys.exit has run the finally of main.    *)
Signal ==
  /\ server = "up"
  /\ server' = "closing"
  /\ UNCHANGED <<starts, faults, store, clients, past, base, ready>>

InStore == {r \in Requests : \E s \in Sessions : r \in {mem[s], disk[s]}}

(* Mutant: the claims are forgotten on disk only. *)
ClearFileOnly ==
  /\ server = "closing"
  /\ server' = "cleared"
  /\ corrupt' = FALSE
  /\ file' = "absent" /\ disk' = Unclaimed
  /\ cleared' = cleared \cup InStore
  /\ UNCHANGED <<starts, faults, mem, kept, clients, base, ready>>

(* clear_store, after the workers were closed.  An OSError is logged only. *)
ClearStore ==
  /\ server = "closing"
  /\ server' = "cleared"
  /\ mem' = Unclaimed /\ corrupt' = FALSE
  /\ cleared' = cleared \cup InStore
  /\ \/ /\ file' = "absent" /\ disk' = Unclaimed
        /\ UNCHANGED <<faults, kept>>
     \/ /\ file # "absent" /\ Fault
        /\ kept' = TRUE
        /\ UNCHANGED <<file, disk>>
  /\ UNCHANGED <<starts, clients, base, ready>>

Exit == server = "cleared" /\ Ends

(* The token file is damaged while no sidecar runs. *)
DamageFile ==
  /\ server = "down" /\ file = "readable"
  /\ Fault
  /\ file' = "unreadable"
  /\ UNCHANGED <<server, starts, mem, corrupt, disk, clients, past, base, ready>>

-----------------------------------------------------------------------------
(* A turn request.                                                         *)

Accept(r) ==
  /\ server = "up"
  /\ pc[r] = "new"
  /\ Goto(r, "accepted")
  /\ UNCHANGED <<server, starts, faults, store, ran, told, past, base, ready>>

(* _persist_locked: a temporary file replaces the old one, or the old one  *)
(* stays and the exception ends the request without a response.            *)
Persist(claims) == file' = "readable" /\ disk' = claims /\ UNCHANGED faults
PersistFails    == Fault /\ UNCHANGED <<file, disk>>

Claimed(r) == [mem EXCEPT ![SessionOf[r]] = r]

(* claim_or_validate with the token the client presents, if any. *)
Admit(r, presented) ==
  /\ pc[r] = "accepted"
  /\ LET owner == mem[SessionOf[r]] IN
       \/ /\ ~corrupt /\ owner = NoOne
          /\ mem' = Claimed(r)
          /\ \/ Persist(Claimed(r)) /\ Goto(r, "fresh")
             \/ PersistFails /\ Goto(r, "lost")
       \/ /\ ~corrupt /\ owner # NoOne /\ presented = owner
          /\ Goto(r, "owner")
          /\ UNCHANGED <<mem, file, disk, faults>>
       \/ /\ corrupt \/ (owner # NoOne /\ presented # owner)
          /\ Goto(r, "done")
          /\ UNCHANGED <<mem, file, disk, faults>>
  /\ UNCHANGED <<server, starts, corrupt, ran, told, past, base, ready>>

(* A request that fails one of the checks before the claim: key, rate,     *)
(* size, JSON, session, mode, input.                                       *)
Refuse(r) ==
  /\ pc[r] = "accepted"
  /\ Goto(r, "done")
  /\ UNCHANGED <<server, starts, faults, store, ran, told, past, base, ready>>

(* The worker of the session runs the turn; a new worker first opens the   *)
(* database and creates it if need be.  One whose file was removed goes on *)
(* writing to what it has open.                                            *)
Run(r) ==
  LET s == SessionOf[r]
      h == IF handle[s] = "none" THEN "current" ELSE handle[s] IN
  /\ pc[r] \in {"fresh", "owner"} /\ r \notin ran
  /\ ran' = ran \cup {r}
  /\ handle' = [handle EXCEPT ![s] = h]
  /\ IF h = "current" THEN db' = TRUE /\ turns' = turns \cup {r}
                      ELSE UNCHANGED <<db, turns>>
  /\ opened' = TRUE
  /\ raced' = (raced \/ (/\ handle[s] = "none"
                        /\ \E p \in Probes : probe[p] = "running" /\ ~existed[p]))
  /\ UNCHANGED <<server, starts, faults, store, pc, told, past, ready>>

(* release_if_matches *)
Release(r) ==
  IF mem[SessionOf[r]] = r
    THEN LET claims == [mem EXCEPT ![SessionOf[r]] = NoOne] IN
         /\ mem' = claims
         /\ \/ Persist(claims) /\ Goto(r, "done")
            \/ PersistFails /\ Goto(r, "lost")
    ELSE Goto(r, "done") /\ UNCHANGED <<mem, file, disk, faults>>

(* The end of do_POST for a turn that ran, or whose result is unknown: the *)
(* response carries the token of the session.                              *)
Respond(r) ==
  /\ pc[r] \in {"fresh", "owner"}
  /\ Goto(r, "done")
  /\ told' = told \cup (IF pc[r] = "fresh" THEN {r} ELSE {})
  /\ UNCHANGED <<server, starts, faults, store, ran, past, base, ready>>

(* A turn that certainly did not run: a fresh claim is given back. *)
RespondFailed(r) ==
  /\ pc[r] \in {"fresh", "owner"} /\ r \notin ran
  /\ IF pc[r] = "fresh" THEN Release(r)
                        ELSE Goto(r, "done") /\ UNCHANGED <<mem, file, disk, faults>>
  /\ UNCHANGED <<server, starts, corrupt, ran, told, past, base, ready>>

(* The exception of a failed handshake leaves do_POST. *)
Raise(r) ==
  /\ pc[r] \in {"fresh", "owner"} /\ r \notin ran
  /\ Goto(r, "lost")
  /\ UNCHANGED <<server, starts, faults, store, ran, told, past, base, ready>>

-----------------------------------------------------------------------------
(* The readiness probe.                                                    *)

Running(p) == probe[p] = "running"
Serving    == server # "down"

(* The answer of the cache, looked up before and again under the lock. *)
AnswerFromCache(p) ==
  /\ Serving /\ fresh
  /\ \/ probe[p] = "idle" /\ server = "up"
     \/ probe[p] = "waiting" /\ ~\E q \in Probes : Running(q)
  /\ ProbeGoto(p, "done")
  /\ UNCHANGED <<server, starts, faults, store, clients, past, base, existed,
                 fresh, deserted>>

AwaitProbeLock(p) ==
  /\ server = "up" /\ ~fresh
  /\ probe[p] = "idle"
  /\ ProbeGoto(p, "waiting")
  /\ UNCHANGED <<server, starts, faults, store, clients, past, base, existed,
                 fresh, deserted>>

(* Mutant: probes do not wait for each other. *)
StartProbeUnlocked(p) ==
  /\ Serving /\ ~fresh
  /\ probe[p] = "waiting"
  /\ ProbeGoto(p, "running")
  /\ existed' = [existed EXCEPT ![p] = db]
  /\ UNCHANGED <<server, starts, faults, store, clients, past, base, fresh, deserted>>

StartProbe(p) ==
  /\ Serving /\ ~fresh
  /\ probe[p] = "waiting" /\ ~\E q \in Probes : Running(q)
  /\ ProbeGoto(p, "running")
  /\ existed' = [existed EXCEPT ![p] = db]
  /\ UNCHANGED <<server, starts, faults, store, clients, past, base, fresh, deserted>>

(* qxfx0-main --runtime-ready opens the database. *)
ProbeCreates(p) ==
  /\ Running(p) /\ ~db
  /\ db' = TRUE
  /\ UNCHANGED <<server, starts, faults, store, clients, past, turns, handle,
                 opened, raced, ready>>

(* cleanup_probe_db_artifacts *)
Cleanup(p) ==
  IF existed[p]
    THEN UNCHANGED <<db, turns, handle>>
    ELSE /\ db' = FALSE /\ turns' = {}
         /\ handle' = [s \in Sessions |->
                         IF handle[s] = "current" THEN "removed" ELSE handle[s]]

(* The process ended, timed out, failed or answered: the files are cleaned *)
(* up, and an answer, ready or not, is cached; an error is not.            *)
EndProbe(p) ==
  /\ Serving /\ Running(p)
  /\ Cleanup(p)
  /\ ProbeGoto(p, "done")
  /\ fresh' \in {TRUE, fresh}
  /\ UNCHANGED <<server, starts, faults, store, clients, past, opened, raced,
                 existed, deserted>>

CacheExpires ==
  /\ fresh
  /\ fresh' = FALSE
  /\ UNCHANGED <<server, starts, faults, store, clients, past, base, probe,
                 existed, deserted>>

Request(r) ==
  \/ Accept(r) \/ Refuse(r) \/ \E t \in told \cup {NoOne} : Admit(r, t)
  \/ Run(r) \/ Respond(r) \/ RespondFailed(r) \/ Raise(r)

Readiness(p) ==
  AnswerFromCache(p) \/ AwaitProbeLock(p) \/ StartProbe(p) \/ ProbeCreates(p) \/ EndProbe(p)

Next ==
  \/ Start \/ Crash \/ Signal \/ ClearStore \/ Exit \/ DamageFile \/ CacheExpires
  \/ \E r \in Requests : Request(r)
  \/ \E p \in Probes : Readiness(p)

Spec == Init /\ [][Next]_vars

-----------------------------------------------------------------------------
(* A client that was told the token of its session keeps the session: in   *)
(* memory, on disk, after a crash and after a restart, whatever other      *)
(* requests claim, give back or fail to write, until a shutdown clears the *)
(* store; a store that cannot be read gives the session to nobody.         *)
ToldTokenHolds ==
  /\ TypeOK
  /\ \A r \in told \ cleared :
       /\ file = "readable" => disk[SessionOf[r]] = r
       /\ server \in {"up", "closing"} /\ ~corrupt => mem[SessionOf[r]] = r
       /\ corrupt => \A s \in Sessions : mem[s] = NoOne

(* "stale session token must not survive graceful restart"                 *)
(* (test/Test/Suite/HttpRuntime.hs:274): a claim that a shutdown removed   *)
(* is not written again by a request that outlives the shutdown, unless    *)
(* the removal of the file failed.                                         *)
ClearedClaimsStayCleared ==
  ~kept => \A r \in cleared : \A s \in Sessions :
    mem[s] # r /\ (file = "readable" => disk[s] # r)

(* A probe leaves the database as the workers have it: what its own        *)
(* process created is gone, what a worker created is there with all its    *)
(* turns.  (Not when a worker opened the database under a probe that had   *)
(* seen none, which then removes it, nor after a crash during a probe.)    *)
ProbeLeavesNoTrace ==
  ~raced /\ ~deserted /\ (\A p \in Probes : ~Running(p))
    => /\ db = opened
       /\ turns = ran
       /\ \A s \in Sessions : handle[s] # "removed"
=============================================================================
