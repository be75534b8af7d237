------------------------------ MODULE GfAudit ------------------------------
(***************************************************************************)
(* scripts/gf_release_audit.py: the release audit drives one worker        *)
(* process per session over its pipes, pairs every answer with the phase   *)
(* line of the worker's log and with the trace in the database, and passes *)
(* a release only when every turn with GF was rendered by the grammar.     *)
(*                                                                         *)
(* What a worker does in a turn is one of Outcomes: the trace it stores,   *)
(* the surface it answers with (what it says, what is wrong with it) and   *)
(* whether it was slow.                                                    *)
(***************************************************************************)
EXTENDS Integers, Sequences, FiniteSets, SequencesExt

CONSTANTS
  Prompts,           \* the corpus, a sequence
  LatencyPrompts,    \* 5: how many of them the latency mode asks
  CanarySessions, TurnsPerSession, CanaryPercent,
  Outcomes,          \* [trace, surface, slow]
  GoldenFiles,       \* what the golden file may hold: prompt -> surface
  MaxAudits

(* An empty corpus ends the script before anything runs. *)
ASSUME AuditAssumption ==
  /\ Prompts \in Seq({Prompts[i] : i \in DOMAIN Prompts}) /\ Prompts # <<>>
  /\ {LatencyPrompts, CanarySessions, TurnsPerSession, CanaryPercent, MaxAudits} \subseteq Int

VARIABLES
  mode,      \* latency, surface, canary, all
  rewrite,   \* --write-golden
  golden,    \* the golden file; empty when there is none
  agenda,    \* the sessions still to run: [cohort, gf, prompts]
  step,      \* what the audit is doing, or how it ended
  worker,    \* the process with its pipes, and what was read from them
  cursor,    \* phase_start of the turn under way
  reply,     \* the answer taken from the queue
  audited,   \* the TurnAudits
  done,      \* what the workers of this audit did: <<session, turn>> -> Outcomes
  audits

auditVars == <<mode, rewrite, golden, agenda, step, worker, cursor, reply,
               audited, done, audits>>

ModesOfAudit == {"latency", "surface", "canary", "all"}
Verdicts     == {"passed", "failed", "raised"}

Larger(a, b)  == IF a > b THEN a ELSE b
Smaller(a, b) == IF a < b THEN a ELSE b

-----------------------------------------------------------------------------
(* The sessions of a mode.                                                 *)

(* round() of the code: a half goes to the even neighbour. *)
HalfEven(n) == LET q == n \div 100 IN
  CASE n % 100 < 50 -> q [] n % 100 > 50 -> q + 1 [] OTHER -> q + (q % 2)

SelectedCount ==
  Larger(1, HalfEven(Larger(1, CanarySessions) * Larger(0, Smaller(100, CanaryPercent))))

Asked(k) == [i \in 1..Larger(1, TurnsPerSession) |->
  Prompts[(((k - 1) * Larger(1, TurnsPerSession) + i - 1) % Len(Prompts)) + 1]]

SurfaceSession(m) ==
  [cohort |-> "surface", gf |-> TRUE, index |-> 0,
   prompts |-> IF m = "latency" THEN SubSeq(Prompts, 1, Smaller(LatencyPrompts, Len(Prompts)))
                                ELSE Prompts]
CanarySession(k) ==
  [cohort |-> IF k <= SelectedCount THEN "canary" ELSE "control",
   gf |-> k <= SelectedCount, index |-> k, prompts |-> Asked(k)]

AgendaOf(m) ==
  (IF m = "canary" THEN <<>> ELSE <<SurfaceSession(m)>>)
    \o (IF m \in {"canary", "all"} THEN [k \in 1..Larger(1, CanarySessions) |-> CanarySession(k)]
                                   ELSE <<>>)

-----------------------------------------------------------------------------
(* The worker process and the two reader threads.                          *)

Process(state) ==
  [state |-> state, input |-> <<>>, stdout |-> <<>>, stderr |-> <<>>,
   queue |-> <<>>, log |-> <<>>, turn |-> 0]
NoWorker == Process("none")

AuditStart ==
  /\ mode \in ModesOfAudit /\ rewrite \in BOOLEAN
  /\ agenda = AgendaOf(mode)
  /\ step = "witness" /\ worker = NoWorker /\ cursor = 0 /\ reply = <<>>
  /\ audited = <<>> /\ done = <<>>

AuditInit == AuditStart /\ golden \in GoldenFiles /\ audits = 1

Current == Head(agenda)

Unasked == SubSeq(Current.prompts,
             1 + Cardinality({i \in DOMAIN audited : audited[i].session = Current.index}),
             Len(Current.prompts))

WorkerBoots ==
  /\ worker.state = "booting"
  /\ worker' = [worker EXCEPT !.state = "ready", !.stderr = Append(@, <<"bootstrap", 0>>)]
  /\ UNCHANGED done

(* A turn is stored with its trace, then reported on the log and answered; *)
(* a refused one is only answered.                                         *)
WorkerTurn(t) ==
  /\ worker.state = "ready" /\ worker.input # <<>> /\ Head(worker.input) # "shutdown"
  /\ worker' = [worker EXCEPT !.input = Tail(@), !.turn = @ + 1,
                              !.stderr = Append(@, <<"phases", worker.turn + 1>>),
                              !.stdout = Append(@, [status |-> "ok", turns |-> worker.turn + 1,
                                                    surface |-> t.surface, slow |-> t.slow])]
  /\ done' = Append(done, [session |-> Current.index, turn |-> worker.turn + 1, was |-> t])
WorkerRefuses ==
  /\ worker.state = "ready" /\ worker.input # <<>> /\ Head(worker.input) # "shutdown"
  /\ worker' = [worker EXCEPT !.input = Tail(@),
                              !.stdout = Append(@, [status |-> "error"])]
  /\ UNCHANGED done
WorkerStops ==
  /\ worker.state = "ready" /\ worker.input # <<>> /\ Head(worker.input) = "shutdown"
  /\ worker' = [worker EXCEPT !.state = "dead", !.input = Tail(@),
                              !.stdout = Append(@, [status |-> "bye"])]
  /\ UNCHANGED done
WorkerDies ==
  /\ worker.state \in {"booting", "ready"}
  /\ worker' = [worker EXCEPT !.state = "dead"]
  /\ UNCHANGED done

ReadStdout ==
  /\ worker.stdout # <<>>
  /\ worker' = [worker EXCEPT !.stdout = Tail(@), !.queue = Append(@, Head(worker.stdout))]
  /\ UNCHANGED done
ReadStderr ==
  /\ worker.stderr # <<>>
  /\ worker' = [worker EXCEPT !.stderr = Tail(@), !.log = Append(@, Head(worker.stderr))]
  /\ UNCHANGED done

WorkerStep ==
  /\ WorkerBoots \/ (\E t \in Outcomes : WorkerTurn(t)) \/ WorkerRefuses \/ WorkerStops
       \/ WorkerDies \/ ReadStdout \/ ReadStderr
  /\ UNCHANGED <<mode, rewrite, golden, agenda, step, cursor, reply, audited, audits>>

-----------------------------------------------------------------------------
(* The audit.                                                              *)

Keeps == <<mode, rewrite, golden, done, audits>>

Unwind == step' = "raised"

(* prepare_strict_witness, and in two modes run_cold_probe. *)
Prepare ==
  /\ step = "witness"
  /\ step' = "open" \/ Unwind
  /\ UNCHANGED <<agenda, worker, cursor, reply, audited, Keeps>>

OpenWorker ==
  /\ step = "open" /\ agenda # <<>>
  /\ worker' = Process("booting") /\ step' = "boot"
  /\ UNCHANGED <<agenda, cursor, reply, audited, Keeps>>

HasLine(marker, start) == \E i \in (start + 1)..Len(worker.log) : worker.log[i][1] = marker
LineOf(marker, start) ==
  worker.log[CHOOSE i \in (start + 1)..Len(worker.log) :
               /\ worker.log[i][1] = marker
               /\ \A j \in (start + 1)..(i - 1) : worker.log[j][1] # marker]

Booted ==
  /\ step = "boot" /\ HasLine("bootstrap", 0)
  /\ step' = "send"
  /\ UNCHANGED <<agenda, worker, cursor, reply, audited, Keeps>>

(* The constructor raises, so the with statement never closes the worker:  *)
(* a slow one runs on until the audit's pipes are gone.                    *)
BootFails ==
  /\ step = "boot" /\ ~HasLine("bootstrap", 0)
  /\ Unwind
  /\ worker' = NoWorker
  /\ UNCHANGED <<agenda, cursor, reply, audited, Keeps>>

(* Mutant: the phase line is looked for in the whole log. *)
SendTurnFromStart ==
  /\ step = "send" /\ Unasked # <<>>
  /\ cursor' = 0
  /\ IF worker.state = "dead" THEN step' = "unwind" /\ UNCHANGED worker
     ELSE step' = "answer" /\ worker' = [worker EXCEPT !.input = Append(@, Head(Unasked))]
  /\ UNCHANGED <<agenda, reply, audited, Keeps>>

(* Writing to a process that died raises as well. *)
SendTurn ==
  /\ step = "send" /\ Unasked # <<>>
  /\ cursor' = Len(worker.log)
  /\ IF worker.state = "dead" THEN step' = "unwind" /\ UNCHANGED worker
     ELSE step' = "answer" /\ worker' = [worker EXCEPT !.input = Append(@, Head(Unasked))]
  /\ UNCHANGED <<agenda, reply, audited, Keeps>>

TakeAnswer ==
  /\ step = "answer" /\ worker.queue # <<>>
  /\ worker' = [worker EXCEPT !.queue = Tail(@)]
  /\ IF Head(worker.queue).status = "ok"
       THEN step' = "phase" /\ reply' = Head(worker.queue)
       ELSE step' = "unwind" /\ UNCHANGED reply
  /\ UNCHANGED <<agenda, cursor, audited, Keeps>>

(* turn_timeout without an answer; 5 s without the phase line, or the      *)
(* worker gone; 5 s without the trace.                                     *)
TurnFails ==
  /\ \/ step = "answer" /\ worker.queue = <<>>
     \/ step = "phase" /\ ~HasLine("phases", cursor)
     \/ step = "trace"
  /\ step' = "unwind"
  /\ UNCHANGED <<agenda, worker, cursor, reply, audited, Keeps>>

FindPhases ==
  /\ step = "phase" /\ HasLine("phases", cursor)
  /\ step' = "trace"
  /\ UNCHANGED <<agenda, worker, cursor, reply, audited, Keeps>>

(* The trace the database holds for this turn of this session. *)
Stored(turn) == {i \in DOMAIN done : done[i].session = Current.index /\ done[i].turn = turn}

(* What the plan says and the surface does not. *)
Substitutions(surface, trace) ==
  IF trace.planned THEN trace.plan \ surface.says
  ELSE IF trace.linearized THEN {"missing_response_plan"} ELSE {}

IsCanonical(trace) ==
  trace.linearized /\ trace.authority = "canonical" /\ trace.lang \in {"syntax", "atoms"}
Recovery(trace) == trace.recovery \/ trace.authority = "recovery"

(* read_trace and the rest of audit_turn. *)
AuditTurn ==
  /\ step = "trace"
  /\ \E i \in Stored(reply.turns) :
       LET trace == done[i].was.trace IN
       audited' = Append(audited,
         [session |-> Current.index, cohort |-> Current.cohort, gf |-> Current.gf,
          prompt |-> Head(Unasked), turn |-> reply.turns, output |-> reply.surface.text,
          slow |-> reply.slow, phases |-> LineOf("phases", cursor)[2],
          canonical |-> IsCanonical(trace), fallback |-> trace.fallback,
          recovery |-> Recovery(trace), issues |-> reply.surface.faults,
          substitutions |-> Substitutions(reply.surface, trace)])
  /\ step' = "send" /\ reply' = <<>>
  /\ UNCHANGED <<agenda, worker, cursor, Keeps>>

(* close, at the end of the session or on the way out of an exception: it  *)
(* takes whatever answer comes first, and terminates or kills a process    *)
(* that has not ended in time.                                             *)
Close ==
  /\ step = "unwind" \/ (step = "send" /\ Unasked = <<>>)
  /\ LET leaving == IF step = "unwind" THEN "unwound" ELSE "closed" IN
     IF worker.state = "dead" THEN step' = leaving /\ UNCHANGED worker
     ELSE /\ step' = IF step = "unwind" THEN "unwinding" ELSE "closing"
          /\ worker' = [worker EXCEPT !.input = Append(@, "shutdown")]
  /\ UNCHANGED <<agenda, cursor, reply, audited, Keeps>>

CloseEnds ==
  /\ step \in {"closing", "unwinding"}
  /\ worker' = [worker EXCEPT !.state = "dead"]
  /\ step' = IF step = "closing" THEN "closed" ELSE "unwound"
  /\ UNCHANGED <<agenda, cursor, reply, audited, Keeps>>

EndSessionOfAudit ==
  /\ step \in {"closed", "unwound"}
  /\ worker' = NoWorker
  /\ IF step = "unwound" THEN Unwind /\ UNCHANGED agenda
                         ELSE step' = "open" /\ agenda' = Tail(agenda)
  /\ UNCHANGED <<cursor, reply, audited, Keeps>>

-----------------------------------------------------------------------------
(* The report.                                                             *)

(* The turns of a cohort, by their places in the list. *)
Cohort(cohort) == {i \in DOMAIN audited : audited[i].cohort = cohort}
HowOften(turns, Test(_)) == Cardinality({i \in turns : Test(audited[i])})

(* percentile(warm, 95): the smallest value with 95 of 100 at or below it. *)
P95Slow(turns) ==
  LET count == Cardinality(turns)
      index == (95 * count + 99) \div 100
      fast  == HowOften(turns, LAMBDA a : ~a.slow) IN
  Larger(1, Smaller(count, index)) > fast

(* summarize_turns, as far as the verdict asks. *)
SummaryPasses(turns) ==
  /\ turns # {}
  /\ HowOften(turns, LAMBDA a : a.canonical) = Cardinality(turns)
  /\ HowOften(turns, LAMBDA a : a.fallback = "none") = Cardinality(turns)
  /\ HowOften(turns, LAMBDA a : a.substitutions # {}) = 0
  /\ HowOften(turns, LAMBDA a : a.issues # {}) = 0
  /\ ~P95Slow(turns)

(* The last line of a prompt counts. *)
Golden(turns) ==
  [p \in {audited[i].prompt : i \in turns} |->
     audited[CHOOSE i \in turns :
               /\ audited[i].prompt = p
               /\ \A j \in turns : j > i => audited[j].prompt # p].output]

Mismatches(file, turns) ==
  {i \in turns : audited[i].prompt \notin DOMAIN file
                   \/ file[audited[i].prompt] # audited[i].output}

(* The summaries the verdict looks at. *)
Relevant == CASE mode = "canary" -> {"canary"} [] mode = "all" -> {"surface", "canary"}
              [] OTHER -> {"surface"}

(* Only the surface corpus is compared, and only with a file that exists:  *)
(* "golden_missing" is never reported.  The control cohort decides nothing. *)
Report ==
  /\ step = "open" /\ agenda = <<>>
  /\ LET surface == Cohort("surface")
         file    == IF rewrite /\ surface # {} THEN Golden(surface) ELSE golden IN
     /\ golden' = file
     /\ step' = IF /\ \A c \in Relevant : SummaryPasses(Cohort(c))
                   /\ surface # {} /\ DOMAIN file # {} => Mismatches(file, surface) = {}
                THEN "passed" ELSE "failed"
  /\ UNCHANGED <<mode, rewrite, agenda, worker, cursor, reply, audited, done, audits>>

(* The next audit finds the golden file of the last one. *)
NextAudit ==
  /\ step \in Verdicts /\ audits < MaxAudits
  /\ mode' \in ModesOfAudit /\ rewrite' \in BOOLEAN
  /\ agenda' = AgendaOf(mode')
  /\ step' = "witness" /\ worker' = NoWorker /\ cursor' = 0 /\ reply' = <<>>
  /\ audited' = <<>> /\ done' = <<>>
  /\ audits' = audits + 1
  /\ UNCHANGED golden

AuditNext ==
  \/ WorkerStep \/ Prepare \/ OpenWorker \/ Booted \/ BootFails \/ SendTurn \/ TakeAnswer
  \/ TurnFails \/ FindPhases \/ AuditTurn \/ Close \/ CloseEnds \/ EndSessionOfAudit
  \/ Report \/ NextAudit

AuditSpec == AuditInit /\ [][AuditNext]_auditVars

-----------------------------------------------------------------------------
(* An audited turn is paired with its own answer, phases and trace.        *)
OwnEvidence ==
  \A i \in DOMAIN audited :
    LET a == audited[i] IN
    /\ a.phases = a.turn
    /\ \E k \in DOMAIN done :
         /\ done[k].session = a.session /\ done[k].turn = a.turn
         /\ a.output = done[k].was.surface.text /\ a.slow = done[k].was.slow
         /\ a.canonical = IsCanonical(done[k].was.trace)

(* A release passes only when no turn with GF escaped the audit, each was  *)
(* rendered by the grammar from a plan its surface says, without a fault   *)
(* or a fallback, most were in time, and the surfaces of the corpus are    *)
(* those of the golden file when there is one.                             *)
PassIsEarned ==
  step = "passed" =>
    /\ Len(audited) = Len(done)
    /\ \E k \in DOMAIN audited : audited[k].gf
    /\ \A k \in DOMAIN done : LET t == done[k].was IN
         audited[k].gf =>
           /\ t.trace.linearized /\ t.trace.authority = "canonical"
           /\ t.trace.planned /\ t.trace.plan \subseteq t.surface.says
           /\ t.trace.fallback = "none" /\ t.surface.faults = {}
    /\ \E k \in DOMAIN audited : audited[k].gf /\ ~audited[k].slow
    /\ DOMAIN golden # {} => \A k \in DOMAIN audited :
         audited[k].cohort = "surface" => golden[audited[k].prompt] = done[k].was.surface.text

(* What the audit reports is its own evidence, and a pass is earned.       *)
AuditIsTrue == OwnEvidence /\ PassIsEarned
=============================================================================
