------------------------------- MODULE Soak -------------------------------
(***************************************************************************)
(* The evaluation driver scripts/wave2_soak.py: a session asks a model one *)
(* prompt after the other, checks each answer and stops when a streak of   *)
(* failures reaches its limit; the analysis finds the incidents again in   *)
(* the records that were written, and judges the campaign by them.         *)
(* Deltas are in tenths.  The limits are the numbers of the code, made     *)
(* constants so that short sessions reach them.                            *)
(***************************************************************************)
EXTENDS Integers, Sequences, FiniteSets, SequencesExt

CONSTANTS Models, Kimi,               \* Kimi: the models of that profile
          LiveTurns, MockSessions, MockTurns,
          LiveDeltas,                 \* the deltas a live answer may claim
          TransportLimit,             \* 3
          ValidatorLimit,             \* 5
          SandboxLimit,               \* 3
          BreakerLimit,               \* 20
          LoopLimit,                  \* 15
          LiveMin, MockMin            \* 10 and 1000 records

ASSUME SoakAssumption ==
  /\ IsFiniteSet(Models) /\ MockSessions \in Nat
  /\ LiveDeltas \subseteq Int \X Int
  /\ {TransportLimit, ValidatorLimit, SandboxLimit} \subseteq Nat \ {0}

VARIABLES
  phase,      \* live, mock, analyze, done
  todo,       \* the sessions still to run in this phase: <<model, session>>
  results,    \* the records of the session under way
  streak,     \* its counters
  ending,     \* how the session ended, "" while it runs
  incidents,  \* the incidents sessions recorded
  records,    \* the two all_turns.jsonl
  report      \* what run_analyze wrote

soakVars == <<phase, todo, results, streak, ending, incidents, records, report>>

Modes == {"live", "mock"}

NoStreak == [transport |-> 0, validator |-> 0, sandbox |-> 0, loop |-> 0, breaker |-> 0]

Maximum(a, b) == IF a > b THEN a ELSE b
Minimum(a, b) == IF a < b THEN a ELSE b

(* One session per available model, or MockSessions per model. *)
Models1 == SetToSeq(Models)
LiveSessions(available) ==
  LET ms == SetToSeq(available) IN [i \in DOMAIN ms |-> <<ms[i], 1>>]
AllMockSessions == [i \in 1..(Len(Models1) * MockSessions) |->
                      <<Models1[((i - 1) \div MockSessions) + 1], ((i - 1) % MockSessions) + 1>>]

(* The availability probe of run_live_pilot drops a model. *)
SoakInit ==
  /\ phase = "live"
  /\ \E available \in SUBSET Models : todo = LiveSessions(available)
  /\ results = <<>> /\ streak = NoStreak /\ ending = ""
  /\ incidents = {}
  /\ records = [m \in Modes |-> <<>>]
  /\ report = [incidents |-> {}, metrics |-> <<>>, quality |-> <<>>, status |-> ""]

-----------------------------------------------------------------------------
(* The checks of an answer.                                                *)

Payload(c, p) == [kind |-> "payload", conatus |-> c, predictive |-> p]

(* What local_history holds: the accepted deltas, nothing for a reject. *)
History == [i \in DOMAIN results |-> IF results[i].status = "accept" THEN results[i].conatus ELSE 0]

(* sandbox_check.  The trend is the older delta minus the newer one. *)
SandboxReason(c, p, h) ==
  LET n      == Len(h)
      trend2 == IF n >= 3 THEN h[n - 2] - h[n] ELSE 0
      bonus  == IF c > 0 /\ p > 0 THEN 1 ELSE 0
      recent == (Maximum(n - 4, 1))..n
      high   == {i \in recent : h[i] > 6} IN
  CASE trend2 + 2 * c < -6 -> "degrading_conatus"
    [] trend2 + 2 * c >= -6 /\ c + p + bonus < -1 -> "negative_net_score"
    [] trend2 + 2 * c >= -6 /\ c + p + bonus >= -1
         /\ n > 0 /\ 10 * Cardinality(high) > 8 * Cardinality(recent)
         -> "high_repair_loop_risk"
    [] OTHER -> "accept"

(* The fate of an answer: the checks in their order. *)
Status(a) ==
  CASE a.kind = "error" -> "transport_error"
    [] a.kind = "text"  -> "invalid_response"
    [] a.kind = "short" -> "validation_reject"
    [] a.kind = "payload" ->
         IF SandboxReason(a.conatus, a.predictive, History) = "accept"
           THEN "accept" ELSE "sandbox_reject"

Reason(a) ==
  IF a.kind = "payload" /\ Status(a) = "sandbox_reject"
    THEN SandboxReason(a.conatus, a.predictive, History) ELSE ""

(* Mutant: a text that parses does not end a streak of bad texts. *)
CountKeepsValidator(s, status) ==
  CASE status = "accept" ->
         [s EXCEPT !.transport = 0, !.sandbox = 0, !.loop = 0,
                   !.breaker = Maximum(0, @ - 1)]
    [] status = "sandbox_reject" ->
         [s EXCEPT !.transport = 0, !.sandbox = @ + 1,
                   !.loop = @ + 1, !.breaker = @ + 1]
    [] OTHER ->
         [transport |-> IF status = "transport_error" THEN s.transport + 1 ELSE 0,
          validator |-> s.validator + 1,
          sandbox |-> 0, loop |-> s.loop + 1, breaker |-> s.breaker + 1]

(* The counters after a turn.  An answer that parses resets the validator  *)
(* streak before it is validated.                                          *)
Count(s, status) ==
  CASE status = "transport_error" ->
         [transport |-> s.transport + 1, validator |-> s.validator + 1,
          sandbox |-> 0, loop |-> s.loop + 1, breaker |-> s.breaker + 1]
    [] status = "invalid_response" ->
         [transport |-> 0, validator |-> s.validator + 1,
          sandbox |-> 0, loop |-> s.loop + 1, breaker |-> s.breaker + 1]
    [] status = "validation_reject" ->
         [transport |-> 0, validator |-> 1,
          sandbox |-> 0, loop |-> s.loop + 1, breaker |-> s.breaker + 1]
    [] status = "sandbox_reject" ->
         [transport |-> 0, validator |-> 0,
          sandbox |-> s.sandbox + 1, loop |-> s.loop + 1, breaker |-> s.breaker + 1]
    [] status = "accept" ->
         [transport |-> 0, validator |-> 0,
          sandbox |-> 0, loop |-> 0, breaker |-> Maximum(0, s.breaker - 1)]

(* Each branch tests its own streak; the breaker and the reject loop are   *)
(* looked at after an accepted answer only.                                *)
StopReason(status, s) ==
  CASE status = "transport_error" /\ s.transport >= TransportLimit -> "transport_streak"
    [] status \in {"invalid_response", "validation_reject"} /\ s.validator >= ValidatorLimit
         -> "validator_streak"
    [] status = "sandbox_reject" /\ s.sandbox >= SandboxLimit -> "sandbox_streak"
    [] status = "accept" /\ s.breaker > BreakerLimit -> "breaker_lock"
    [] status = "accept" /\ s.breaker <= BreakerLimit /\ s.loop > LoopLimit -> "reject_loop"
    [] OTHER -> ""

(* make_turn_record *)
Record(a, s) ==
  [mode |-> phase, id |-> Head(todo), turn |-> Len(results) + 1,
   status |-> Status(a), reason |-> Reason(a),
   conatus |-> IF a.kind = "payload" THEN a.conatus ELSE 0,
   predictive |-> IF a.kind = "payload" THEN a.predictive ELSE 0,
   graft |-> Status(a) = "accept", breaker |-> s.breaker]

(* The incident of an aborted session. *)
Incident(type, first, count) ==
  [type |-> type, mode |-> phase, id |-> Head(todo), first |-> first, last |-> first + count - 1]

Recorded(stop, s) ==
  LET n == Len(results) + 1 IN
  CASE stop = "transport_streak" -> {Incident("transport", n - s.transport + 1, s.transport)}
    [] stop = "validator_streak" -> {Incident("validator", n - s.validator + 1, s.validator)}
    [] stop = "sandbox_streak"   -> {Incident("sandbox", n - s.sandbox + 1, s.sandbox)}
    [] stop \in {"breaker_lock", "reject_loop"} -> {Incident(stop, n, 1)}
    [] OTHER -> {}

-----------------------------------------------------------------------------
(* run_session, run_live_pilot and run_mock_full.                          *)

TurnLimit   == IF phase = "live" THEN LiveTurns ELSE MockTurns

(* query_fireworks: an error of any class, or a text; the text may be no   *)
(* JSON, lack a word or a definition, or carry deltas.                     *)
LiveAnswers == {[kind |-> k] : k \in {"error", "text", "short"}}
               \cup {Payload(d[1], d[2]) : d \in LiveDeltas}

(* make_mock_table.  Only the Kimi profiles carry the name of a model: the *)
(* tables written for "glm" and "deepseek" are never looked up.            *)
MockTable(m) == IF m \in Kimi THEN {Payload(3, 2), Payload(-5, 0), [kind |-> "text"]}
                              ELSE {Payload(3, 2)}

Answers == IF phase = "live" THEN LiveAnswers ELSE MockTable(Head(todo)[1])

Turn(a) ==
  LET s    == Count(streak, Status(a))
      stop == StopReason(Status(a), s) IN
  /\ ending = "" /\ Len(results) < TurnLimit
  /\ results' = Append(results, Record(a, s))
  /\ streak' = s
  /\ ending' = stop
  /\ incidents' = incidents \cup Recorded(stop, s)
  /\ UNCHANGED <<phase, todo, records, report>>

(* The session is over: its records join those of the pass. *)
EndSession ==
  /\ phase \in Modes /\ todo # <<>>
  /\ ending # "" \/ Len(results) = TurnLimit
  /\ records' = [records EXCEPT ![phase] = @ \o results]
  /\ todo' = Tail(todo)
  /\ results' = <<>> /\ streak' = NoStreak /\ ending' = ""
  /\ UNCHANGED <<phase, incidents, report>>

(* main with mode "all", and run_wave2.sh: the next pass. *)
EndPass ==
  /\ phase \in Modes /\ todo = <<>>
  /\ \/ phase = "live" /\ phase' = "mock" /\ todo' = AllMockSessions
     \/ phase = "mock" /\ phase' = "analyze" /\ todo' = <<>>
  /\ UNCHANGED <<results, streak, ending, incidents, records, report>>

-----------------------------------------------------------------------------
(* run_analyze.                                                            *)

(* The records of a session, in the order of their turns, which are        *)
(* numbered from 1.                                                        *)
SessionRecords(rs, id) ==
  LET own == {i \in DOMAIN rs : rs[i].id = id} IN
  [t \in {rs[i].turn : i \in own} |-> rs[CHOOSE i \in own : rs[i].turn = t]]

(* The longest stretches of records that pass a test. *)
Stretches(rs, Test(_)) ==
  {x \in (DOMAIN rs) \X (DOMAIN rs) :
     /\ x[1] <= x[2]
     /\ \A k \in x[1]..x[2] : Test(rs[k])
     /\ x[1] = 1 \/ ~Test(rs[x[1] - 1])
     /\ x[2] = Len(rs) \/ ~Test(rs[x[2] + 1])}

(* Where the last reason of a stretch of sandbox rejects begins to hold:   *)
(* a change of reason starts the count again.                              *)
SameReason(rs, x) ==
  CHOOSE i \in x[1]..x[2] :
    /\ \A k \in i..x[2] : rs[k].reason = rs[x[2]].reason
    /\ i = x[1] \/ rs[i - 1].reason # rs[x[2]].reason

Long(rs, Test(_), limit) == {x \in Stretches(rs, Test) : x[2] - x[1] + 1 >= limit}

IsTransport(r) == r.status = "transport_error"
IsInvalid(r)   == r.status \in {"transport_error", "invalid_response", "validation_reject"}
IsSandbox(r)   == r.status = "sandbox_reject"
IsRejected(r)  == ~r.graft /\ r.status # "accept"

(* detect_from_rows for one session; the two further kinds of incident a   *)
(* session can record are not looked for, and not reached either.          *)
Detected(mode, id, rs) ==
  LET Found(type, first, last) ==
        [type |-> type, mode |-> mode, id |-> id, first |-> first, last |-> last]
      Ended(x) == IF x[2] = Len(rs) THEN x[2] ELSE x[2] + 1 IN
  {Found("transport", x[1], x[2]) : x \in Long(rs, IsTransport, TransportLimit)}
  \cup {Found("validator", x[1], x[2]) : x \in Long(rs, IsInvalid, ValidatorLimit)}
  \cup {Found("sandbox", SameReason(rs, x), x[2]) :
          x \in {y \in Long(rs, IsSandbox, SandboxLimit) :
                   y[2] - SameReason(rs, y) + 1 >= SandboxLimit}}
  \cup {Found("reject_loop", Ended(x), Ended(x)) : x \in Long(rs, IsRejected, LoopLimit + 1)}

DetectedIn(mode) ==
  UNION {Detected(mode, id, SessionRecords(records[mode], id)) :
           id \in {records[mode][i].id : i \in DOMAIN records[mode]}}

HowMany(rs, Test(_)) == Cardinality({i \in DOMAIN rs : Test(rs[i])})

SumOf(rs, f) ==
  LET sum[n \in 0..Len(rs)] == IF n = 0 THEN 0 ELSE sum[n - 1] + rs[n][f] IN sum[Len(rs)]

(* compute_model_metrics: the counts its rates are made of. *)
Metrics(rs) ==
  LET With(status) == HowMany(rs, LAMBDA r : r.status = status) IN
  [total |-> Len(rs), errors |-> With("transport_error"),
   invalid |-> With("validation_reject"), rejected |-> With("sandbox_reject"),
   accepted |-> With("accept"), grafts |-> HowMany(rs, LAMBDA r : r.graft),
   cooldowns |-> HowMany(rs, LAMBDA r : r.breaker > 0),
   sandboxed |-> Len(rs) - With("transport_error") - With("invalid_response")
                         - With("validation_reject"),
   deltas |-> SumOf(rs, "conatus") + SumOf(rs, "predictive")]

(* The composite score of generate_leaderboard, times 100 * total: what    *)
(* was learned, safety, stability, and the net deltas about the middle.    *)
Composite(m) ==
    35 * m.grafts
  + 25 * Maximum(0, m.total - (m.errors + m.invalid + m.rejected))
  + 20 * Maximum(0, m.total - (m.errors + m.cooldowns))
  + Maximum(0, Minimum(20 * m.total, 10 * m.total + m.deltas))

(* generate_data_quality_report: an identifier that two records share is a *)
(* duplicate.  Live records are to be told from simulated ones (comment at *)
(* line 777), but every record has the key response_preview (line 609), so *)
(* both passes are in one group, and turns they share count as duplicates. *)
DataQuality(rs) ==
  LET key(i) == <<rs[i].id, rs[i].turn>>
      dups == {key(i) : i \in {j \in DOMAIN rs : \E k \in 1..(j - 1) : key(k) = key(j)}}
      good == HowMany(rs, LAMBDA r : (r.status = "accept") = r.graft) IN
  [dups |-> dups, ready |-> rs # <<>> /\ good = Len(rs) /\ dups = {}]

(* generate_master_report *)
Verdict(live, mock, found) ==
  LET liveOk == /\ Len(live) >= LiveMin
                /\ 2 * HowMany(live, IsTransport) < Len(live)
      mockOk == Len(mock) > MockMin /\ 10 * found < Len(mock) IN
  IF ~liveOk THEN "CONDITIONAL" ELSE IF mockOk THEN "PASS" ELSE "FAIL"

Analyze ==
  /\ phase = "analyze"
  /\ phase' = "done"
  /\ report' =
       [incidents |-> DetectedIn("live") \cup DetectedIn("mock"),
        metrics |-> [m \in Modes |-> Metrics(records[m])],
        quality |-> DataQuality(records["live"] \o records["mock"]),
        status |-> Verdict(records["live"], records["mock"], Cardinality(DetectedIn("mock")))]
  /\ UNCHANGED <<todo, results, streak, ending, incidents, records>>

SoakNext ==
  \/ phase \in Modes /\ todo # <<>> /\ \E a \in Answers : Turn(a)
  \/ EndSession \/ EndPass \/ Analyze

SoakSpec == SoakInit /\ [][SoakNext]_soakVars

-----------------------------------------------------------------------------
(* The analysis finds every incident a session recorded: a transport       *)
(* streak exactly, and no other; a validator streak inside a stretch that  *)
(* ends with it; a sandbox streak when its reasons are one.                *)
IncidentsAreFoundAgain ==
  phase = "done" =>
    LET Same(type) == {i \in incidents : i.type = type}
        Found(type) == {i \in report.incidents : i.type = type}
        Reasons(i) == LET rs == SessionRecords(records[i.mode], i.id) IN
                      {rs[k].reason : k \in i.first..i.last} IN
    /\ Same("transport") = Found("transport")
    /\ \A i \in Same("validator") : \E f \in Found("validator") :
         f.mode = i.mode /\ f.id = i.id /\ f.last = i.last /\ f.first <= i.first
    /\ \A i \in Same("sandbox") : Cardinality(Reasons(i)) = 1 =>
         \E f \in Found("sandbox") : f.mode = i.mode /\ f.id = i.id /\ f.last = i.last

(* "session aborts when policy threshold is exceeded" (lines 10-11): no    *)
(* session goes on after a full streak of transport errors, of texts that  *)
(* do not parse, or of sandbox rejects.  (Answers that parse and fail the  *)
(* validation are not covered: each of them restarts the count.)           *)
StreaksEndSessions ==
  \A m \in Modes : \A id \in {records[m][i].id : i \in DOMAIN records[m]} :
    LET rs == SessionRecords(records[m], id)
        Parse(r) == r.status = "invalid_response"
        Stopped(x) == x[2] = Len(rs) IN
    /\ \A x \in Long(rs, IsTransport, TransportLimit) :
         Stopped(x) /\ x[2] - x[1] + 1 = TransportLimit
    /\ \A x \in Long(rs, Parse, ValidatorLimit) :
         Stopped(x) /\ x[2] - x[1] + 1 = ValidatorLimit
    /\ \A x \in Long(rs, IsSandbox, SandboxLimit) :
         Stopped(x) /\ x[2] - x[1] + 1 = SandboxLimit

(* The metrics say what happened: no pass has a turn twice; the sandbox    *)
(* was asked about exactly the answers it accepted or rejected; the        *)
(* composite score lies on the scale the leaderboard prints (line 914),    *)
(* and a pass that grafted every turn scores above any that grafted none.  *)
(* Nothing is said of the duplicates in the report: see DataQuality.       *)
ReportsAreTrue ==
  phase = "done" =>
    LET ids(m) == {<<records[m][i].id, records[m][i].turn>> : i \in DOMAIN records[m]}
        ms == report.metrics
        Score(m) == Composite(ms[m]) IN
    /\ \A m \in Modes : /\ ms[m].sandboxed = ms[m].accepted + ms[m].rejected
                        /\ Cardinality(ids(m)) = Len(records[m])
                        /\ Score(m) \in 0..(100 * ms[m].total)
    /\ \A m, n \in Modes :
         (ms[m].total > 0 /\ ms[m].grafts = ms[m].total /\ ms[n].grafts = 0)
           => Score(m) * ms[n].total >= Score(n) * ms[m].total

(* The campaign's sessions ended when they should, and what its analysis   *)
(* says of them is what happened.                                          *)
CampaignIsAccountedFor == IncidentsAreFoundAgain /\ StreaksEndSessions /\ ReportsAreTrue
=============================================================================
