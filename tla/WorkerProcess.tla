--------------------------- MODULE WorkerProcess ---------------------------
(***************************************************************************)
(* A worker process (app/CLI/Worker.hs, runWorkerStdio): it boots a        *)
(* session, answers the handshake, and then serves one line of its         *)
(* standard input at a time.  A worker whose bootstrap failed serves a     *)
(* reduced protocol with no session ("preflight").  Lines that carry only  *)
(* ping, health or state change nothing and are left out.                  *)
(***************************************************************************)
EXTENDS Naturals, Sequences

CONSTANTS Requests,  \* turn requests
          Workers,   \* processes that may be started
          NoOne      \* no request

VARIABLES
  life,    \* what the process of a worker does
  cur,     \* the request whose turn it runs
  stdin,   \* lines the worker has not read
  stdout,  \* lines nobody has read
  runs     \* how often the turn of a request was started

workerVars == <<life, cur, stdin, stdout, runs>>

Lives == {"unborn", "booting", "reading", "preflight", "turn", "closing",
          "leaving", "ended"}
Commands == [kind : {"turn"}, req : Requests] \cup [kind : {"shutdown"}, req : {NoOne}]
Lines == [kind : {"hello", "reject", "ack"}, req : {NoOne}]
         \cup [kind : {"turn", "error"}, req : Requests]

WorkerTypeOK ==
  /\ life \in [Workers -> Lives]
  /\ cur \in [Workers -> Requests \cup {NoOne}]
  /\ stdin \in [Workers -> Seq(Commands)]
  /\ stdout \in [Workers -> Seq(Lines)]
  /\ runs \in [Requests -> Nat]

WorkerInit ==
  /\ life = [w \in Workers |-> "unborn"]
  /\ cur = [w \in Workers |-> NoOne]
  /\ stdin = [w \in Workers |-> <<>>]
  /\ stdout = [w \in Workers |-> <<>>]
  /\ runs = [r \in Requests |-> 0]

Running(w) == life[w] \notin {"unborn", "ended"}

Emit(w, kind, r) ==
  stdout' = [stdout EXCEPT ![w] = Append(@, [kind |-> kind, req |-> r])]
Become(w, l) == life' = [life EXCEPT ![w] = l]
ReadLine(w) == stdin' = [stdin EXCEPT ![w] = Tail(@)]
NextCommand(w, kind) == stdin[w] # <<>> /\ Head(stdin[w]).kind = kind

-----------------------------------------------------------------------------
(* bootstrapSession succeeds or the preflight loop starts; both answer the *)
(* hello that is waiting on the standard input.                            *)
Boot(w) ==
  /\ life[w] = "booting"
  /\ \E l \in {"reading", "preflight"} : Become(w, l)
  /\ Emit(w, "hello", NoOne)
  /\ UNCHANGED <<cur, stdin, runs>>

(* A binary of another protocol version refuses the hello and reads on. *)
BootRefusesVersion(w) ==
  /\ life[w] = "booting"
  /\ Become(w, "reading")
  /\ Emit(w, "reject", NoOne)
  /\ UNCHANGED <<cur, stdin, runs>>

StartTurn(w) ==
  /\ life[w] = "reading"
  /\ NextCommand(w, "turn")
  /\ LET r == Head(stdin[w]).req
     IN  /\ cur' = [cur EXCEPT ![w] = r]
         /\ runs' = [runs EXCEPT ![r] = @ + 1]
  /\ Become(w, "turn")
  /\ ReadLine(w)
  /\ UNCHANGED stdout

FinishTurn(w) ==
  /\ life[w] = "turn"
  /\ Emit(w, "turn", cur[w])
  /\ Become(w, "reading")
  /\ cur' = [cur EXCEPT ![w] = NoOne]
  /\ UNCHANGED <<stdin, runs>>

(* worker_turn_exception: the answer, then the end of the loop. *)
TurnRaises(w) ==
  /\ life[w] = "turn"
  /\ Emit(w, "error", cur[w])
  /\ Become(w, "leaving")
  /\ cur' = [cur EXCEPT ![w] = NoOne]
  /\ UNCHANGED <<stdin, runs>>

(* handlePreflightCommand: the crisis surface or worker_bootstrap_failed. *)
PreflightTurn(w) ==
  /\ life[w] = "preflight"
  /\ NextCommand(w, "turn")
  /\ \E kind \in {"turn", "error"} : Emit(w, kind, Head(stdin[w]).req)
  /\ ReadLine(w)
  /\ UNCHANGED <<life, cur, runs>>

ReadShutdown(w) ==
  /\ life[w] \in {"reading", "preflight"}
  /\ NextCommand(w, "shutdown")
  /\ Become(w, "closing")
  /\ ReadLine(w)
  /\ UNCHANGED <<cur, stdout, runs>>

(* closeSession first, then the acknowledgement. *)
CloseSession(w) ==
  /\ life[w] = "closing"
  /\ Emit(w, "ack", NoOne)
  /\ Become(w, "leaving")
  /\ UNCHANGED <<cur, stdin, runs>>

Exit(w) ==
  /\ life[w] = "leaving"
  /\ Become(w, "ended")
  /\ UNCHANGED <<cur, stdin, stdout, runs>>

(* A crash or a signal; what was written to the pipe stays readable. *)
Die(w) ==
  /\ Running(w)
  /\ Become(w, "ended")
  /\ cur' = [cur EXCEPT ![w] = NoOne]
  /\ UNCHANGED <<stdin, stdout, runs>>

Leaving(w) == ReadShutdown(w) \/ CloseSession(w) \/ Exit(w)

WorkerStep(w) ==
  \/ Boot(w) \/ BootRefusesVersion(w)
  \/ StartTurn(w) \/ FinishTurn(w) \/ TurnRaises(w) \/ PreflightTurn(w)
  \/ Leaving(w) \/ Die(w)
=============================================================================
