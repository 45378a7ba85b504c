------------------------------ MODULE Acceptance ------------------------------
(***************************************************************************)
(* tools/testnet_acceptance.cpp: a process that probes the approvals of a  *)
(* wallet or the position operations of a market, or makes them, over      *)
(* ChainClient, and keeps append-only evidence.  A session is a run of the *)
(* process; it may be killed at any time, and started again.               *)
(***************************************************************************)
EXTENDS ChainClient

CONSTANTS
  Planned,       \* approval_steps of the scope, in order
  TokenReads,    \* token balances in a position's snapshot
  Approved       \* what may be approved already when the first session starts

VARIABLES
  tool,          \* the process
  evidence       \* the evidence file: [session, event, tx]

toolVars == <<tool, evidence>>
allVars == <<vars, toolVars>>

Modes == {"probe", "approve", "position_probe", "position_execute"}
WriteModes == {"approve", "position_execute"}

\* What main parses: the mode, and which of --execute, --evidence and a
\* matching --confirm were given.
Arguments == [mode : Modes, given : SUBSET {"execute", "evidence", "confirm"}]

NoProcess ==
  [session |-> 0, mode |-> "none", given |-> {}, stage |-> "off", at |-> 0,
   missing |-> {}, stream |-> "closed", exit |-> "none"]

ToolInit ==
  /\ validated = "none"
  /\ ops = [o \in Calls |-> Idle]
  /\ \E chain \in Networks, granted \in Approved :
       node = [chain |-> chain, count |-> 0, pool |-> {}, mined |-> {},
               granted |-> granted, ever |-> granted, foreign |-> 0]
  /\ tool = NoProcess /\ evidence = {}

Writes(mode) == mode \in WriteModes
Positions(mode) == mode \in {"position_probe", "position_execute"}

\* validate_testnet_write_gate and validate_testnet_position_write_gate.
Gate(arguments) ==
  Writes(arguments.mode) =>
    {"execute", "evidence", "confirm"} \subseteq arguments.given

Event(t, event, tx) == [session |-> t.session, event |-> event, tx |-> tx]

\* EvidenceWriter::write: a stream that failed stays failed.
Written(t, event) ==
  IF t.stream = "open" THEN {Event(t, event, NoTx)} ELSE {}

\* The reads of read_snapshot and read_position_snapshot, one after the other.
Snapshot(mode) ==
  <<"read", "read">>
    \o [i \in 1..(IF Positions(mode) THEN TokenReads ELSE 0) |-> "read"]
    \o <<"checks", "read">>

Exits(t, code) == [t EXCEPT !.stage = "exited", !.exit = code, !.missing = {}, !.at = 0]

\* The process makes its next call, or exits.
Goes(t, op) == tool' = t /\ Put(t.session, op)

\* The call of the session is over; what it sent stays known to its history.
Over(op) == [op EXCEPT !.kind = "none", !.steps = <<>>, !.options = {},
                       !.reads = <<>>, !.report = <<>>, !.cancelled = "no"]

\* The next call of the session keeps the history.
Again(op, call) ==
  [call EXCEPT !.sent = op.sent, !.hashes = op.hashes, !.garbled = op.garbled]

Reads(t, op, stage, at) ==
  Goes([t EXCEPT !.stage = stage, !.at = at],
       Again(op, Called(Snapshot(t.mode)[at], Planned, {})))

Ends(t, op, code) == Goes(Exits(t, code), Over(op))

\* Variant: the authorisation is not required to be written.
AuthorizesUnwritten(t, op, call) ==
  \/ Ends(t, op, "failure") /\ UNCHANGED evidence
  \/ /\ evidence' = evidence \cup Written(t, "write_authorized")
     /\ Goes([t EXCEPT !.stage = "write", !.at = 0], Again(op, call))

\* The key is read and its address compared with the owner's; the write is
\* authorised in the evidence, or does not happen.
Authorizes(t, op, call) ==
  \/ Ends(t, op, "failure") /\ UNCHANGED evidence
  \/ /\ t.stream # "failed"
     /\ evidence' = evidence \cup Written(t, "write_authorized")
     /\ Goes([t EXCEPT !.stage = "write", !.at = 0], Again(op, call))

-----------------------------------------------------------------------------
(* What the process does with the result of its call. *)

\* The snapshot before is complete.
OnBefore(t, op) ==
  LET missing == SelectSeq(Planned, LAMBDA step : step \in t.missing)
      run == Called("approvals", missing, {"skip", "stop", "deadline"})
  IN CASE Positions(t.mode) ->
            /\ Goes([t EXCEPT !.stage = "simulate", !.at = 0],
                    Again(op, Called("read", <<>>, {})))
            /\ UNCHANGED evidence
       [] t.mode = "probe" \/ (t.mode = "approve" /\ t.missing = {}) ->
            Ends(t, op, "success") /\ UNCHANGED evidence
       [] t.mode = "approve" /\ t.missing # {} -> Authorizes(t, op, run)

\* The snapshot after is complete.
OnAfter(t, op) ==
  /\ Ends(t, op, IF t.mode = "approve" /\ t.missing # {}
                 THEN "failure" ELSE "success")
  /\ UNCHANGED evidence

\* A read of a snapshot is answered.
OnSnapshot(t, op) ==
  LET seen == IF op.kind # "checks" THEN t
              ELSE [t EXCEPT !.missing = {op.steps[i] : i \in
                             {j \in DOMAIN op.reads : op.reads[j] = "missing"}}]
  IN CASE op.result = "error" -> Ends(t, op, "failure") /\ UNCHANGED evidence
       [] op.result # "error" /\ t.at < Len(Snapshot(t.mode)) ->
            Reads(seen, op, t.stage, t.at + 1) /\ UNCHANGED evidence
       [] op.result # "error" /\ t.at = Len(Snapshot(t.mode)) ->
            IF t.stage = "before" THEN OnBefore(seen, op) ELSE OnAfter(seen, op)

\* The eth_call preflight of run_position is answered.
OnSimulation(t, op) ==
  CASE op.result = "error" -> Ends(t, op, "failure") /\ UNCHANGED evidence
    [] op.result # "error" /\ ~Writes(t.mode) ->
         Ends(t, op, "success") /\ UNCHANGED evidence
    [] op.result # "error" /\ Writes(t.mode) /\ t.missing # {} ->
         Ends(t, op, "failure") /\ UNCHANGED evidence
    [] op.result # "error" /\ Writes(t.mode) /\ t.missing = {} ->
         Authorizes(t, op, Called("execute", <<>>, {"deadline"}))

\* Hashes that the progress callback and the results put into the evidence.
Recorded(t, op) ==
  IF t.stream = "open" THEN {Event(t, "transaction", tx) : tx \in op.hashes} ELSE {}

\* Variant: the exit code is set before the snapshot after.
OnWrittenEarly(t, op) ==
  /\ evidence' = evidence \cup Recorded(t, op)
  /\ IF op.result \in {"success", "confirmed"}
     THEN Reads([t EXCEPT !.exit = "success"], op, "after", 1)
     ELSE Ends(t, op, "failure")

\* Variant: an unknown outcome counts as confirmed.
OnWrittenOptimistic(t, op) ==
  /\ evidence' = evidence \cup Recorded(t, op)
  /\ IF op.result \in {"success", "confirmed", "unknown"}
     THEN Reads(t, op, "after", 1) ELSE Ends(t, op, "failure")

\* Variant: only confirmed transactions are recorded.
OnWrittenConfirmed(t, op) ==
  IF op.result \in {"success", "confirmed"}
  THEN evidence' = evidence \cup Recorded(t, op) /\ Reads(t, op, "after", 1)
  ELSE UNCHANGED evidence /\ Ends(t, op, "failure")

\* The transactions are decided, as far as the client knows.
OnWritten(t, op) ==
  /\ evidence' = evidence \cup Recorded(t, op)
  /\ IF op.result \in {"success", "confirmed"} THEN Reads(t, op, "after", 1)
     ELSE Ends(t, op, "failure")

\* async_chain_id is answered.
OnChain(t, op) ==
  IF op.result = "error" THEN Ends(t, op, "failure") /\ UNCHANGED evidence
  ELSE /\ evidence' = evidence \cup Written(t, "chain_verified")
       /\ Reads(t, op, "before", 1)

Resume(t, op) ==
  CASE t.stage = "chain" -> OnChain(t, op)
    [] t.stage \in {"before", "after"} -> OnSnapshot(t, op)
    [] t.stage = "simulate" -> OnSimulation(t, op)
    [] t.stage = "write" -> OnWritten(t, op)

Running == tool.stage \notin {"off", "exited"}

\* A callback of the client; those that do not end the call may report a
\* transaction to the progress callback.
OnToolCallback ==
  /\ Running /\ Callback(tool.session)
  /\ evidence' = IF ops'[tool.session].stage = "done" THEN evidence
                 ELSE evidence \cup Recorded(tool, ops'[tool.session])
  /\ UNCHANGED tool

\* The handler of the call.
OnResult ==
  /\ Running /\ ops[tool.session].stage = "done"
  /\ Resume(tool, ops[tool.session])
  /\ UNCHANGED <<validated, node>>

\* main and the start of run and run_position: the gates, the evidence file,
\* the first call.
Launch ==
  /\ ~Running /\ tool.session + 1 \in Calls
  /\ validated' = "none" /\ UNCHANGED node
  /\ \E arguments \in Arguments :
       LET t == [NoProcess EXCEPT !.session = tool.session + 1,
                   !.mode = arguments.mode, !.given = arguments.given,
                   !.stage = "chain"]
           opened == [t EXCEPT !.stream = "open"]
           call == Called("chain", <<>>, {})
       IN \/ /\ ~Gate(arguments) \/ "evidence" \in arguments.given
             /\ Ends(t, Idle, "failure") /\ UNCHANGED evidence
          \/ /\ Gate(arguments) /\ "evidence" \in arguments.given
             /\ evidence' = evidence \cup Written(opened, "session_started")
             /\ Goes(opened, call)
          \/ /\ Gate(arguments) /\ "evidence" \notin arguments.given
             /\ Goes(t, call) /\ UNCHANGED evidence

\* The process is killed: the evidence file stays, with what was flushed.
Killed ==
  /\ Running
  /\ tool' = [tool EXCEPT !.stage = "off", !.at = 0, !.missing = {}]
  /\ Put(tool.session, Over(Finish(ops[tool.session], "none")))
  /\ validated' = "none" /\ UNCHANGED <<node, evidence>>

\* The evidence stream fails (external).
DiskFails ==
  /\ Running /\ tool.stream = "open"
  /\ tool' = [tool EXCEPT !.stream = "failed"]
  /\ UNCHANGED <<vars, evidence>>

ToolNext ==
  \/ Launch \/ OnToolCallback \/ OnResult \/ Killed \/ DiskFails
  \/ Network /\ UNCHANGED toolVars

ToolSpec == ToolInit /\ [][ToolNext]_allVars

-----------------------------------------------------------------------------
(* What must hold. *)

HasEvent(s, event) == \E e \in evidence : e.session = s /\ e.event = event

\* The type invariant, the chain client's included: the place in a snapshot,
\* and an exit code exactly when the process has exited.
ToolTypeOK ==
  /\ TypeOK
  /\ tool.session \in Calls \cup {0}
  /\ tool.exit # "none" <=> tool.stage = "exited"
  /\ tool.stage \in {"before", "after"} => tool.at \in DOMAIN Snapshot(tool.mode)
  /\ tool.missing \subseteq {Planned[i] : i \in DOMAIN Planned}
  /\ \A e \in evidence : e.session \in Calls

\* Whatever was handed to the network was authorised first, in evidence that
\* is still there after a crash or a disk failure, on the testnet, by a
\* process with all of its gates passed (TESTNET_ACCEPTANCE.md:15-19,
\* testnet_acceptance.cpp:819-828, 1035-1046, 1189-1204).
WritesAreAuthorized ==
  \A s \in Calls : ops[s].sent # <<>> =>
    /\ HasEvent(s, "session_started") /\ HasEvent(s, "write_authorized")
    /\ node.chain = expected_chain_id
    /\ s = tool.session =>
         Writes(tool.mode) /\ {"execute", "confirm"} \subseteq tool.given

\* A write mode that exits with success did what it was asked: every planned
\* step was approved, the operation was mined with success
\* (testnet_acceptance.cpp:874-901, 1124-1160).
SuccessIsReal ==
  tool.exit = "success" =>
    /\ tool.mode = "approve" => \A i \in DOMAIN Planned : Planned[i] \in node.ever
    /\ tool.mode = "position_execute" =>
         \E m \in node.mined : m.tx.op = tool.session /\ m.status = "success"

\* A session that exits with a working evidence stream leaves the hash of each
\* transaction that it may have broadcast (TESTNET_ACCEPTANCE.md:193-195,
\* testnet_acceptance.cpp:852-873, 1071-1076, 1089-1123), but for those whose
\* hash the chain client does not report.
OutcomeIsAuditable ==
  tool.stage = "exited" /\ tool.stream = "open" =>
    \A tx \in Broadcast(tool.session) \ ops[tool.session].garbled :
      Event(tool, "transaction", tx) \in evidence

=============================================================================
