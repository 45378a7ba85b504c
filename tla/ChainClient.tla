----------------------------- MODULE ChainClient -----------------------------
(***************************************************************************)
(* src/chain_client.cpp: the JSON-RPC client of the chain.  A call is a    *)
(* chain of requests, each made in the callback of the one before: a read, *)
(* the parallel check of approvals, a transaction (populate, sign, send,   *)
(* wait for the receipt), or a run of approval transactions.  The first    *)
(* request of all is preceded by a check of the node's chain id, which is  *)
(* cached.                                                                 *)
(***************************************************************************)
EXTENDS Integers, FiniteSets, Sequences

CONSTANTS
  Calls,        \* identifiers of the calls, 1 .. n
  Menu,         \* what each may call: the kind, the approval steps, and a set
                \* of flags: stop_on_error, skip_satisfied, a deadline of the
                \* caller's, a route without its account, no signer
  Patience,     \* poll intervals until the deadline
  Networks,     \* the networks the endpoint may belong to
  MaxForeign    \* transactions the account makes elsewhere

ASSUME ChainAssumption ==
  Patience \in Nat \ {0} /\ MaxForeign \in Nat

VARIABLES
  validated,    \* validated_chain
  ops,          \* the calls
  node          \* the node and what the network made of the transactions

vars == <<validated, ops, node>>

expected_chain_id == "testnet"

NoTx == [op |-> 0, step |-> "none", nonce |-> 0]

Idle ==
  [kind |-> "none", stage |-> "idle", part |-> "none", steps |-> <<>>,
   index |-> 1, options |-> {}, left |-> Patience, cancelled |-> "no",
   tx |-> NoTx, reads |-> <<>>, report |-> <<>>, result |-> "none",
   hashes |-> {}, sent |-> <<>>, garbled |-> {}]

Init ==
  /\ validated = "none"
  /\ ops = [o \in Calls |-> Idle]
  /\ node \in [chain : Networks, count : {0}, pool : {{}}, mined : {{}},
               granted : {{}}, ever : {{}}, foreign : {0}]

Put(o, op) == ops' = [ops EXCEPT ![o] = op]

-----------------------------------------------------------------------------
(* The operations, as functions of the call's record. *)

Has(op, option) == option \in op.options

\* Variant: the chain is not validated first.
AwaitUnchecked(op, stage) == [op EXCEPT !.stage = stage, !.part = "method"]

\* A request of ensure_chain's callers: preceded by eth_chainId until a chain
\* was validated.
Await(op, stage) ==
  [op EXCEPT !.stage = stage,
             !.part = IF validated = "none" THEN "chain" ELSE "method"]

\* The handler is called.
Finish(op, result) ==
  [op EXCEPT !.stage = "done", !.part = "none", !.result = result,
             !.index = 1, !.left = 0, !.tx = NoTx]

\* async_run_approvals: finish.
FinishRun(op) ==
  Finish(op, IF \A i \in DOMAIN op.report :
                   op.report[i] \in {"skipped", "confirmed"}
             THEN "success" ELSE "failure")

Report(op, state) ==
  [op EXCEPT !.report = Append(@, state), !.index = @ + 1]

\* fail_current called from next: it fails, and so does every step after it
\* unless the run stops on an error.
FailRest(op) ==
  LET failing == IF Has(op, "stop") THEN 1 ELSE Len(op.steps) - op.index + 1
  IN FinishRun([op EXCEPT !.report = @ \o [i \in 1..failing |-> "failed"]])

\* next.
NextStep(op) ==
  IF op.index > Len(op.steps) THEN FinishRun(op)
  ELSE IF op.cancelled = "yes" \/ (~Has(op, "skip") /\ Has(op, "unrouted"))
  THEN FailRest(op)
  ELSE Await(op, IF Has(op, "skip") THEN "check" ELSE "nonce")

\* fail_current.
StepFailed(op) ==
  IF Has(op, "stop") THEN FinishRun(Report(op, "failed"))
  ELSE NextStep(Report(op, "failed"))

\* submit: a transaction that cannot be routed fails, else it is populated.
Submit(op) ==
  IF Has(op, "unrouted") THEN StepFailed(op) ELSE Await(op, "nonce")

\* execute's callers get an error: the run of approvals fails the step.
ExecuteFails(op) ==
  IF op.kind = "execute" THEN Finish(op, "error") ELSE StepFailed(op)

\* execute's callers get a TransactionExecution, which keeps the hash.
Executed(op, state) ==
  LET kept == [op EXCEPT !.hashes = @ \cup {op.tx}]
  IN IF op.kind = "execute" THEN Finish(kept, state)
     ELSE IF state = "confirmed" THEN NextStep(Report(kept, state))
     ELSE StepFailed(kept)

\* poll.
Poll(op) ==
  IF op.cancelled = "yes" \/ op.left = 0 THEN Executed(op, "unknown")
  ELSE Await(op, "receipt")

\* wait_receipt: without a deadline of the caller's it sets its own.
WaitReceipt(op) ==
  Poll(IF Has(op, "deadline") THEN op ELSE [op EXCEPT !.left = Patience])

\* check_or_submit's callback.
CheckedStep(op, answer) ==
  IF answer = "satisfied" THEN NextStep(Report(op, "skipped"))
  ELSE Submit(op)

\* Variant: a lost answer to the submission is a definite error.
FailedDefinite(op, how) ==
  CASE op.stage \in {"chain", "read"} -> Finish(op, "error")
    [] op.stage = "check" -> CheckedStep(op, "failed")
    [] op.stage \in {"nonce", "gas_price", "estimate", "send"} ->
         ExecuteFails(op)
    [] op.stage = "receipt" -> Executed(op, "unknown")

\* The callback of a request that failed: the transport's error ("lost"), or
\* an answer that parse_response or a decoder refuses ("refused").  A failed
\* check falls through to the send path, a lost submission to the receipt.
Failed(op, how) ==
  CASE op.stage \in {"chain", "read"} -> Finish(op, "error")
    [] op.stage = "check" -> CheckedStep(op, "failed")
    [] op.stage = "send" /\ op.part = "method" /\ how = "lost" ->
         WaitReceipt(op)
    [] op.stage \in {"nonce", "gas_price", "estimate", "send"} ->
         ExecuteFails(op)
    [] op.stage = "receipt" -> Executed(op, "unknown")

Failures == {"lost", "refused"}

\* Variant: a read that failed is not counted down.
CheckedUncounted(op, i, answer) ==
  LET reads == [op.reads EXCEPT ![i] = answer]
      read == [op EXCEPT !.reads = reads]
  IN IF \E j \in DOMAIN reads : reads[j] \in {"chain", "method", "error"} THEN read
     ELSE Finish(read, "checked")

\* State::complete of async_check_approvals: the handler is called when no
\* read remains, with an error if any of them failed.
Checked(op, i, answer) ==
  LET reads == [op.reads EXCEPT ![i] = answer]
      read == [op EXCEPT !.reads = reads]
  IN IF \E j \in DOMAIN reads : reads[j] \in {"chain", "method"} THEN read
     ELSE Finish(read, IF \E j \in DOMAIN reads : reads[j] = "error"
                       THEN "error" ELSE "checked")

\* Variant: duplicates stay.
UniqueNot(steps) == steps

\* The unique steps of async_run_approvals, in their order.
Unique(steps) ==
  LET unique[n \in 0..Len(steps)] ==
        IF n = 0 THEN <<>>
        ELSE IF \E j \in 1..(n - 1) : steps[j] = steps[n] THEN unique[n - 1]
        ELSE Append(unique[n - 1], steps[n])
  IN unique[Len(steps)]

\* A method of ChainClient is called.  Writes need a signer.
Called(kind, steps, options) ==
  LET op == [Idle EXCEPT !.kind = kind, !.options = options]
      first == IF validated = "none" THEN "chain" ELSE "method"
  IN CASE kind \in {"execute", "approvals"} /\ Has(op, "unsigned") ->
            Finish(op, "error")
       [] kind = "chain" -> [op EXCEPT !.stage = "chain", !.part = "method"]
       [] kind = "read" -> Await(op, "read")
       [] kind = "checks" /\ steps = <<>> -> Finish(op, "checked")
       [] kind = "checks" /\ steps # <<>> ->
            [op EXCEPT !.stage = "checks", !.steps = steps,
                       !.reads = [i \in DOMAIN steps |-> first]]
       [] kind = "execute" -> Await(op, "nonce")
       [] kind = "approvals" -> NextStep([op EXCEPT !.steps = Unique(steps)])

-----------------------------------------------------------------------------
(* The callbacks of the requests and of the timer. *)

\* The chain must be the configured one.
Trusted(chain) == chain = expected_chain_id

\* ensure_chain: the first trusted answer is cached.
OnChainId(o) ==
  LET op == ops[o]
  IN /\ op.part = "chain"
     /\ \/ /\ \E how \in Failures : Put(o, Failed(op, how))
           /\ UNCHANGED validated
        \/ /\ Trusted(node.chain)
           /\ validated' = node.chain
           /\ Put(o, [op EXCEPT !.part = "method"])
     /\ UNCHANGED node

Answered(o, stage) == ops[o].stage = stage /\ ops[o].part = "method"

\* async_chain_id reports either network, and caches nothing.
OnRawChainId(o) ==
  /\ Answered(o, "chain")
  /\ \/ Put(o, Failed(ops[o], "refused"))
     \/ /\ node.chain \in {"testnet", "mainnet"}
        /\ Put(o, Finish(ops[o], node.chain))
  /\ UNCHANGED <<validated, node>>

\* string_method and call, for their callers outside.
OnRead(o) ==
  /\ Answered(o, "read")
  /\ \/ Put(o, Failed(ops[o], "refused"))
     \/ Put(o, Finish(ops[o], "read"))
  /\ UNCHANGED <<validated, node>>

\* The reads of async_check_approvals are answered in any order.
OnApprovalRead(o) ==
  LET op == ops[o]
  IN /\ op.stage = "checks"
     /\ \E i \in DOMAIN op.reads :
          \/ /\ op.reads[i] \in {"chain", "method"}
             /\ Put(o, Checked(op, i, "error"))
             /\ UNCHANGED validated
          \/ /\ op.reads[i] = "chain" /\ Trusted(node.chain)
             /\ validated' = node.chain
             /\ Put(o, [op EXCEPT !.reads[i] = "method"])
          \/ /\ op.reads[i] = "method"
             /\ Put(o, Checked(op, i, IF op.steps[i] \in node.granted
                                    THEN "satisfied" ELSE "missing"))
             /\ UNCHANGED validated
     /\ UNCHANGED node

\* check_or_submit.
OnCheck(o) ==
  LET op == ops[o]
      read == IF op.steps[op.index] \in node.granted THEN "satisfied" ELSE "missing"
  IN /\ Answered(o, "check")
     /\ \E answer \in {"failed", read} : Put(o, CheckedStep(op, answer))
     /\ UNCHANGED <<validated, node>>

\* eth_getTransactionCount of the "pending" block.
PendingNonce ==
  CHOOSE n \in node.count..(node.count + Cardinality(node.pool)) :
    /\ \A tx \in node.pool : tx.nonce # n
    /\ \A k \in node.count..(n - 1) : \E tx \in node.pool : tx.nonce = k

\* populate: the nonce, the gas price and the estimate are read one after the
\* other.  A signer that fails or throws ends the call as a failed read does.
OnPopulate(o) ==
  LET op == ops[o]
      step == IF op.kind = "execute" THEN "op" ELSE op.steps[op.index]
  IN /\ \/ /\ op.stage \in {"nonce", "gas_price", "estimate"}
           /\ op.part = "method"
           /\ Put(o, Failed(op, "refused"))
        \/ /\ Answered(o, "nonce")
           /\ Put(o, [Await(op, "gas_price") EXCEPT
                      !.tx = [op |-> o, step |-> step, nonce |-> PendingNonce]])
        \/ Answered(o, "gas_price") /\ Put(o, Await(op, "estimate"))
        \/ Answered(o, "estimate") /\ Put(o, Await(op, "send"))
     /\ UNCHANGED <<validated, node>>

\* The node keeps one transaction of a nonce, and none of a used one.
Accepts(tx) == tx.nonce >= node.count /\ \A t \in node.pool : t.nonce # tx.nonce

\* send_raw.  A proxy may answer for a node that has taken the transaction,
\* with something that is no result; sent and garbled are the history of it.
OnSend(o) ==
  LET op == [ops[o] EXCEPT !.sent = Append(@, ops[o].tx)]
      garbled == [op EXCEPT !.garbled = @ \cup {op.tx}]
  IN /\ Answered(o, "send")
     /\ \/ /\ Accepts(op.tx)
           /\ node' = [node EXCEPT !.pool = @ \cup {op.tx}]
           /\ \/ Put(o, WaitReceipt(op))
              \/ Put(o, Failed(op, "lost"))
              \/ Put(o, Failed(garbled, "refused"))
        \/ UNCHANGED node /\ \E how \in Failures : Put(o, Failed(op, how))
     /\ UNCHANGED validated

\* What the node says of a transaction: nothing, as when it was not mined or
\* the node lags behind, or its receipt, with or without a status in it.
Receipts(tx) ==
  {"null"} \cup UNION {{m.status, "no_status"} : m \in {x \in node.mined : x.tx = tx}}

\* Variant: any receipt confirms.
PolledAny(op, receipt) ==
  CASE receipt = "null" /\ op.left > 1 ->
         [op EXCEPT !.stage = "timer", !.part = "none"]
    [] receipt = "null" /\ op.left <= 1 -> Executed(op, "unknown")
    [] OTHER -> Executed(op, "confirmed")

\* The answer to a poll.
Polled(op, receipt) ==
  CASE receipt = "null" /\ op.left > 1 ->
         [op EXCEPT !.stage = "timer", !.part = "none"]
    [] receipt = "null" /\ op.left <= 1 -> Executed(op, "unknown")
    [] receipt = "success" -> Executed(op, "confirmed")
    [] receipt = "revert" -> Executed(op, "reverted")
    [] receipt = "no_status" -> Executed(op, "unknown")

OnReceipt(o) ==
  LET op == ops[o]
  IN /\ Answered(o, "receipt")
     /\ \/ Put(o, Failed(op, "lost"))
        \/ \E receipt \in Receipts(op.tx) : Put(o, Polled(op, receipt))
     /\ UNCHANGED <<validated, node>>

\* The poll timer, on time or late.
OnPollTimer(o) ==
  /\ ops[o].stage = "timer"
  /\ \E left \in 0..(ops[o].left - 1) : Put(o, Poll([ops[o] EXCEPT !.left = left]))
  /\ UNCHANGED <<validated, node>>

Callback(o) ==
  \/ OnChainId(o) \/ OnRawChainId(o) \/ OnRead(o)
  \/ OnApprovalRead(o) \/ OnCheck(o) \/ OnPopulate(o)
  \/ OnSend(o) \/ OnReceipt(o) \/ OnPollTimer(o)

-----------------------------------------------------------------------------
(* The network (external). *)

\* A transaction is mined, which takes its nonce; a status of 1 grants.
Mine(tx, status) ==
  /\ tx \in node.pool /\ tx.nonce = node.count
  /\ LET granted == IF status = "success" THEN {tx.step} ELSE {}
     IN node' = [node EXCEPT !.count = @ + 1,
                             !.pool = @ \ {tx},
                             !.mined = @ \cup {[tx |-> tx, status |-> status]},
                             !.granted = @ \cup granted,
                             !.ever = @ \cup granted]
  /\ UNCHANGED <<validated, ops>>

\* The account makes a transaction elsewhere: a nonce is taken, and an
\* approval may be revoked.
Foreign ==
  /\ node.foreign < MaxForeign
  /\ \E revoked \in {{}} \cup {{s} : s \in node.granted} :
       node' = [node EXCEPT !.foreign = @ + 1, !.count = @ + 1,
                            !.pool = {tx \in @ : tx.nonce > node.count},
                            !.granted = @ \ revoked]
  /\ UNCHANGED <<validated, ops>>

Network ==
  \/ \E tx \in node.pool, status \in {"success", "revert"} : Mine(tx, status)
  \/ Foreign

-----------------------------------------------------------------------------
(* The client, with callers that keep the result. *)

Call(o) ==
  /\ ops[o].stage = "idle" /\ \A p \in Calls : p < o => ops[p].stage # "idle"
  /\ \E call \in Menu[o] : Put(o, Called(call.kind, call.steps, call.options))
  /\ UNCHANGED <<validated, node>>

\* The stop token of the context: requests under way end as lost, the poll
\* timer runs on.
Cancel(o) ==
  /\ ops[o].stage \notin {"idle", "done"} /\ ops[o].cancelled = "no"
  /\ Put(o, [ops[o] EXCEPT !.cancelled = "yes"])
  /\ UNCHANGED <<validated, node>>

Next ==
  \/ \E o \in Calls : Call(o) \/ Callback(o) \/ Cancel(o)
  \/ Network

Spec == Init /\ [][Next]_vars

\* The transport answers every request or fails it at its deadline, timers
\* fire; the network may stop.
FairSpec == Spec /\ WF_vars(\E o \in Calls : Callback(o))

-----------------------------------------------------------------------------
(* What must hold. *)

Steps ==
  UNION {{call.steps[i] : i \in DOMAIN call.steps} : call \in UNION {Menu[o] : o \in Calls}}

Tx == [op : Calls, step : Steps \cup {"op"}, nonce : Nat]

\* The type invariant: in particular a chain that was cached is the configured
\* one, and the run's index stays in its list.
TypeOK ==
  /\ validated \in {"none", expected_chain_id}
  /\ \A o \in Calls :
       /\ ops[o].part \in {"none", "chain", "method"}
       /\ ops[o].left \in 0..Patience
       /\ ops[o].stage = "check" => ops[o].index \in DOMAIN ops[o].steps
       /\ ops[o].hashes \subseteq Tx
  /\ node.pool \subseteq Tx

Done(o) == ops[o].stage = "done"

\* Transactions of call o that the network has or had.
Broadcast(o) == {tx \in node.pool \cup {m.tx : m \in node.mined} : tx.op = o}

\* A reported outcome is what the chain decided: confirmed transactions were
\* mined with success, reverted ones without, whoever else uses the account's
\* nonces (chain_client.cpp:296-300, 476-484, 557-572), and a successful run
\* means that each of its steps was approved on the chain at some time,
\* although a check that fails falls through (chain_client.cpp:899-908,
\* 972-1000).
OutcomeIsTheChains ==
  \A o \in Calls : Done(o) =>
    /\ ops[o].result = "confirmed" =>
         \E m \in node.mined : m.tx \in ops[o].hashes /\ m.status = "success"
    /\ ops[o].result = "reverted" =>
         \E m \in node.mined : m.tx \in ops[o].hashes /\ m.status = "revert"
    /\ ops[o].result = "success" =>
         \A i \in DOMAIN ops[o].steps : ops[o].steps[i] \in node.ever

\* The hash is kept as long as the transaction may have been broadcast, even
\* when the answer is lost (types/chain.hpp:91-93, chain_client.cpp:408-424),
\* with one exception: the node has it and the answer was no JSON-RPC result.
HashIsKept ==
  \A o \in Calls : Done(o) => Broadcast(o) \ ops[o].garbled \subseteq ops[o].hashes

\* Nothing is ever resent, and a step is sent once even if the plan names it
\* twice (chain_client.cpp:393-426, 864-871).
SentOnce ==
  \A o \in Calls : \A i, j \in DOMAIN ops[o].sent :
    ops[o].sent[i].step = ops[o].sent[j].step => i = j

\* Nothing is sent to a network other than the configured one, whichever of
\* the calls validates it (chain_client.cpp:179-201).
SentToExpectedChain ==
  \A o \in Calls : ops[o].sent # <<>> => node.chain = expected_chain_id

\* Every call is answered: the polls end at the deadline, the parallel reads
\* are counted down, the run ends (chain_client.cpp:467-500, 799-812).
Completes == []<>(\A o \in Calls : ops[o].stage \in {"idle", "done"})

=============================================================================
