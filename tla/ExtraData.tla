------------------------------ MODULE ExtraData ------------------------------
(***************************************************************************)
(* How the numbers of exited validators reach the staking router: those of *)
(* the modules with the main data of a report (accounting.py), those of    *)
(* the node operators with its third phase (third_phase/extra_data.py,     *)
(* services/validator_state.py), which may need several transactions and   *)
(* may be cut off by the end of the frame after any of them.               *)
(*                                                                         *)
(* AccountingOracle and StakingRouter are the environment.  A hash is      *)
(* taken for what it commits to: the items of a transaction followed by    *)
(* those of every later one.                                               *)
(***************************************************************************)
EXTENDS Integers, FiniteSetsExt, SequencesExt

CONSTANTS
  Operators,   \* pairs <<module id, operator id>>
  MaxNodeOps,  \* max_no_in_payload_count
  MaxItems,    \* max_items_count_per_tx
  MaxExited, MaxFrames   \* bounds of the exploration

ASSUME ExtraDataAssumption ==
  /\ Operators \subseteq Nat \X Nat /\ IsFiniteSet(Operators)
  /\ MaxNodeOps \in Nat \ {0} /\ MaxItems \in Nat \ {0} /\ MaxExited \in Nat /\ MaxFrames \in Nat

VARIABLES
  exited,      \* exited validators of an operator on the consensus layer
  seen,        \* at the reference slot of the frame: exited, and the router
  router,      \* total_exited_validators of operators and modules, in the router
  processing,  \* the processing state of AccountingOracle
  frames       \* bound: frames so far

dataVars == <<exited, seen, router, processing, frames>>

Modules == {o[1] : o \in Operators}
Of(m) == {o \in Operators : o[1] = m}
OfModule(counts, m) == MapThenSumSet(LAMBDA o : counts[o], Of(m))

-----------------------------------------------------------------------------
(* The report *)

\* Mutant: operators are looked at only in modules that changed.
NewlyExited_OfChangedModules ==
  {o \in Operators : seen.exited[o] # seen.router.operators[o]
                     /\ OfModule(seen.exited, o[1]) # seen.router.modules[o[1]]}

\* get_lido_newly_exited_validators, get_exited_lido_validators.
NewlyExited == {o \in Operators : seen.exited[o] # seen.router.operators[o]}

\* _get_newly_exited_validators_by_modules.
ChangedModules == {m \in Modules : OfModule(seen.exited, m) # seen.router.modules[m]}

Before(o, p) == o[1] < p[1] \/ (o[1] = p[1] /\ o[2] < p[2])

\* The place of an operator is after as many as come before it.
Sorted(S) ==
  [i \in 1 .. Cardinality(S) |-> CHOOSE o \in S : Cardinality({p \in S : Before(p, o)}) = i - 1]

Batched(s, n) ==
  [i \in 1 .. (Len(s) + n - 1) \div n |-> SubSeq(s, (i - 1) * n + 1, Min({i * n, Len(s)}))]

\* build_validators_payloads: by module, then by operator, MaxNodeOps in each; what is not
\* of the module of the i-th operator begins another.
BuildPayloads(validators) ==
  LET s == Sorted(DOMAIN validators)
      payload(i) ==
        SubSeq(s, i, Max({j \in i .. Len(s) : s[j][1] = s[i][1] /\ j < i + MaxNodeOps}))
      payloads[i \in 1 .. Len(s) + 1] ==
        IF i > Len(s) THEN <<>>
        ELSE <<[operators |-> payload(i),
                counts |-> [j \in DOMAIN payload(i) |-> validators[payload(i)[j]]]]>>
               \o payloads[i + Len(payload(i))]
  IN payloads[1]

BuildTransactions(payloads) ==
  Batched([i \in DOMAIN payloads |-> [index |-> i - 1, payload |-> payloads[i]]], MaxItems)

\* Mutant: a transaction holds the hash of the one before.
AddHashes_Forward(txs) ==
  [i \in DOMAIN txs |-> [items |-> txs[i], next |-> SubSeq(txs, 1, i - 1)]]

\* add_hashes_to_transactions: each holds the hash of the next one, the last one none.
AddHashes(txs) ==
  [i \in DOMAIN txs |-> [items |-> txs[i], next |-> SubSeq(txs, i + 1, Len(txs))]]

Keccak(tx) == <<tx.items>> \o tx.next

\* collect: the hash of the first transaction, and how many items there are.
Payloads == BuildPayloads([o \in NewlyExited |-> seen.exited[o]])
HashedTransactions == AddHashes(BuildTransactions(Payloads))
DataHash == IF HashedTransactions = <<>> THEN <<>> ELSE Keccak(HashedTransactions[1])
ItemsCount == Len(Payloads)

-----------------------------------------------------------------------------
(* The contracts *)

NoReport == [main |-> FALSE, submitted |-> FALSE, hash |-> <<>>, count |-> 0, done |-> 0,
             last |-> <<0, -1>>]

ExtraInit ==
  /\ exited = [o \in Operators |-> 0]
  /\ router = [operators |-> exited, modules |-> [m \in Modules |-> 0]]
  /\ seen = [exited |-> exited, router |-> router]
  /\ processing = NoReport /\ frames = 1

Leave(o) ==
  /\ exited[o] < MaxExited /\ exited' = [exited EXCEPT ![o] = @ + 1]
  /\ UNCHANGED <<seen, router, processing, frames>>

\* The next reference slot, which is the deadline of what the frame before had to submit.
NextFrame ==
  /\ frames < MaxFrames /\ frames' = frames + 1
  /\ seen' = [exited |-> exited, router |-> router] /\ processing' = NoReport
  /\ UNCHANGED <<exited, router>>

SubmitMainData ==
  /\ ~processing.main
  /\ processing' = [NoReport EXCEPT !.main = TRUE, !.hash = DataHash, !.count = ItemsCount]
  /\ router' = [router EXCEPT !.modules =
       [m \in Modules |-> IF m \in ChangedModules THEN OfModule(seen.exited, m) ELSE @[m]]]
  /\ UNCHANGED <<exited, seen, frames>>

Open == processing.main /\ ~processing.submitted

\* submit_report_extra_data_empty.
SubmitEmpty ==
  /\ Open /\ processing.count = 0 /\ ItemsCount = 0
  /\ processing' = [processing EXCEPT !.submitted = TRUE]
  /\ UNCHANGED <<exited, seen, router, frames>>

\* What the contract demands of the next transaction of the chain.
Acceptable(tx) ==
  LET item(i) == tx.items[i].payload
      lastBefore(i) == IF i = 1 THEN processing.last ELSE Last(item(i - 1).operators)
  IN /\ Open /\ processing.count > 0 /\ Keccak(tx) = processing.hash
     /\ \A i \in DOMAIN tx.items :
          /\ tx.items[i].index = processing.done + i - 1
          /\ Len(item(i).operators) \in 1 .. MaxNodeOps
          /\ Before(lastBefore(i), Head(item(i).operators))
          /\ \A j \in DOMAIN item(i).operators :
               /\ item(i).counts[j] >= router.operators[item(i).operators[j]]
               /\ j > 1 => /\ Before(item(i).operators[j - 1], item(i).operators[j])
                           /\ item(i).operators[j - 1][1] = item(i).operators[j][1]
     /\ tx.next = <<>> => processing.done + Len(tx.items) = processing.count

\* submit_report_extra_data_list.
SubmitExtraData(tx) ==
  LET updates == UNION {{<<item.payload.operators[j], item.payload.counts[j]>> :
                           j \in DOMAIN item.payload.operators} : item \in ToSet(tx.items)}
  IN /\ Acceptable(tx)
     /\ processing' = [processing EXCEPT !.hash = tx.next, !.submitted = tx.next = <<>>,
                                         !.done = @ + Len(tx.items),
                                         !.last = Last(Last(tx.items).payload.operators)]
     /\ router' = [router EXCEPT !.operators =
          [o \in Operators |-> IF \E u \in updates : u[1] = o
                               THEN (CHOOSE u \in updates : u[1] = o)[2] ELSE @[o]]]
     /\ UNCHANGED <<exited, seen, frames>>

ExtraNext ==
  \/ \E o \in Operators : Leave(o)
  \/ NextFrame \/ SubmitMainData \/ SubmitEmpty
  \/ \E i \in DOMAIN HashedTransactions : SubmitExtraData(HashedTransactions[i])

ExtraSpec == ExtraInit /\ [][ExtraNext]_dataVars

-----------------------------------------------------------------------------
(* Properties *)

\* accounting.py:270-289, validator_state.py:28-43: once the extra data of a report is
\* complete the router knows every operator's exited validators as of the reference slot and
\* each module's is their sum, whatever of earlier frames was missed or cut off half-way.
RouterCatchesUp ==
  processing.submitted =>
    /\ router.operators = seen.exited
    /\ \A m \in Modules : router.modules[m] = OfModule(router.operators, m)

\* extra_data.py:84-146: until it is complete, the contract accepts exactly one of the
\* transactions of the report (or the empty one), so that an oracle that sends all of them
\* in order, after any crash and next to others, gets all of them in.
ExtraDataGoesOn ==
  Open => IF processing.count = 0 THEN ItemsCount = 0
          ELSE Cardinality({i \in DOMAIN HashedTransactions :
                              Acceptable(HashedTransactions[i])}) = 1

\* Extra data never gets stuck half-way, and says all there is to say when it is through.
ExtraDataIsComplete == ExtraDataGoesOn /\ RouterCatchesUp
=============================================================================
