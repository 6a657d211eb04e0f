------------------------------ MODULE LidoKeys ------------------------------
(***************************************************************************)
(* How an oracle tells Lido's validators from the others: it asks the Keys *)
(* API for the keys in use (providers/keys/client.py), compares their      *)
(* number with the contract's and looks their validators up on the         *)
(* consensus layer, by node operator (web3py/extensions/lido_validators.py *)
(* for all modules, staking_modules/common/distribution.py for one).       *)
(*                                                                         *)
(* The Keys API is the environment.  Each instance follows the chain at    *)
(* its own pace and may have lost keys, list a key at a second operator of *)
(* its module, list an unused one, or answer for another module.           *)
(***************************************************************************)
EXTENDS Integers, FiniteSets

CONSTANTS
  KapiHost,      \* instances of the Keys API
  LidoKey,
  KeyOperator,   \* pairs <<module id, operator id>>, of each key
  Born,          \* the block an operator is registered in
  RetryCount,    \* retry_total of the client
  MaxHead, MaxFaults   \* bounds of the exploration

KeyOperators == DOMAIN Born
KeyModules == {o[1] : o \in KeyOperators}
AllModules == 0

ASSUME KeysAssumption ==
  /\ KeyOperator \in [LidoKey -> KeyOperators] /\ Born \in [KeyOperators -> Nat]
  /\ IsFiniteSet(LidoKey)
  /\ KeyModules \subseteq Nat \ {AllModules}
  /\ RetryCount \in Nat \ {0} /\ MaxHead \in Nat /\ MaxFaults \in Nat

VARIABLES
  head,        \* the last block
  usedAt,      \* the block the protocol deposits to a key in
  joinedAt,    \* the block from which on the consensus layer has a validator of a key
  api,         \* of an instance: the block it has seen, and its faults
  faults,      \* bound: faults so far
  reading      \* an oracle's search for the validators at its reference block

keysVars == <<head, usedAt, joinedAt, api, faults, reading>>

Never == MaxHead + 1
UsedAt(b) == {k \in LidoKey : usedAt[k] <= b}
JoinedAt(b) == {k \in LidoKey : joinedAt[k] <= b}

NoOperators == [o \in {} |-> {}]

\* A search that has found nothing yet.
Search(outcome, b, module) ==
  [outcome |-> outcome, ref |-> b, module |-> module, tries |-> 0, byOperator |-> NoOperators,
   pending |-> {}, snapshot |-> 0, lost |-> {}]

-----------------------------------------------------------------------------
(* The client *)

Entry(k, o, isUsed) == [key |-> k, operator |-> o, used |-> isUsed]

\* Its answer: what it says of the module asked for, or of all of them.
Answer(h, module) ==
  LET known == UsedAt(api[h].snapshot) \ api[h].lost
      listed == {Entry(k, KeyOperator[k], TRUE) : k \in known}
                  \cup {Entry(r[1], r[2], TRUE) : r \in {q \in api[h].repeated : q[1] \in known}}
                  \cup {Entry(k, KeyOperator[k], FALSE) :
                          k \in api[h].unused \ UsedAt(api[h].snapshot)}
  IN {e \in listed : module = AllModules \/ e.operator[1] = module}

\* _check_used_keys.
CheckUsedKeys(entries) ==
  /\ \A e \in entries : e.used
  /\ \A e, f \in entries : e.key = f.key => e = f

\* Mutant: the number of keys is not compared.
KapiSanityCheck_Off(entries, module, b) == TRUE

\* _kapi_sanity_check, which the keys of a single module do not go through.
KapiSanityCheck(entries, module, b) ==
  module = AllModules => Cardinality(entries) >= Cardinality(UsedAt(b))

\* The module an answer says it is for.
ModuleIs(h, module) == module = AllModules \/ ~api[h].otherModule

Result(h, outcome, byOperator, pending) ==
  [reading EXCEPT !.outcome = outcome, !.byOperator = byOperator, !.pending = pending,
                  !.snapshot = api[h].snapshot, !.lost = api[h].lost]

\* The operators that are looked at: the router's at the block, or those of the answer.
OperatorsOf(h, module, b) ==
  IF module = AllModules THEN {o \in KeyOperators : Born[o] <= b}
  ELSE {o \in KeyOperators : o[1] = module /\ Born[o] <= api[h].snapshot}

\* compute_lido_validators, get_lido_validators_by_node_operators, _get_module_validators.
ByOperator(entries, operators, b) ==
  [o \in operators |-> {e.key : e \in {f \in entries : f.key \in JoinedAt(b) /\ f.operator = o}}]

\* A validator of a module the router does not have at the block, or of an operator that is
\* not in the answer on its module; an operator the router does not have is only skipped.
IsUnknown(e, operators, module) ==
  IF module = AllModules THEN e.operator[1] \notin {o[1] : o \in operators}
  ELSE e.operator \notin operators

\* get_used_lido_keys or get_used_module_operators_keys, with what is made of the answer.
Receive(h) ==
  LET entries == Answer(h, reading.module)
      b == reading.ref
      operators == OperatorsOf(h, reading.module, b)
  IN IF ~ModuleIs(h, reading.module) \/ ~CheckUsedKeys(entries)
     THEN reading' = Result(h, "KAPIInconsistentData", NoOperators, {})
     ELSE IF ~KapiSanityCheck(entries, reading.module, b)
     THEN reading' = Result(h, "CountOfKeysDiffers", NoOperators, {})
     ELSE IF \E e \in entries : e.key \in JoinedAt(b) /\ IsUnknown(e, operators, reading.module)
     THEN reading' = Result(h, "KeyError", NoOperators, {})
     ELSE reading' = Result(h, "validators", ByOperator(entries, operators, b),
                            {e.key : e \in entries} \ JoinedAt(b))

\* _get_with_blockstamp, one turn: any instance may be the first that answers.
Ask(h) ==
  /\ reading.outcome = "reading"
  /\ IF api[h].snapshot >= reading.ref THEN Receive(h)
     ELSE reading' = [reading EXCEPT !.tries = @ + 1,
                        !.outcome = IF reading.tries + 1 < RetryCount THEN @ ELSE "KeysOutdated"]
  /\ UNCHANGED <<head, usedAt, joinedAt, api, faults>>

\* Every instance failed.
NoAnswer ==
  /\ reading.outcome = "reading"
  /\ reading' = [reading EXCEPT !.outcome = "KAPIClientError"]
  /\ UNCHANGED <<head, usedAt, joinedAt, api, faults>>

\* A report for some finalized block, of all modules or of one: the only search explored.
StartReading(b, module) ==
  /\ reading.outcome = "none"
  /\ reading' = Search("reading", b, module)
  /\ UNCHANGED <<head, usedAt, joinedAt, api, faults>>

-----------------------------------------------------------------------------
(* The chain and the Keys API *)

KeysInit ==
  /\ head = 0 /\ faults = 0
  /\ usedAt = [k \in LidoKey |-> Never] /\ joinedAt = [k \in LidoKey |-> Never]
  /\ api = [h \in KapiHost |-> [snapshot |-> 0, lost |-> {}, repeated |-> {}, unused |-> {},
                                otherModule |-> FALSE]]
  /\ reading = Search("none", 0, AllModules)

NewHead == head < MaxHead /\ head' = head + 1 /\ UNCHANGED <<api, faults, reading>>

\* The protocol deposits to a key that makes no validator yet, of an operator there is.
Use(k) ==
  /\ NewHead /\ usedAt[k] = Never /\ joinedAt[k] = Never /\ Born[KeyOperator[k]] <= head
  /\ usedAt' = [usedAt EXCEPT ![k] = head'] /\ UNCHANGED joinedAt

\* A validator joins: of a key in use, or of one its operator deposits to on its own.
Join(k) ==
  /\ NewHead /\ joinedAt[k] = Never
  /\ joinedAt' = [joinedAt EXCEPT ![k] = head'] /\ UNCHANGED usedAt

Index(h) ==
  /\ api[h].snapshot < head
  /\ api' = [api EXCEPT ![h].snapshot = head]
  /\ UNCHANGED <<head, usedAt, joinedAt, faults, reading>>

Faulty(h) ==
  /\ faults < MaxFaults /\ faults' = faults + 1
  /\ UNCHANGED <<head, usedAt, joinedAt, reading>>

LoseKey(h, k) == Faulty(h) /\ api' = [api EXCEPT ![h].lost = @ \cup {k}]
Repeat(h, k, o) ==
  /\ Faulty(h) /\ o # KeyOperator[k] /\ o[1] = KeyOperator[k][1]
  /\ api' = [api EXCEPT ![h].repeated = @ \cup {<<k, o>>}]
ListUnused(h, k) == Faulty(h) /\ api' = [api EXCEPT ![h].unused = @ \cup {k}]
MixUp(h) == Faulty(h) /\ api' = [api EXCEPT ![h].otherModule = TRUE]

KeysNext ==
  \/ \E k \in LidoKey : Use(k) \/ Join(k)
  \/ \E h \in KapiHost : Ask(h) \/ Index(h) \/ MixUp(h)
  \/ \E h \in KapiHost, k \in LidoKey : LoseKey(h, k) \/ ListUnused(h, k)
  \/ \E h \in KapiHost, k \in LidoKey, o \in KeyOperators : Repeat(h, k, o)
  \/ \E b \in 0 .. head, module \in KeyModules \cup {AllModules} : StartReading(b, module)
  \/ NoAnswer

KeysSpec == KeysInit /\ [][KeysNext]_keysVars

-----------------------------------------------------------------------------
(* Properties *)

\* The keys the search is about, and those it found validators of.
Asked == {k \in UsedAt(reading.ref) : reading.module \in {AllModules, KeyOperator[k][1]}}
Found == UNION {reading.byOperator[o] : o \in DOMAIN reading.byOperator}

\* client.py:50-109, lido_validators.py:298-397, distribution.py:133-162: the validators an
\* oracle goes on with are Lido's at its reference block, each with its own operator,
\* whatever the Keys API has seen since.  A validator that is missing was lost by the API;
\* a report on all modules misses one only behind a key used after the reference block.
ValidatorsAreLidos ==
  reading.outcome = "validators" =>
    /\ \A o \in DOMAIN reading.byOperator :
         reading.byOperator[o]
           \subseteq {k \in Asked \cap JoinedAt(reading.ref) : KeyOperator[k] = o}
    /\ (Asked \cap JoinedAt(reading.ref)) \ Found \subseteq reading.lost
    /\ reading.module = AllModules =>
         /\ Asked \ Found \subseteq reading.pending \cup reading.lost
         /\ Cardinality(Asked \ (Found \cup reading.pending))
              <= Cardinality(UsedAt(reading.snapshot) \ UsedAt(reading.ref))
=============================================================================
