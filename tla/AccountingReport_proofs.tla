---------------------- MODULE AccountingReport_proofs ----------------------
(***************************************************************************)
(* Parts of the accounting report: the keys it counts, for every number of *)
(* keys, operators, blocks, retries, instances of the Keys API and faults; *)
(* the fees of staking vaults, for any vaults, rates, frames and histories *)
(* of the hub; the value of vaults, for any vaults, keys and deposits; the *)
(* balances and the rebase of Lido's validators, for any keys, deposits    *)
(* and withdrawals; the slashing reserve, for any balance, penalties, exit *)
(* queue and window; and the border of bunker mode and the penalties that  *)
(* switch it on, for any validators, exit queues, frames and reports.      *)
(***************************************************************************)
EXTENDS LidoKeys, VaultFees, VaultValue, ClRebase, VaultReserve, Slashings, Sums, SequenceTheorems

-----------------------------------------------------------------------------
(* The keys that are counted *)

Instance ==
  [snapshot : 0 .. MaxHead, lost : SUBSET LidoKey,
   repeated : SUBSET (LidoKey \X KeyOperators), unused : SUBSET LidoKey, otherModule : BOOLEAN]

\* Keys by operator.
Groups == UNION {[O -> SUBSET LidoKey] : O \in SUBSET KeyOperators}

Reading ==
  [outcome : {"none", "reading", "validators", "KAPIInconsistentData", "CountOfKeysDiffers",
              "KeyError", "KeysOutdated", "KAPIClientError"},
   ref : 0 .. MaxHead, module : KeyModules \cup {AllModules}, tries : Nat,
   byOperator : Groups,
   pending : SUBSET LidoKey, snapshot : 0 .. MaxHead, lost : SUBSET LidoKey]

KeysTypeOK ==
  /\ head \in 0 .. MaxHead
  /\ usedAt \in [LidoKey -> 0 .. Never] /\ joinedAt \in [LidoKey -> 0 .. Never]
  /\ api \in [KapiHost -> Instance] /\ reading \in Reading

\* Nothing is of a block to come; a key is used by an operator there is, before a validator
\* of it joins.
Past ==
  \A k \in LidoKey :
    /\ usedAt[k] = Never \/ (usedAt[k] <= head /\ Born[KeyOperator[k]] <= usedAt[k])
    /\ joinedAt[k] = Never \/ joinedAt[k] <= head
    /\ joinedAt[k] = Never \/ usedAt[k] = Never \/ usedAt[k] < joinedAt[k]

\* An instance lags behind the chain, and repeats keys within their module.
ApiIsOfTheChain ==
  \A h \in KapiHost :
    /\ api[h].snapshot <= head
    /\ \A r \in api[h].repeated : r[1] \in LidoKey /\ r[2][1] = KeyOperator[r[1]][1]

ReadingIsOfTheChain ==
  reading.ref <= head /\ reading.snapshot <= head

KeysBase == KeysTypeOK /\ Past /\ ApiIsOfTheChain /\ ReadingIsOfTheChain

KeysInv == KeysBase /\ ValidatorsAreLidos
-----------------------------------------------------------------------------
(* What an answer that is taken is made of *)

\* The keys that an instance has of a module, or of all.
KeysOf(h, module) ==
  {k \in UsedAt(api[h].snapshot) \ api[h].lost : module = AllModules \/ KeyOperator[k][1] = module}

\* An answer that passes the check has each of these keys once, with its operator.
LEMMA CheckedAnswer ==
  ASSUME KeysBase, NEW h \in KapiHost, NEW m, CheckUsedKeys(Answer(h, m))
  PROVE  Answer(h, m) = {Entry(k, KeyOperator[k], TRUE) : k \in KeysOf(h, m)}
<1> DEFINE known == UsedAt(api[h].snapshot) \ api[h].lost
           right == {Entry(k, KeyOperator[k], TRUE) : k \in KeysOf(h, m)}
<1>1. right \subseteq Answer(h, m)
  BY DEF KeysOf, Answer, Entry
<1>2. ASSUME NEW e \in Answer(h, m) PROVE e \in right
<2>1. e.used /\ (m = AllModules \/ e.operator[1] = m)
  BY <1>2 DEF CheckUsedKeys, Answer
<2>2. CASE \E k \in known : e = Entry(k, KeyOperator[k], TRUE)
<3>1. PICK k \in known : e = Entry(k, KeyOperator[k], TRUE)
  BY <2>2
<3>2. k \in KeysOf(h, m)
  BY <2>1, <3>1 DEF KeysOf, Entry
<3> QED
  BY <3>1, <3>2
<2>3. CASE \E r \in api[h].repeated : r[1] \in known /\ e = Entry(r[1], r[2], TRUE)
<3>1. PICK r \in api[h].repeated : r[1] \in known /\ e = Entry(r[1], r[2], TRUE)
  BY <2>3
<3>2. r[2][1] = KeyOperator[r[1]][1]
  BY <3>1 DEF KeysBase, ApiIsOfTheChain
<3>3. r[1] \in KeysOf(h, m)
  BY <2>1, <3>1, <3>2 DEF KeysOf, Entry
<3>4. Entry(r[1], KeyOperator[r[1]], TRUE) \in right
  BY <3>3
<3>5. e = Entry(r[1], KeyOperator[r[1]], TRUE)
  BY <1>1, <3>1, <3>4 DEF CheckUsedKeys, Entry
<3> QED
  BY <3>4, <3>5
<2>4. CASE \E k \in api[h].unused : e = Entry(k, KeyOperator[k], FALSE)
  BY <2>1, <2>4 DEF Entry
<2>5. api[h].repeated \subseteq LidoKey \X KeyOperators
  BY DEF KeysBase, KeysTypeOK, Instance
<2> QED
  BY <1>2, <2>2, <2>3, <2>4, <2>5 DEF Answer
<1> QED
  BY <1>1, <1>2

\* As many entries as keys.
LEMMA AsManyKeys ==
  ASSUME NEW K \in SUBSET LidoKey
  PROVE  /\ IsFiniteSet(K)
         /\ Cardinality({Entry(k, KeyOperator[k], TRUE) : k \in K}) = Cardinality(K)
<1> DEFINE E == {Entry(k, KeyOperator[k], TRUE) : k \in K}
           f == [k \in K |-> Entry(k, KeyOperator[k], TRUE)]
<1>1. IsFiniteSet(K)
  BY KeysAssumption, FS_Subset
<1>2. f \in Bijection(K, E)
<2>1. \A k, l \in K : f[k] = f[l] => k = l
  BY DEF Entry
<2>2. f \in [K -> E] /\ \A e \in E : \E k \in K : f[k] = e
<3>1. \A k \in K : f[k] = Entry(k, KeyOperator[k], TRUE) /\ f[k] \in E
  BY Zenon
<3>2. f \in [K -> E]
  BY Zenon
<3>3. ASSUME NEW e \in E PROVE \E k \in K : f[k] = e
  BY <3>1, Zenon
<3> QED
  BY <3>2, <3>3, Zenon
<2> HIDE DEF f, E
<2>3. f \in Injection(K, E)
  BY <2>1, <2>2 DEF Injection, IsInjective
<2>4. f \in Surjection(K, E)
  BY <2>2 DEF Surjection
<2> QED
  BY <2>3, <2>4 DEF Bijection
<1>3. ExistsBijection(K, E)
  BY <1>2 DEF ExistsBijection
<1> QED
  BY <1>1, <1>3, FS_Bijection

\* A set of keys as large as another one makes up for what it has not with what is new.
LEMMA NewForMissing ==
  ASSUME NEW S \in SUBSET LidoKey, NEW U \in SUBSET S, NEW K \in SUBSET S,
         Cardinality(K) >= Cardinality(U)
  PROVE  Cardinality(U \ K) <= Cardinality(S \ U)
<1>1. IsFiniteSet(S) /\ IsFiniteSet(U) /\ IsFiniteSet(K)
  BY KeysAssumption, FS_Subset
<1>2. /\ Cardinality(U \ K) = Cardinality(U) - Cardinality(U \cap K)
      /\ Cardinality(K \ U) = Cardinality(K) - Cardinality(K \cap U)
  BY <1>1, FS_Difference
<1>3. U \cap K = K \cap U
  OBVIOUS
<1>4. IsFiniteSet(S \ U) /\ K \ U \in SUBSET (S \ U)
  BY <1>1, FS_Difference
<1>5. Cardinality(K \ U) <= Cardinality(S \ U)
  BY <1>4, FS_Subset
<1>6. /\ Cardinality(U) \in Nat /\ Cardinality(K) \in Nat /\ Cardinality(U \cap K) \in Nat
      /\ Cardinality(S \ U) \in Nat
  BY <1>1, <1>4, FS_CardinalityType, FS_Intersection
<1> QED
  BY <1>2, <1>3, <1>5, <1>6

-----------------------------------------------------------------------------
(* The steps of reading the keys *)

ChainStep == \E k \in LidoKey : Use(k) \/ Join(k)
ApiStep ==
  \/ \E h \in KapiHost : Index(h) \/ MixUp(h)
  \/ \E h \in KapiHost, k \in LidoKey : LoseKey(h, k) \/ ListUnused(h, k)
  \/ \E h \in KapiHost, k \in LidoKey, o \in KeyOperators : Repeat(h, k, o)
OracleStep ==
  \/ \E h \in KapiHost : Ask(h)
  \/ NoAnswer
  \/ \E b \in 0 .. head, m \in KeyModules \cup {AllModules} : StartReading(b, m)

LEMMA KeysNextSplit ==
  ASSUME KeysNext PROVE ChainStep \/ ApiStep \/ OracleStep
BY DEF KeysNext, ChainStep, ApiStep, OracleStep

\* What the chain was at a block stays.
LEMMA ChainKeepsThePast ==
  ASSUME KeysBase, ChainStep
  PROVE  /\ KeysBase'
         /\ \A b \in 0 .. head : UsedAt(b)' = UsedAt(b) /\ JoinedAt(b)' = JoinedAt(b)
<1>1. /\ head' = head + 1 /\ head < MaxHead /\ UNCHANGED <<api, reading>>
      /\ head \in Nat /\ MaxHead \in Nat
      /\ usedAt \in [LidoKey -> 0 .. Never] /\ joinedAt \in [LidoKey -> 0 .. Never]
      /\ KeyOperator \in [LidoKey -> KeyOperators] /\ Born \in [KeyOperators -> Nat]
  BY KeysAssumption DEF KeysBase, KeysTypeOK, ChainStep, Use, Join, NewHead
<1>2. PICK k \in LidoKey : Use(k) \/ Join(k)
  BY DEF ChainStep
<1>3. /\ usedAt' \in [LidoKey -> 0 .. Never] /\ joinedAt' \in [LidoKey -> 0 .. Never]
      /\ \A l \in LidoKey \ {k} : usedAt'[l] = usedAt[l] /\ joinedAt'[l] = joinedAt[l]
      /\ \/ /\ usedAt[k] = Never /\ joinedAt[k] = Never /\ Born[KeyOperator[k]] <= head
            /\ usedAt'[k] = head + 1 /\ joinedAt'[k] = Never
         \/ joinedAt[k] = Never /\ joinedAt'[k] = head + 1 /\ usedAt'[k] = usedAt[k]
  BY <1>1, <1>2 DEF Use, Join, Never
<1>4. \A b \in 0 .. head : UsedAt(b)' = UsedAt(b) /\ JoinedAt(b)' = JoinedAt(b)
  BY <1>1, <1>3 DEF UsedAt, JoinedAt, Never
<1>5. Past'
<2> SUFFICES ASSUME NEW l \in LidoKey
             PROVE  /\ \/ usedAt'[l] = Never
                       \/ usedAt'[l] <= head + 1 /\ Born[KeyOperator[l]] <= usedAt'[l]
                    /\ joinedAt'[l] = Never \/ joinedAt'[l] <= head + 1
                    /\ \/ joinedAt'[l] = Never \/ usedAt'[l] = Never
                       \/ usedAt'[l] < joinedAt'[l]
  BY <1>1 DEF Past, Never
<2>1. /\ usedAt[l] = Never \/ (usedAt[l] <= head /\ Born[KeyOperator[l]] <= usedAt[l])
      /\ joinedAt[l] = Never \/ joinedAt[l] <= head
      /\ joinedAt[l] = Never \/ usedAt[l] = Never \/ usedAt[l] < joinedAt[l]
      /\ usedAt[l] \in Nat /\ joinedAt[l] \in Nat /\ Born[KeyOperator[l]] \in Nat
  BY <1>1 DEF KeysBase, Past, Never
<2> QED
  BY <1>1, <1>3, <2>1 DEF Never
<1>6. KeysTypeOK' /\ ApiIsOfTheChain' /\ ReadingIsOfTheChain'
<2>1. \A h \in KapiHost : api[h].snapshot \in Nat
  BY DEF KeysBase, KeysTypeOK, Instance
<2>2. reading.ref \in Nat /\ reading.snapshot \in Nat
  BY DEF KeysBase, KeysTypeOK, Reading
<2> QED
  BY <1>1, <1>3, <2>1, <2>2 DEF KeysBase, KeysTypeOK, ApiIsOfTheChain, ReadingIsOfTheChain, Never
<1> QED
  BY <1>4, <1>5, <1>6 DEF KeysBase

LEMMA ApiKeepsBase ==
  ASSUME KeysBase, ApiStep
  PROVE  KeysBase' /\ UNCHANGED <<head, usedAt, joinedAt, reading>>
<1>1. UNCHANGED <<head, usedAt, joinedAt, reading>>
  BY DEF ApiStep, Index, MixUp, LoseKey, ListUnused, Repeat, Faulty
<1>2. api \in [KapiHost -> Instance] /\ head \in 0 .. MaxHead
  BY DEF KeysBase, KeysTypeOK
<1> DEFINE Becomes(h, i) ==
             /\ api' = [api EXCEPT ![h] = i] /\ i \in Instance
             /\ i.snapshot = head \/ i.snapshot = api[h].snapshot
             /\ \A r \in i.repeated : \/ r \in api[h].repeated
                                      \/ r[1] \in LidoKey /\ r[2][1] = KeyOperator[r[1]][1]
<1>3. ASSUME NEW h \in KapiHost, Index(h) PROVE Becomes(h, [api[h] EXCEPT !.snapshot = head])
  BY <1>2, <1>3 DEF Index, Instance
<1>4. ASSUME NEW h \in KapiHost, MixUp(h) PROVE Becomes(h, [api[h] EXCEPT !.otherModule = TRUE])
  BY <1>2, <1>4 DEF MixUp, Instance
<1>5. ASSUME NEW h \in KapiHost, NEW k \in LidoKey, LoseKey(h, k)
      PROVE  Becomes(h, [api[h] EXCEPT !.lost = @ \cup {k}])
  BY <1>2, <1>5 DEF LoseKey, Instance
<1>6. ASSUME NEW h \in KapiHost, NEW k \in LidoKey, ListUnused(h, k)
      PROVE  Becomes(h, [api[h] EXCEPT !.unused = @ \cup {k}])
  BY <1>2, <1>6 DEF ListUnused, Instance
<1>7. ASSUME NEW h \in KapiHost, NEW k \in LidoKey, NEW o \in KeyOperators, Repeat(h, k, o)
      PROVE  Becomes(h, [api[h] EXCEPT !.repeated = @ \cup {<<k, o>>}])
  BY <1>2, <1>7 DEF Repeat, Instance
<1> HIDE DEF Becomes
<1>8. \E h \in KapiHost : \E i : Becomes(h, i)
  BY <1>3, <1>4, <1>5, <1>6, <1>7 DEF ApiStep
<1>8a. PICK h \in KapiHost : \E i : Becomes(h, i)
  BY <1>8
<1>9. PICK i : Becomes(h, i)
  BY <1>8a
<1>10. api' \in [KapiHost -> Instance]
  BY <1>2, <1>9 DEF Becomes
<1>11. ApiIsOfTheChain'
<2> SUFFICES ASSUME NEW g \in KapiHost
             PROVE  /\ api'[g].snapshot <= head
                    /\ \A r \in api'[g].repeated : r[1] \in LidoKey /\ r[2][1] = KeyOperator[r[1]][1]
  BY <1>1 DEF ApiIsOfTheChain
<2>1. /\ api[g].snapshot <= head
      /\ \A r \in api[g].repeated : r[1] \in LidoKey /\ r[2][1] = KeyOperator[r[1]][1]
  BY DEF KeysBase, ApiIsOfTheChain
<2>2. CASE g # h
  BY <1>2, <1>9, <2>1, <2>2 DEF Becomes
<2>3. CASE g = h
<3>1. api'[g] = i
  BY <1>2, <1>9, <2>3 DEF Becomes
<3> QED
  BY <1>2, <1>9, <2>1, <2>3, <3>1 DEF Becomes
<2> QED
  BY <2>2, <2>3
<1> QED
  BY <1>1, <1>10, <1>11 DEF KeysBase, KeysTypeOK, Past, ReadingIsOfTheChain

\* A search that goes on with validators goes on with Lido's.
LEMMA ReceivedAreLidos ==
  ASSUME KeysBase, NEW h \in KapiHost, Ask(h), reading'.outcome = "validators"
  PROVE  /\ reading'.byOperator \in Groups /\ reading'.pending \in SUBSET LidoKey
         /\ reading' = Result(h, "validators", reading'.byOperator, reading'.pending)
         /\ ValidatorsAreLidos'
<1> DEFINE b == reading.ref
           m == reading.module
           K == KeysOf(h, m)
           asOf == OperatorsOf(h, m, b)
           entries == Answer(h, m)
<1>1. /\ reading \in Reading /\ api[h] \in Instance
      /\ UNCHANGED <<head, usedAt, joinedAt>>
      /\ b \in Nat /\ api[h].snapshot \in Nat /\ head \in Nat /\ MaxHead \in Nat
      /\ usedAt \in [LidoKey -> 0 .. Never] /\ joinedAt \in [LidoKey -> 0 .. Never]
      /\ m \in KeyModules \cup {AllModules}
      /\ b <= head /\ api[h].snapshot <= head /\ head <= MaxHead
      /\ KeyOperator \in [LidoKey -> KeyOperators] /\ Born \in [KeyOperators -> Nat]
  BY KeysAssumption
     DEF KeysBase, KeysTypeOK, ReadingIsOfTheChain, ApiIsOfTheChain, Reading, Instance, Ask
<1>2. /\ b <= api[h].snapshot
      /\ CheckUsedKeys(entries) /\ KapiSanityCheck(entries, m, b)
      /\ reading' = Result(h, "validators", ByOperator(entries, asOf, b),
                           {e.key : e \in entries} \ JoinedAt(b))
  BY <1>1 DEF Ask, Receive, Result, Reading
<1>3. entries = {Entry(k, KeyOperator[k], TRUE) : k \in K}
  BY <1>2, CheckedAnswer
<1>4. /\ reading'.ref = b /\ reading'.module = m /\ reading'.snapshot = api[h].snapshot
      /\ reading'.lost = api[h].lost
      /\ reading'.byOperator = [o \in asOf |-> {k \in K : k \in JoinedAt(b) /\ KeyOperator[k] = o}]
      /\ reading'.pending = K \ JoinedAt(b)
<2> HIDE DEF K, asOf, entries
<2>0. \A k : /\ Entry(k, KeyOperator[k], TRUE).key = k
             /\ Entry(k, KeyOperator[k], TRUE).operator = KeyOperator[k]
  BY DEF Entry
<2>1. /\ \A k \in K : Entry(k, KeyOperator[k], TRUE) \in entries
      /\ \A e \in entries : e.key \in K /\ e.operator = KeyOperator[e.key]
<3>1. ASSUME NEW e \in entries PROVE e.key \in K /\ e.operator = KeyOperator[e.key]
<4>1. PICK k \in K : e = Entry(k, KeyOperator[k], TRUE)
  BY <1>3
<4>2. e.key = k /\ e.operator = KeyOperator[k]
  BY <2>0, <4>1
<4> QED
  BY <4>2
<3>2. \A k \in K : Entry(k, KeyOperator[k], TRUE) \in entries
  BY <1>3
<3> QED
  BY <3>1, <3>2
<2>2. {e.key : e \in entries} = K
  BY <2>0, <2>1
<2>3. ASSUME NEW o
      PROVE  {e.key : e \in {f \in entries : f.key \in JoinedAt(b) /\ f.operator = o}}
               = {k \in K : k \in JoinedAt(b) /\ KeyOperator[k] = o}
<3> DEFINE L == {f \in entries : f.key \in JoinedAt(b) /\ f.operator = o}
<3>1. ASSUME NEW k \in K, k \in JoinedAt(b), KeyOperator[k] = o
      PROVE  k \in {e.key : e \in L}
<4>1. Entry(k, KeyOperator[k], TRUE) \in L
  BY <2>0, <2>1, <3>1
<4> QED
  BY <2>0, <4>1
<3>2. \A e \in L : e.key \in K /\ e.key \in JoinedAt(b) /\ KeyOperator[e.key] = o
  BY <2>1
<3> QED
  BY <3>1, <3>2
<2>4. ByOperator(entries, asOf, b) = [o \in asOf |-> {k \in K : k \in JoinedAt(b) /\ KeyOperator[k] = o}]
  BY <2>3 DEF ByOperator
<2> QED
  BY <1>1, <1>2, <2>2, <2>4 DEF Result, Reading
<1>5. asOf \subseteq KeyOperators /\ K \subseteq UsedAt(api[h].snapshot) /\ UsedAt(api[h].snapshot) \subseteq LidoKey
  BY DEF OperatorsOf, KeysOf, UsedAt
<1>6. UsedAt(b) \subseteq UsedAt(api[h].snapshot)
  BY <1>1, <1>2 DEF UsedAt
\* A validator there is by then is of a key used by then, of an operator there was.
<1>7. ASSUME NEW k \in K, k \in JoinedAt(b) PROVE k \in UsedAt(b) /\ KeyOperator[k] \in asOf
<2>1. k \in LidoKey /\ usedAt[k] <= api[h].snapshot /\ joinedAt[k] <= b
  BY <1>5, <1>7 DEF UsedAt, JoinedAt
<2>2. usedAt[k] < joinedAt[k] /\ Born[KeyOperator[k]] <= usedAt[k]
  BY <1>1, <2>1 DEF KeysBase, Past, Never
<2>3. m = AllModules \/ KeyOperator[k][1] = m
  BY DEF KeysOf
<2>4. Born[KeyOperator[k]] \in Nat /\ usedAt[k] \in Nat /\ joinedAt[k] \in Nat
  BY <1>1, <2>1 DEF Never
<2> QED
  BY <1>1, <1>2, <2>1, <2>2, <2>3, <2>4 DEF UsedAt, OperatorsOf
<1>8. UNION {reading'.byOperator[o] : o \in DOMAIN reading'.byOperator} = K \cap JoinedAt(b)
  BY <1>4, <1>7
<1>9. m = AllModules => Cardinality(UsedAt(b) \ K) <= Cardinality(UsedAt(api[h].snapshot) \ UsedAt(b))
<2> SUFFICES ASSUME m = AllModules
             PROVE  Cardinality(UsedAt(b) \ K) <= Cardinality(UsedAt(api[h].snapshot) \ UsedAt(b))
  OBVIOUS
<2>1. Cardinality(entries) = Cardinality(K)
  BY <1>3, <1>5, AsManyKeys
<2>2. Cardinality(K) >= Cardinality(UsedAt(b))
  BY <1>2, <2>1 DEF KapiSanityCheck
<2> QED
  BY <1>5, <1>6, <2>2, NewForMissing
<1> DEFINE S == api[h].snapshot
           found == K \cap JoinedAt(b)
           asked == {k \in UsedAt(b) : m \in {AllModules, KeyOperator[k][1]}}
<1>10. \A o \in asOf :
         reading'.byOperator[o] \subseteq {k \in asked \cap JoinedAt(b) : KeyOperator[k] = o}
  BY <1>4, <1>7 DEF KeysOf
<1>11. /\ (asked \cap JoinedAt(b)) \ found \subseteq api[h].lost
       /\ m = AllModules => asked \ found \subseteq (K \ JoinedAt(b)) \cup api[h].lost
  BY <1>6 DEF KeysOf
<1>12. m = AllModules => asked \ (found \cup (K \ JoinedAt(b))) = UsedAt(b) \ K
  OBVIOUS
<1>13. ValidatorsAreLidos'
<2>1. /\ UsedAt(reading.ref)' = UsedAt(b) /\ JoinedAt(reading.ref)' = JoinedAt(b)
      /\ UsedAt(reading.snapshot)' = UsedAt(S)
  BY <1>1, <1>4 DEF UsedAt, JoinedAt
<2>2. Asked' = asked /\ Found' = found
  BY <1>4, <1>8, <2>1 DEF Asked, Found
<2>3. /\ DOMAIN reading'.byOperator = asOf /\ reading'.pending = K \ JoinedAt(b)
      /\ reading'.lost = api[h].lost /\ reading'.module = m
  BY <1>4
<2> HIDE DEF K, asOf, entries, asked, found, m, b, S
<2>4. m = AllModules => Cardinality(asked \ (found \cup (K \ JoinedAt(b))))
                          <= Cardinality(UsedAt(S) \ UsedAt(b))
  BY <1>9, <1>12 DEF S
<2> QED
  BY <1>10, <1>11, <2>1, <2>2, <2>3, <2>4 DEF ValidatorsAreLidos
<1>14. reading'.byOperator \in [asOf -> SUBSET LidoKey]
  BY <1>4, <1>5
<1> QED
<2>1. \A g, ks : LET r == Result(h, "validators", g, ks) IN r.byOperator = g /\ r.pending = ks
  BY <1>1 DEF Result, Reading
<2>2. reading' = Result(h, "validators", reading'.byOperator, reading'.pending)
  BY <1>2, <2>1
<2> QED
  BY <1>4, <1>5, <1>13, <1>14, <2>2 DEF Groups

LEMMA OracleKeepsBase ==
  ASSUME KeysBase, OracleStep
  PROVE  KeysBase' /\ UNCHANGED <<head, usedAt, joinedAt, api>>
<1>1. UNCHANGED <<head, usedAt, joinedAt, api>>
  BY DEF OracleStep, Ask, NoAnswer, StartReading
<1>2. reading \in Reading /\ head \in 0 .. MaxHead /\ MaxHead \in Nat
      /\ reading.ref <= head /\ reading.snapshot <= head
      /\ \A h \in KapiHost : api[h] \in Instance /\ api[h].snapshot <= head
  BY KeysAssumption DEF KeysBase, KeysTypeOK, ReadingIsOfTheChain, ApiIsOfTheChain
<1>3. NoOperators \in Groups
  BY DEF NoOperators, Groups
<1> DEFINE Good == reading' \in Reading /\ reading'.ref <= head /\ reading'.snapshot <= head
<1>4. ASSUME NEW h \in KapiHost, Ask(h) PROVE Good
<2>1. CASE ~(api[h].snapshot >= reading.ref)
<3>1. reading.tries + 1 \in Nat
  BY <1>2 DEF Reading
<3>2. PICK n \in Nat, out \in {"reading", "KeysOutdated"} :
        reading' = [reading EXCEPT !.tries = n, !.outcome = out]
<4>1. reading.outcome = "reading"
  BY <1>4 DEF Ask
<4>2. reading' = [reading EXCEPT !.tries = reading.tries + 1,
                    !.outcome = IF reading.tries + 1 < RetryCount THEN reading.outcome
                                ELSE "KeysOutdated"]
  BY <1>4, <2>1, Zenon DEF Ask
<4> DEFINE out == IF reading.tries + 1 < RetryCount THEN reading.outcome ELSE "KeysOutdated"
<4>3. out \in {"reading", "KeysOutdated"}
  BY <4>1
<4>4. reading' = [reading EXCEPT !.tries = reading.tries + 1, !.outcome = out]
  BY <4>2, Zenon
<4> HIDE DEF out
<4> QED
  BY <3>1, <4>3, <4>4, Zenon
<3> QED
  BY <1>2, <3>2 DEF Reading
<2>2. CASE api[h].snapshot >= reading.ref
<3>1. ASSUME NEW out \in {"validators", "KAPIInconsistentData", "CountOfKeysDiffers", "KeyError"},
             NEW g \in Groups, NEW ks \in SUBSET LidoKey, reading' = Result(h, out, g, ks)
      PROVE  Good
  BY <1>2, <3>1 DEF Result, Reading, Instance
<3>2. CASE reading'.outcome = "validators"
  BY <1>4, <2>2, <3>1, <3>2, ReceivedAreLidos
<3>3. CASE reading'.outcome # "validators"
<4>1. \A g, ks : Result(h, "validators", g, ks).outcome = "validators"
  BY <1>2 DEF Result, Reading
<4>2. \/ reading' = Result(h, "KAPIInconsistentData", NoOperators, {})
      \/ reading' = Result(h, "CountOfKeysDiffers", NoOperators, {})
      \/ reading' = Result(h, "KeyError", NoOperators, {})
  BY <1>4, <2>2, <3>3, <4>1 DEF Ask, Receive
<4> QED
  BY <1>3, <3>1, <4>2
<3> QED
  BY <3>2, <3>3
<2> QED
  BY <2>1, <2>2
<1>5. ASSUME NoAnswer PROVE Good
  BY <1>2, <1>5 DEF NoAnswer, Reading
<1>6. ASSUME NEW b \in 0 .. head, NEW m \in KeyModules \cup {AllModules}, StartReading(b, m)
      PROVE  Good
  BY <1>2, <1>3, <1>6 DEF StartReading, Search, Reading
<1>7. Good
  BY <1>4, <1>5, <1>6 DEF OracleStep
<1> QED
  BY <1>1, <1>7 DEF KeysBase, KeysTypeOK, Past, ApiIsOfTheChain, ReadingIsOfTheChain

\* What a search found stays true.
LEMMA FoundStaysTrue ==
  ASSUME KeysInv, UNCHANGED reading,
         \A b \in 0 .. head : UsedAt(b)' = UsedAt(b) /\ JoinedAt(b)' = JoinedAt(b)
  PROVE  ValidatorsAreLidos'
<1>1. reading.ref \in 0 .. head /\ reading.snapshot \in 0 .. head
  BY DEF KeysInv, KeysBase, KeysTypeOK, ReadingIsOfTheChain, Reading
<1>2. /\ UsedAt(reading.ref)' = UsedAt(reading.ref) /\ JoinedAt(reading.ref)' = JoinedAt(reading.ref)
      /\ UsedAt(reading.snapshot)' = UsedAt(reading.snapshot)
  BY <1>1
<1>3. Asked' = Asked /\ Found' = Found
  BY <1>2 DEF Asked, Found
<1> QED
  BY <1>2, <1>3 DEF KeysInv, ValidatorsAreLidos

-----------------------------------------------------------------------------
(* The validators are Lido's *)

LEMMA KeysInitInv ==
  ASSUME KeysInit PROVE KeysInv
<1>1. Never \in 0 .. Never /\ 0 \in 0 .. MaxHead
  BY KeysAssumption DEF Never
<1>2. NoOperators \in Groups
<2>1. {} \in SUBSET KeyOperators
  OBVIOUS
<2>2. NoOperators \in [{} -> SUBSET LidoKey]
  BY DEF NoOperators
<2> QED
  BY <2>1, <2>2, Zenon DEF Groups
<1>3. KeysTypeOK
  BY <1>1, <1>2 DEF KeysInit, Search, KeysTypeOK, Instance, Reading
<1> QED
  BY <1>3 DEF KeysInit, Search, KeysInv, KeysBase, Past, ApiIsOfTheChain, ReadingIsOfTheChain,
              ValidatorsAreLidos

LEMMA KeysStepInv ==
  ASSUME KeysInv, [KeysNext]_keysVars PROVE KeysInv'
<1> USE DEF KeysInv
<1>1. CASE UNCHANGED keysVars
<2>1. KeysBase'
  BY <1>1 DEF keysVars, KeysBase, KeysTypeOK, Past, ApiIsOfTheChain, ReadingIsOfTheChain
<2>2. \A b \in 0 .. head : UsedAt(b)' = UsedAt(b) /\ JoinedAt(b)' = JoinedAt(b)
  BY <1>1 DEF keysVars, UsedAt, JoinedAt
<2> QED
  BY <1>1, <2>1, <2>2, FoundStaysTrue DEF keysVars
<1>2. CASE ChainStep
  BY <1>2, ChainKeepsThePast, FoundStaysTrue DEF ChainStep, Use, Join, NewHead
<1>3. CASE ApiStep
<2>1. KeysBase' /\ UNCHANGED <<head, usedAt, joinedAt, reading>>
  BY <1>3, ApiKeepsBase
<2>2. \A b \in 0 .. head : UsedAt(b)' = UsedAt(b) /\ JoinedAt(b)' = JoinedAt(b)
  BY <2>1 DEF UsedAt, JoinedAt
<2> QED
  BY <2>1, <2>2, FoundStaysTrue
<1>4. CASE OracleStep
<2>1. KeysBase'
  BY <1>4, OracleKeepsBase
<2>2. CASE reading'.outcome # "validators"
  BY <2>1, <2>2 DEF ValidatorsAreLidos
<2>3. ASSUME NEW h \in KapiHost, Ask(h), reading'.outcome = "validators" PROVE ValidatorsAreLidos'
  BY <2>3, ReceivedAreLidos
<2>4. reading'.outcome = "validators" => \E h \in KapiHost : Ask(h)
  BY <1>4 DEF OracleStep, NoAnswer, StartReading, Search, KeysBase, KeysTypeOK, Reading
<2> QED
  BY <2>1, <2>2, <2>3, <2>4
<1> QED
  BY <1>1, <1>2, <1>3, <1>4, KeysNextSplit

\* client.py:50-109, lido_validators.py:298-397, distribution.py:133-162: whatever the
\* instances of the Keys API lag behind, lose or mix up, the validators an oracle goes on
\* with are Lido's at its reference block, and what is missing is bounded.
THEOREM KeysSafety == KeysSpec => []ValidatorsAreLidos
<1>1. KeysSpec => []KeysInv
  BY KeysInitInv, KeysStepInv, PTL DEF KeysSpec
<1>2. KeysInv => ValidatorsAreLidos
  BY DEF KeysInv
<1> QED
  BY <1>1, <1>2, PTL

-----------------------------------------------------------------------------
(* Walking back through a sequence *)

\* A set that holds n + 1, and every place whose next place it holds, holds all of them.
LEMMA Downward ==
  ASSUME NEW n \in Nat, NEW S, n + 1 \in S,
         \A i \in 1 .. n : i + 1 \in S => i \in S
  PROVE  \A i \in 1 .. n + 1 : i \in S
<1> DEFINE Bad == {m \in 0 .. n : n + 1 - m \notin S}
<1>1. SUFFICES ASSUME Bad # {} PROVE FALSE
<2> SUFFICES ASSUME NEW i \in 1 .. n + 1, i \notin S PROVE Bad # {}
  OBVIOUS
<2>1. n + 1 - i \in 0 .. n /\ n + 1 - (n + 1 - i) = i
  OBVIOUS
<2>2. n + 1 - i \in Bad
  BY <2>1, SMT
<2> QED
  BY <2>2, Zenon
<1>2. PICK m \in Bad : \A y \in Bad : m <= y
<2>1. Bad \in SUBSET Nat
  OBVIOUS
<2> QED
  BY <1>1, <2>1, LeastNat, Zenon
<1>3. m \in 1 .. n
  BY <1>2
<1>4. m - 1 \notin Bad /\ m - 1 \in 0 .. n /\ n + 1 - (m - 1) = n + 1 - m + 1
  BY <1>2, <1>3
<1>5. n + 1 - m + 1 \in S
  BY <1>4
<1>6. n + 1 - m \in 1 .. n
  BY <1>3
<1> QED
  BY <1>2, <1>5, <1>6

\* What one event does to the loop.
Undo(v, ref, e, s) == IF IsFetched(e, v, ref) THEN StepBack(v, s, e) ELSE s

\* The recursion that a fold from the right is, over a set of places.
IsFold(h, v, events, ref, start, D) ==
  h = [s \in SUBSET D |->
         IF s = {} THEN start ELSE Undo(v, ref, events[Min(s)], h[s \ {Min(s)}])]

\* The least place of a set of places.
LEMMA MinPlace ==
  ASSUME NEW n \in Nat, NEW s \in SUBSET (1 .. n), NEW k \in s, \A j \in s : k <= j
  PROVE  Min(s) = k
<1>1. \A x \in s : (\A y \in s : x <= y) => x = k
  BY SMT
<1>2. \E x \in s : \A y \in s : x <= y
  OBVIOUS
<1> QED
  BY <1>1, <1>2 DEF Min

\* The recursion has a solution over the places from any one on ...
LEMMA FoldFromExists ==
  ASSUME NEW v, NEW events, NEW ref, NEW start, NEW n \in Nat,
         NEW k \in 1 .. n, NEW g, IsFold(g, v, events, ref, start, k + 1 .. n)
  PROVE  \E h : IsFold(h, v, events, ref, start, k .. n)
<1> DEFINE h == [s \in SUBSET (k .. n) |->
                   IF k \in s THEN Undo(v, ref, events[k], g[s \ {k}]) ELSE g[s]]
<1>1. ASSUME NEW s \in SUBSET (k .. n)
      PROVE  h[s] = IF s = {} THEN start
                    ELSE Undo(v, ref, events[Min(s)], h[s \ {Min(s)}])
<2>1. CASE k \in s
<3>1. Min(s) = k
<4>1. s \in SUBSET (1 .. n) /\ \A j \in s : k <= j
  BY SMT
<4> QED
  BY <2>1, <4>1, MinPlace
<3>2. s \ {k} \in SUBSET (k .. n) /\ k \notin s \ {k}
  OBVIOUS
<3>3. h[s \ {k}] = g[s \ {k}]
  BY <3>2, Zenon
<3>4. h[s] = Undo(v, ref, events[k], g[s \ {k}])
  BY <2>1, Zenon
<3> HIDE DEF h
<3> QED
  BY <2>1, <3>1, <3>3, <3>4, Zenon
<2>2. CASE k \notin s
<3>1. s \in SUBSET (k + 1 .. n)
  BY <2>2, SMT
<3>2. g[s] = IF s = {} THEN start ELSE Undo(v, ref, events[Min(s)], g[s \ {Min(s)}])
  BY <3>1, Zenon DEF IsFold
<3>3. h[s] = g[s]
  BY <2>2, Zenon
<3>4. h[s \ {Min(s)}] = g[s \ {Min(s)}]
<4>1. s \ {Min(s)} \in SUBSET (k .. n) /\ k \notin s \ {Min(s)}
  BY <2>2, Zenon
<4> QED
  BY <4>1, Zenon
<3> HIDE DEF h
<3> QED
  BY <3>2, <3>3, <3>4, Zenon
<2> QED
  BY <2>1, <2>2
<1>2. h = [s \in SUBSET (k .. n) |-> h[s]]
  BY Zenon
<1> HIDE DEF h
<1>3. IsFold(h, v, events, ref, start, k .. n)
  BY <1>1, <1>2, Zenon DEF IsFold
<1> QED
  BY <1>3

\* ... and so over all of them.
LEMMA FoldExists ==
  ASSUME NEW v, NEW events, NEW ref, NEW start, NEW n \in Nat
  PROVE  \E h : IsFold(h, v, events, ref, start, 1 .. n)
<1> DEFINE S == {k \in 1 .. n + 1 : \E h : IsFold(h, v, events, ref, start, k .. n)}
<1>1. n + 1 \in S
<2> DEFINE h == [s \in SUBSET (n + 1 .. n) |-> start]
<2>1. \A s \in SUBSET (n + 1 .. n) : s = {}
  BY SMT
<2>2. h = [s \in SUBSET (n + 1 .. n) |->
             IF s = {} THEN start ELSE Undo(v, ref, events[Min(s)], h[s \ {Min(s)}])]
  BY <2>1, Zenon
<2> HIDE DEF h
<2>3. IsFold(h, v, events, ref, start, n + 1 .. n)
  BY <2>2, Zenon DEF IsFold
<2>4. n + 1 \in 1 .. n + 1
  OBVIOUS
<2> QED
  BY <2>3, <2>4, Zenon
<1>2. ASSUME NEW k \in 1 .. n, k + 1 \in S PROVE k \in S
<2>1. PICK g : IsFold(g, v, events, ref, start, k + 1 .. n)
  BY <1>2, Zenon
<2>2. \E h : IsFold(h, v, events, ref, start, k .. n)
  BY <2>1, FoldFromExists, Zenon
<2>3. k \in 1 .. n + 1
  OBVIOUS
<2> QED
  BY <2>2, <2>3, Zenon
<1>3. 1 \in S
<2> HIDE DEF S
<2> QED
  BY <1>1, <1>2, Downward
<1> QED
  BY <1>3, Zenon

\* t lists the states of the loop from the first event's to the one it starts in.
IsTrace(t, v, events, ref, start) ==
  /\ t[Len(events) + 1] = start
  /\ \A i \in 1 .. Len(events) : t[i] = Undo(v, ref, events[i], t[i + 1])
  /\ Walk(v, events, ref, start) = t[1]

\* The loop takes the events one by one, the last one first.
LEMMA WalkTrace ==
  ASSUME NEW v, NEW events, NEW ref, NEW start, Len(events) \in Nat,
         DOMAIN events = 1 .. Len(events)
  PROVE  \E t : IsTrace(t, v, events, ref, start)
<1> DEFINE n == Len(events)
           h == CHOOSE g : IsFold(g, v, events, ref, start, 1 .. n)
           t == [i \in 1 .. n + 1 |-> h[i .. n]]
<1>1. IsFold(h, v, events, ref, start, 1 .. n)
  BY FoldExists, Zenon
<1>2. Walk(v, events, ref, start) = h[1 .. n]
  BY Zenon DEF Walk, FoldRight, MapThenFoldSet, IsFold, Undo
<1> HIDE DEF h
<1>3. t[n + 1] = start
<2>1. n + 1 .. n = {} /\ n + 1 .. n \in SUBSET (1 .. n) /\ n + 1 \in 1 .. n + 1
  OBVIOUS
<2> QED
  BY <1>1, <2>1, Zenon DEF IsFold
<1>4. ASSUME NEW i \in 1 .. n PROVE t[i] = Undo(v, ref, events[i], t[i + 1])
<2>1. /\ i .. n \in SUBSET (1 .. n) /\ i \in i .. n /\ (i .. n) \ {i} = i + 1 .. n
      /\ i \in 1 .. n + 1 /\ i + 1 \in 1 .. n + 1 /\ \A j \in i .. n : i <= j
  OBVIOUS
<2>2. Min(i .. n) = i
  BY <2>1, MinPlace
<2>3. h[i .. n] = Undo(v, ref, events[i], h[i + 1 .. n])
  BY <1>1, <2>1, <2>2, Zenon DEF IsFold
<2> QED
  BY <2>1, <2>3, Zenon
<1>5. t[1] = h[1 .. n]
  OBVIOUS
<1> HIDE DEF t
<1>6. IsTrace(t, v, events, ref, start)
  BY <1>2, <1>3, <1>4, <1>5, Zenon DEF IsTrace
<1> QED
  BY <1>6

-----------------------------------------------------------------------------
(* One event of the loop *)

Event == [kind : {"minted", "repaid", "socialized", "fees", "connected"}, vault : Vault,
          amount : Nat, acceptor : Vault, slot : Nat]

LoopState ==
  [fee : Int, shares : Int, rate : Nat, until : Int, done : BOOLEAN, failed : BOOLEAN]

\* Whatever shares and rate come before an event are of their types.
LEMMA BeforeTypes ==
  ASSUME NEW v \in Vault, NEW e \in Event, NEW shares \in Int, NEW rate \in Nat
  PROVE  SharesBefore(e, v, shares) \in Int /\ RateBefore(e, rate) \in Nat
<1>1. e.amount \in Nat
  BY DEF Event
<1> QED
  BY <1>1 DEF SharesBefore, RateBefore

\* What one event does to each field of the loop's state.
IsStepBack(v, s, e, r) ==
  /\ r \in LoopState
  /\ r.fee = s.fee + s.shares * s.rate * (s.until - e.slot)
  /\ r.until = e.slot
  /\ r.done = (e.kind = "connected")
  /\ r.failed = (s.failed \/ s.until < e.slot \/ (e.kind = "connected" /\ s.shares # 0))
  /\ r.rate = RateBefore(e, s.rate)
  /\ r.shares = SharesBefore(e, v, s.shares)

\* The loop's body has that effect, until the vault's connection.
LEMMA StepBackFields ==
  ASSUME NEW v \in Vault, NEW e \in Event, NEW s \in LoopState, ~s.done
  PROVE  IsStepBack(v, s, e, StepBack(v, s, e))
<1> DEFINE r == StepBack(v, s, e)
<1>1. /\ s.fee \in Int /\ s.shares \in Int /\ s.rate \in Nat /\ s.until \in Int
      /\ s.failed \in BOOLEAN /\ e.slot \in Nat
  BY DEF LoopState, Event
<1>2. s.shares * s.rate * (s.until - e.slot) \in Int
  BY <1>1
<1>3. SharesBefore(e, v, s.shares) \in Int /\ RateBefore(e, s.rate) \in Nat
  BY <1>1, BeforeTypes
<1>4. /\ s = [fee |-> s.fee, shares |-> s.shares, rate |-> s.rate, until |-> s.until,
              done |-> s.done, failed |-> s.failed]
  BY DEF LoopState
<1>5. r = [fee |-> s.fee + s.shares * s.rate * (s.until - e.slot),
           shares |-> SharesBefore(e, v, s.shares), rate |-> RateBefore(e, s.rate),
           until |-> e.slot, done |-> e.kind = "connected",
           failed |-> s.failed \/ s.until < e.slot \/ (e.kind = "connected" /\ s.shares # 0)]
  BY <1>4, Zenon DEF StepBack
<1> HIDE DEF r
<1> DEFINE fee == s.fee + s.shares * s.rate * (s.until - e.slot)
           failed == s.failed \/ s.until < e.slot \/ (e.kind = "connected" /\ s.shares # 0)
           shares == SharesBefore(e, v, s.shares)
           rate == RateBefore(e, s.rate)
<1>6. fee \in Int /\ failed \in BOOLEAN /\ shares \in Int /\ rate \in Nat /\ e.slot \in Int
  BY <1>1, <1>2, <1>3
<1> HIDE DEF fee, failed, shares, rate
<1>7. r = [fee |-> fee, shares |-> shares, rate |-> rate, until |-> e.slot,
           done |-> e.kind = "connected", failed |-> failed]
  BY <1>5 DEF fee, failed, shares, rate
<1>8. /\ r \in LoopState
      /\ r.fee = fee /\ r.until = e.slot /\ r.rate = rate /\ r.shares = shares
      /\ r.done = (e.kind = "connected") /\ r.failed = failed
  BY <1>6, <1>7 DEF LoopState
<1> HIDE DEF r
<1>9. IsStepBack(v, s, e, r)
  BY <1>8, Zenon DEF IsStepBack, fee, failed, shares, rate
<1> QED
  BY <1>9 DEF r

\* The state of the loop keeps its type.
LEMMA UndoType ==
  ASSUME NEW v \in Vault, NEW e \in Event, NEW ref, NEW s \in LoopState
  PROVE  Undo(v, ref, e, s) \in LoopState
<1>1. CASE s.done
  BY <1>1 DEF Undo, StepBack
<1>2. CASE ~s.done
  BY <1>2, StepBackFields DEF Undo, IsStepBack
<1> QED
  BY <1>1, <1>2

-----------------------------------------------------------------------------
(* The whole loop *)

\* The loop over one more event is the loop over the others from where that event leads.
LEMMA WalkAppend ==
  ASSUME NEW v, NEW events \in Seq(Event), NEW e \in Event, NEW ref, NEW start
  PROVE  Walk(v, Append(events, e), ref, start) =
         Walk(v, events, ref, Undo(v, ref, e, start))
<1> DEFINE n == Len(events)
           more == Append(events, e)
           next == Undo(v, ref, e, start)
<1>1. /\ n \in Nat /\ Len(more) = n + 1
      /\ DOMAIN events = 1 .. n /\ DOMAIN more = 1 .. n + 1 /\ more[n + 1] = e
      /\ \A i \in 1 .. n : more[i] = events[i]
  OBVIOUS
<1>2. PICK t : IsTrace(t, v, more, ref, start)
<2>1. Len(more) \in Nat /\ DOMAIN more = 1 .. Len(more)
  BY <1>1
<2> QED
  BY <2>1, WalkTrace, Zenon
<1>3. PICK u : IsTrace(u, v, events, ref, next)
  BY <1>1, WalkTrace, Zenon
<1> HIDE DEF more, next
<1>4. t[n + 1] = next
<2>1. t[n + 1 + 1] = start /\ n + 1 \in 1 .. n + 1
  BY <1>1, <1>2 DEF IsTrace
<2>2. t[n + 1] = Undo(v, ref, e, t[n + 1 + 1])
  BY <1>1, <1>2, <2>1, Zenon DEF IsTrace
<2> QED
  BY <2>1, <2>2, Zenon DEF next
<1> DEFINE S == {i \in 1 .. n + 1 : t[i] = u[i]}
<1>5. n + 1 \in S
<2>1. u[n + 1] = next /\ n + 1 \in 1 .. n + 1
  BY <1>1, <1>3 DEF IsTrace
<2> QED
  BY <1>4, <2>1, Zenon
<1>6. ASSUME NEW i \in 1 .. n, i + 1 \in S PROVE i \in S
<2>1. i \in 1 .. n + 1 /\ more[i] = events[i]
  BY <1>1
<2>2. t[i] = Undo(v, ref, more[i], t[i + 1])
  BY <1>1, <1>2, <2>1, Zenon DEF IsTrace
<2>3. u[i] = Undo(v, ref, events[i], u[i + 1])
  BY <1>3, Zenon DEF IsTrace
<2>4. t[i + 1] = u[i + 1]
  BY <1>6, Zenon
<2> QED
  BY <2>1, <2>2, <2>3, <2>4, Zenon
<1>7. 1 \in S
<2> HIDE DEF S
<2> QED
  BY <1>1, <1>5, <1>6, Downward
<1>8. Walk(v, more, ref, start) = t[1] /\ Walk(v, events, ref, next) = u[1] /\ t[1] = u[1]
  BY <1>2, <1>3, <1>7, Zenon DEF IsTrace
<1> QED
  BY <1>8, Zenon DEF more, next

\* The loop keeps its type.
LEMMA WalkType ==
  ASSUME NEW v \in Vault, NEW events \in Seq(Event), NEW ref, NEW start \in LoopState
  PROVE  Walk(v, events, ref, start) \in LoopState
<1> DEFINE n == Len(events)
<1>1. n \in Nat /\ DOMAIN events = 1 .. n /\ \A i \in 1 .. n : events[i] \in Event
  OBVIOUS
<1>2. PICK t : IsTrace(t, v, events, ref, start)
  BY <1>1, WalkTrace, Zenon
<1> DEFINE S == {i \in 1 .. n + 1 : t[i] \in LoopState}
<1>3. n + 1 \in S
<2>1. n + 1 \in 1 .. n + 1
  BY <1>1
<2> QED
  BY <1>2, <2>1, Zenon DEF IsTrace
<1>4. ASSUME NEW i \in 1 .. n, i + 1 \in S PROVE i \in S
<2>1. i \in 1 .. n + 1
  BY <1>1
<2>2. events[i] \in Event /\ t[i + 1] \in LoopState
  BY <1>1, <1>4, Zenon
<2>3. Undo(v, ref, events[i], t[i + 1]) \in LoopState
  BY <2>2, UndoType, Zenon
<2>4. t[i] = Undo(v, ref, events[i], t[i + 1])
  BY <1>2, Zenon DEF IsTrace
<2> QED
  BY <2>1, <2>3, <2>4, Zenon
<1>5. 1 \in S
<2> HIDE DEF S
<2> QED
  BY <1>1, <1>3, <1>4, Downward
<1> QED
  BY <1>2, <1>5, Zenon DEF IsTrace

\* A loop that nothing moves stays where it starts: it is done, or no event is fetched.
LEMMA WalkRests ==
  ASSUME NEW v, NEW events \in Seq(Event), NEW ref, NEW start,
         start.done \/ \A i \in DOMAIN events : ~IsFetched(events[i], v, ref)
  PROVE  Walk(v, events, ref, start) = start
<1> DEFINE n == Len(events)
<1>1. n \in Nat /\ DOMAIN events = 1 .. n
  OBVIOUS
<1>2. PICK t : IsTrace(t, v, events, ref, start)
  BY <1>1, WalkTrace, Zenon
<1> DEFINE S == {i \in 1 .. n + 1 : t[i] = start}
<1>3. n + 1 \in S
<2>1. n + 1 \in 1 .. n + 1
  BY <1>1
<2> QED
  BY <1>2, <2>1, Zenon DEF IsTrace
<1>4. ASSUME NEW i \in 1 .. n, i + 1 \in S PROVE i \in S
<2>1. i \in 1 .. n + 1
  BY <1>1
<2>2. t[i] = Undo(v, ref, events[i], start)
  BY <1>2, <1>4, Zenon DEF IsTrace
<2>3. Undo(v, ref, events[i], start) = start
  BY <1>1, Zenon DEF Undo, StepBack
<2> QED
  BY <2>1, <2>2, <2>3, Zenon
<1>5. 1 \in S
<2> HIDE DEF S
<2> QED
  BY <1>1, <1>3, <1>4, Downward
<1> QED
  BY <1>2, <1>5, Zenon DEF IsTrace

-----------------------------------------------------------------------------
(* A slot later *)

\* u is the state of the loop that starts a slot after the one of s does: so far it counts d
\* more, or has yet to, as its first interval is a slot longer.
IsLater(s, u, d) ==
  /\ u.shares = s.shares /\ u.rate = s.rate /\ u.done = s.done
  /\ ~s.failed => ~u.failed
  /\ \/ ~s.done /\ u.until = s.until + 1 /\ u.fee = s.fee /\ d = s.shares * s.rate
     \/ u.until = s.until /\ u.fee = s.fee + d

\* One slot more at some rate.
LEMMA SlotMore ==
  ASSUME NEW shares \in Int, NEW rate \in Nat, NEW from \in Int, NEW to \in Int
  PROVE  /\ shares * rate \in Int
         /\ shares * rate * (to - from) \in Int
         /\ shares * rate * (to + 1 - from) = shares * rate * (to - from) + shares * rate
<1> DEFINE p == shares * rate
<1>1. p \in Int
  OBVIOUS
<1> HIDE DEF p
<1>2. p * (to - from) \in Int /\ p * (to + 1 - from) = p * (to - from) + p
  BY <1>1
<1> QED
  BY <1>1, <1>2 DEF p

\* The types of the fields.
LEMMA LoopFields ==
  ASSUME NEW s \in LoopState
  PROVE  /\ s.fee \in Int /\ s.shares \in Int /\ s.rate \in Nat /\ s.until \in Int
         /\ s.done \in BOOLEAN /\ s.failed \in BOOLEAN
  BY DEF LoopState

\* An event keeps the one loop a slot after the other.
LEMMA LaterUndo ==
  ASSUME NEW v \in Vault, NEW e \in Event, NEW ref, NEW d \in Int,
         NEW s \in LoopState, NEW u \in LoopState, IsLater(s, u, d)
  PROVE  IsLater(Undo(v, ref, e, s), Undo(v, ref, e, u), d)
<1>1. CASE ~IsFetched(e, v, ref) \/ s.done
<2>1. Undo(v, ref, e, s) = s /\ Undo(v, ref, e, u) = u
  BY <1>1, Zenon DEF Undo, StepBack, IsLater
<2> QED
  BY <2>1, Zenon
<1>2. CASE IsFetched(e, v, ref) /\ ~s.done
<2> DEFINE r == StepBack(v, s, e)
           w == StepBack(v, u, e)
           p == s.shares * s.rate
           b == SharesBefore(e, v, s.shares)
           q == RateBefore(e, s.rate)
<2>1. ~s.done /\ ~u.done /\ u.shares = s.shares /\ u.rate = s.rate
  BY <1>2, Zenon DEF IsLater
<2>2. /\ r.fee = s.fee + p * (s.until - e.slot) /\ r.until = e.slot
      /\ r.done = (e.kind = "connected")
      /\ r.failed = (s.failed \/ s.until < e.slot \/ (e.kind = "connected" /\ s.shares # 0))
      /\ r.rate = q /\ r.shares = b /\ r \in LoopState
  BY <2>1, StepBackFields, Zenon DEF IsStepBack
<2>3. /\ w.fee = u.fee + p * (u.until - e.slot) /\ w.until = e.slot
      /\ w.done = (e.kind = "connected")
      /\ w.failed = (u.failed \/ u.until < e.slot \/ (e.kind = "connected" /\ s.shares # 0))
      /\ w.rate = q /\ w.shares = b /\ w \in LoopState
<3>1. /\ w.fee = u.fee + u.shares * u.rate * (u.until - e.slot) /\ w.until = e.slot
      /\ w.done = (e.kind = "connected")
      /\ w.failed = (u.failed \/ u.until < e.slot \/ (e.kind = "connected" /\ u.shares # 0))
      /\ w.rate = RateBefore(e, u.rate) /\ w.shares = SharesBefore(e, v, u.shares)
      /\ w \in LoopState
  BY <2>1, StepBackFields, Zenon DEF IsStepBack
<3> QED
  BY <2>1, <3>1, Zenon
<2>4. e.slot \in Int
  BY DEF Event
<2>5. /\ p \in Int /\ p * (s.until - e.slot) \in Int
      /\ p * (s.until + 1 - e.slot) = p * (s.until - e.slot) + p
  BY <2>4, LoopFields, SlotMore
<2>6. /\ Undo(v, ref, e, s) = r /\ Undo(v, ref, e, u) = w
  BY <1>2, Zenon DEF Undo
<2>7. /\ s.fee \in Int /\ s.until \in Int /\ s.failed \in BOOLEAN
      /\ u.fee \in Int /\ u.until \in Int /\ u.failed \in BOOLEAN
  BY LoopFields, Zenon
<2> HIDE DEF r, w, p, b, q
<2>8. w.fee = r.fee + d
<3>1. CASE u.until = s.until + 1 /\ u.fee = s.fee /\ d = p
<4> DEFINE x == p * (s.until - e.slot)
           y == p * (s.until + 1 - e.slot)
<4>1. x \in Int /\ p \in Int /\ y = x + p /\ r.fee = s.fee + x
  BY <2>2, <2>5, Zenon
<4>2. p * (u.until - e.slot) = y
<5> HIDE DEF p
<5>1. u.until - e.slot = s.until + 1 - e.slot
  BY <2>4, <2>7, <3>1
<5> QED
  BY <5>1, Zenon
<4>3. w.fee = s.fee + y
  BY <2>3, <3>1, <4>2, Zenon
<4> HIDE DEF x, y
<4> QED
  BY <2>7, <3>1, <4>1, <4>3
<3>2. CASE u.until = s.until /\ u.fee = s.fee + d
<4> DEFINE x == p * (s.until - e.slot)
<4>1. x \in Int /\ r.fee = s.fee + x /\ w.fee = u.fee + x
  BY <2>2, <2>3, <2>5, <3>2, Zenon
<4> HIDE DEF x
<4> QED
  BY <2>7, <3>2, <4>1
<3> QED
  BY <3>1, <3>2, Zenon DEF IsLater, p
<2>9. ~r.failed => ~w.failed
<3>1. ~s.failed => ~u.failed
  BY Zenon DEF IsLater
<3>2. u.until >= s.until
  BY <2>7 DEF IsLater
<3> QED
  BY <2>2, <2>3, <2>4, <2>7, <3>1, <3>2
<2>10. IsLater(r, w, d)
  BY <2>2, <2>3, <2>8, <2>9, Zenon DEF IsLater
<2> QED
  BY <2>6, <2>10, Zenon
<1> QED
  BY <1>1, <1>2, Zenon

\* A walk from a slot later is a slot later than the walk.
LEMMA LaterWalk ==
  ASSUME NEW v \in Vault, NEW events \in Seq(Event), NEW ref, NEW d \in Int,
         NEW s \in LoopState, NEW u \in LoopState, IsLater(s, u, d)
  PROVE  IsLater(Walk(v, events, ref, s), Walk(v, events, ref, u), d)
<1> DEFINE n == Len(events)
<1>1. n \in Nat /\ DOMAIN events = 1 .. n /\ \A i \in 1 .. n : events[i] \in Event
  OBVIOUS
<1>2. PICK t : IsTrace(t, v, events, ref, s)
  BY <1>1, WalkTrace, Zenon
<1>3. PICK w : IsTrace(w, v, events, ref, u)
  BY <1>1, WalkTrace, Zenon
<1> DEFINE S == {i \in 1 .. n + 1 : /\ t[i] \in LoopState /\ w[i] \in LoopState
                                    /\ IsLater(t[i], w[i], d)}
<1>4. n + 1 \in S
<2>1. n + 1 \in 1 .. n + 1
  BY <1>1
<2> QED
  BY <1>2, <1>3, <2>1, Zenon DEF IsTrace
<1>5. ASSUME NEW i \in 1 .. n, i + 1 \in S PROVE i \in S
<2>1. i \in 1 .. n + 1
  BY <1>1
<2>2. /\ events[i] \in Event /\ t[i + 1] \in LoopState /\ w[i + 1] \in LoopState
      /\ IsLater(t[i + 1], w[i + 1], d)
  BY <1>1, <1>5, Zenon
<2>3. /\ Undo(v, ref, events[i], t[i + 1]) \in LoopState
      /\ Undo(v, ref, events[i], w[i + 1]) \in LoopState
  BY <2>2, UndoType, Zenon
<2>4. IsLater(Undo(v, ref, events[i], t[i + 1]), Undo(v, ref, events[i], w[i + 1]), d)
  BY <2>2, LaterUndo, Zenon
<2>5. /\ t[i] = Undo(v, ref, events[i], t[i + 1])
      /\ w[i] = Undo(v, ref, events[i], w[i + 1])
  BY <1>2, <1>3, Zenon DEF IsTrace
<2> QED
  BY <2>1, <2>3, <2>4, <2>5, Zenon
<1>6. 1 \in S
<2> HIDE DEF S
<2> QED
  BY <1>1, <1>4, <1>5, Downward
<1> QED
  BY <1>2, <1>3, <1>6, Zenon DEF IsTrace

\* The first interval leaves type, shares and end, and at most adds to the fee or fails.
LEMMA FirstIntervalFields ==
  ASSUME NEW s \in LoopState, NEW ref \in Int, NEW r, r = FirstInterval(s, ref)
  PROVE  /\ r \in LoopState /\ r.shares = s.shares /\ r.done = s.done
         /\ s.done => r = s
         /\ ~s.done => /\ r.fee = s.fee + s.shares * s.rate * (s.until - ref)
                       /\ r.failed = (s.failed \/ s.until < ref)
<1>1. CASE s.done
  BY <1>1 DEF FirstInterval
<1>2. CASE ~s.done
<2> DEFINE x == s.shares * s.rate * (s.until - ref)
<2>1. x \in Int
  BY LoopFields, SlotMore
<2> HIDE DEF x
<2>2. r = [s EXCEPT !.fee = @ + x, !.failed = @ \/ s.until < ref]
  BY <1>2, Zenon DEF FirstInterval, x
<2> DEFINE fee == s.fee + x
           failed == s.failed \/ s.until < ref
<2>3. s = [fee |-> s.fee, shares |-> s.shares, rate |-> s.rate, until |-> s.until,
           done |-> s.done, failed |-> s.failed]
  BY DEF LoopState
<2>4. fee \in Int /\ failed \in BOOLEAN
  BY <2>1, LoopFields
<2>5. r = [s EXCEPT !.fee = fee, !.failed = failed]
  BY <2>2, Zenon
<2> HIDE DEF fee, failed
<2>6. r = [fee |-> fee, shares |-> s.shares, rate |-> s.rate, until |-> s.until,
           done |-> s.done, failed |-> failed]
  BY <2>3, <2>5, Zenon
<2>7. /\ r \in LoopState /\ r.shares = s.shares /\ r.done = s.done
      /\ r.fee = fee /\ r.failed = failed
  BY <2>4, <2>6, LoopFields DEF LoopState
<2> QED
  BY <1>2, <2>7, Zenon DEF x, fee, failed
<1> QED
  BY <1>1, <1>2

\* With its first interval, the walk from a slot later has counted that slot.
LEMMA LaterFirstInterval ==
  ASSUME NEW s \in LoopState, NEW u \in LoopState, NEW ref \in Int, NEW d \in Int,
         IsLater(s, u, d),
         NEW r, r = FirstInterval(s, ref), NEW w, w = FirstInterval(u, ref)
  PROVE  /\ r \in LoopState /\ w \in LoopState
         /\ w.shares = r.shares /\ w.fee = r.fee + d
         /\ ~r.failed => ~w.failed
<1>1. /\ s.fee \in Int /\ s.until \in Int /\ s.failed \in BOOLEAN
      /\ u.fee \in Int /\ u.until \in Int /\ u.failed \in BOOLEAN
      /\ u.shares = s.shares /\ u.rate = s.rate /\ u.done = s.done
      /\ ~s.failed => ~u.failed
  BY LoopFields, Zenon DEF IsLater
<1>2. /\ r \in LoopState /\ r.shares = s.shares /\ w \in LoopState /\ w.shares = u.shares
  BY FirstIntervalFields, Zenon
<1>3. CASE s.done
<2>1. u.until = s.until /\ u.fee = s.fee + d
  BY <1>3, Zenon DEF IsLater
<2>2. r = s /\ w = u
  BY <1>1, <1>3 DEF FirstInterval
<2> QED
  BY <1>1, <1>2, <2>1, <2>2, Zenon
<1>4. CASE ~s.done
<2> DEFINE p == s.shares * s.rate
           x == p * (s.until - ref)
           y == p * (u.until - ref)
<2>1. /\ r.fee = s.fee + x /\ r.failed = (s.failed \/ s.until < ref)
      /\ w.fee = u.fee + y /\ w.failed = (u.failed \/ u.until < ref)
<3>1. /\ w.fee = u.fee + u.shares * u.rate * (u.until - ref)
      /\ w.failed = (u.failed \/ u.until < ref)
  BY <1>1, <1>4, FirstIntervalFields, Zenon
<3>2. r.fee = s.fee + x /\ r.failed = (s.failed \/ s.until < ref)
  BY <1>4, FirstIntervalFields, Zenon
<3> QED
  BY <1>1, <3>1, <3>2, Zenon
<2>2. p \in Int /\ x \in Int /\ p * (s.until + 1 - ref) = x + p
  BY LoopFields, SlotMore
<2>3. CASE u.until = s.until + 1 /\ u.fee = s.fee /\ d = p
<3>0. p * (u.until - ref) = p * (s.until + 1 - ref)
<4> HIDE DEF p
<4>1. u.until - ref = s.until + 1 - ref
  BY <1>1, <2>3
<4> QED
  BY <4>1, Zenon
<3>1. y = x + p
  BY <2>2, <3>0, Zenon
<3> HIDE DEF x, y, p
<3> QED
  BY <1>1, <1>2, <2>1, <2>2, <2>3, <3>1
<2>4. CASE u.until = s.until /\ u.fee = s.fee + d
<3>1. y = x
  BY <2>4, Zenon
<3> HIDE DEF x, y, p
<3> QED
  BY <1>1, <1>2, <2>1, <2>2, <2>4, <3>1
<2> QED
  BY <2>3, <2>4, Zenon DEF IsLater
<1> QED
  BY <1>3, <1>4

-----------------------------------------------------------------------------
(* What a report would charge a vault *)

VaultState == [shares : Nat, rate : Nat]

WalkOf(v, position, events, ref, at) ==
  FirstInterval(Walk(v, events, ref, AtReference(position, at)), ref)

ConnectedSince(v, events, ref) == \E i \in DOMAIN events :
  events[i].kind = "connected" /\ events[i].vault = v /\ events[i].slot > ref

PreviousOf(v, events, report) ==
  IF v \in DOMAIN report.tree /\ ~ConnectedSince(v, events, report.slot)
  THEN report.tree[v] ELSE [fee |-> 0, shares |-> 0]

\* At that slot the vault would be charged what it owes, and would not block the report.
Charged(v, position, events, report, at, owed) ==
  LET w == WalkOf(v, position, events, report.slot, at)
      p == PreviousOf(v, events, report)
  IN ~w.failed /\ w.shares = p.shares /\ w.fee + p.fee = owed

\* The state that the loop starts in has its type.
LEMMA AtReferenceType ==
  ASSUME NEW position \in VaultState, NEW at \in Nat
  PROVE  LET s == AtReference(position, at)
         IN  /\ s \in LoopState /\ s.fee = 0 /\ s.shares = position.shares /\ s.rate = position.rate
             /\ s.until = at /\ ~s.done /\ ~s.failed
<1>1. position.shares \in Int /\ position.rate \in Nat /\ at \in Int
  BY DEF VaultState
<1> QED
  BY <1>1 DEF AtReference, LoopState

\* Undoing an event of the reference slot leads to the vault as it was before it.
LEMMA UndoHere ==
  ASSUME NEW v \in Vault, NEW e \in Event, NEW ref \in Nat, NEW position \in VaultState,
         NEW at \in Nat, e.slot = at, ref < at, Touches(e, v), e.kind # "connected",
         NEW before \in VaultState,
         before.shares = SharesBefore(e, v, position.shares),
         before.rate = RateBefore(e, position.rate)
  PROVE  Undo(v, ref, e, AtReference(position, at)) = AtReference(before, at)
<1> DEFINE s == AtReference(position, at)
           r == StepBack(v, s, e)
<1>1. Undo(v, ref, e, s) = r
  BY DEF Undo, IsFetched
<1>2. /\ s \in LoopState /\ s.fee = 0 /\ s.shares = position.shares /\ s.rate = position.rate
      /\ s.until = at /\ ~s.done /\ ~s.failed
  BY AtReferenceType
<1> HIDE DEF s
<1>3. /\ r \in LoopState
      /\ r.fee = s.fee + s.shares * s.rate * (s.until - e.slot)
      /\ r.until = e.slot
      /\ r.done = (e.kind = "connected")
      /\ r.failed = (s.failed \/ s.until < e.slot \/ (e.kind = "connected" /\ s.shares # 0))
      /\ r.rate = RateBefore(e, s.rate)
      /\ r.shares = SharesBefore(e, v, s.shares)
  BY <1>2, StepBackFields, Zenon DEF IsStepBack
<1> HIDE DEF r
<1>4. r.until = at /\ ~r.done /\ r.rate = before.rate /\ r.shares = before.shares
  BY <1>2, <1>3, Zenon
<1>5. s.until - e.slot = 0 /\ ~(s.until < e.slot)
  BY <1>2
<1>6. r.fee = 0
<2> DEFINE p == s.shares * s.rate
<2>1. p \in Int
  BY <1>2, LoopFields, SlotMore
<2>2. r.fee = s.fee + p * (s.until - e.slot)
  BY <1>3, Zenon
<2> HIDE DEF p
<2>3. p * (s.until - e.slot) = p * 0 /\ p * 0 = 0
  BY <1>5, <2>1
<2> QED
  BY <1>2, <2>2, <2>3
<1>7. ~r.failed
  BY <1>2, <1>3, <1>5, Zenon
<1>8. r = [fee |-> 0, shares |-> before.shares, rate |-> before.rate, until |-> at,
           done |-> FALSE, failed |-> FALSE]
<2>1. /\ r = [fee |-> r.fee, shares |-> r.shares, rate |-> r.rate, until |-> r.until,
              done |-> r.done, failed |-> r.failed]
      /\ r.done \in BOOLEAN /\ r.failed \in BOOLEAN
  BY <1>3 DEF LoopState
<2>2. r.done = FALSE /\ r.failed = FALSE
  BY <1>4, <1>7, <2>1
<2> QED
  BY <1>4, <1>6, <2>1, <2>2, Zenon
<1> QED
  BY <1>1, <1>8, Zenon DEF AtReference, s

\* An event that leads back to the vault as it was keeps what it would be charged.
LEMMA ChargedAppend ==
  ASSUME NEW v, NEW events \in Seq(Event), NEW e \in Event, NEW report, NEW at, NEW owed,
         NEW position, NEW before, Charged(v, before, events, report, at, owed),
         ~(e.kind = "connected" /\ e.vault = v),
         Undo(v, report.slot, e, AtReference(position, at)) = AtReference(before, at)
  PROVE  Charged(v, position, Append(events, e), report, at, owed)
<1> DEFINE more == Append(events, e)
<1>1. WalkOf(v, position, more, report.slot, at) = WalkOf(v, before, events, report.slot, at)
<2>1. Walk(v, more, report.slot, AtReference(position, at)) =
      Walk(v, events, report.slot, Undo(v, report.slot, e, AtReference(position, at)))
  BY WalkAppend
<2> QED
  BY <2>1, Zenon DEF WalkOf
<1>2. ConnectedSince(v, more, report.slot) <=> ConnectedSince(v, events, report.slot)
<2>1. /\ Len(events) \in Nat /\ DOMAIN events = 1 .. Len(events)
      /\ DOMAIN more = 1 .. Len(events) + 1 /\ more[Len(events) + 1] = e
      /\ \A i \in 1 .. Len(events) : more[i] = events[i]
  OBVIOUS
<2>2. /\ 1 .. Len(events) \subseteq 1 .. Len(events) + 1
      /\ \A i \in 1 .. Len(events) + 1 : i \in 1 .. Len(events) \/ i = Len(events) + 1
  BY <2>1
<2> HIDE DEF more
<2> QED
  BY <2>1, <2>2, Zenon DEF ConnectedSince
<1>3. PreviousOf(v, more, report) = PreviousOf(v, events, report)
  BY <1>2, Zenon DEF PreviousOf
<1> QED
  BY <1>1, <1>3, Zenon DEF Charged

\* A vault that was connected in this slot is charged nothing.
LEMMA ChargedConnected ==
  ASSUME NEW v \in Vault, NEW events \in Seq(Event), NEW e \in Event, NEW report,
         report.slot \in Nat, NEW at \in Nat, NEW position \in VaultState, position.shares = 0,
         e.kind = "connected", e.vault = v, e.slot = at, report.slot < at
  PROVE  Charged(v, position, Append(events, e), report, at, 0)
<1> DEFINE more == Append(events, e)
           s == AtReference(position, at)
           r == StepBack(v, s, e)
           ref == report.slot
<1>1. Undo(v, ref, e, s) = r
  BY DEF Undo, IsFetched, Touches
<1>2. /\ s \in LoopState /\ s.fee = 0 /\ s.shares = 0 /\ s.until = at /\ ~s.done /\ ~s.failed
  BY AtReferenceType
<1>0. r = StepBack(v, s, e)
  OBVIOUS
<1> HIDE DEF s, r
<1>3. /\ r \in LoopState
      /\ r.fee = s.fee + s.shares * s.rate * (s.until - e.slot)
      /\ r.until = e.slot
      /\ r.done = (e.kind = "connected")
      /\ r.failed = (s.failed \/ s.until < e.slot \/ (e.kind = "connected" /\ s.shares # 0))
      /\ r.rate = RateBefore(e, s.rate)
      /\ r.shares = SharesBefore(e, v, s.shares)
<2>1. IsStepBack(v, s, e, StepBack(v, s, e))
  BY <1>2, StepBackFields, Zenon
<2> QED
  BY <1>0, <2>1, Zenon DEF IsStepBack
<1>4. r.fee = 0
<2> DEFINE p == s.shares * s.rate
<2>1. p \in Int
  BY <1>2, LoopFields, SlotMore
<2>2. r.fee = s.fee + p * (s.until - e.slot)
  BY <1>3, Zenon
<2> HIDE DEF p
<2>3. p * (s.until - e.slot) = 0
  BY <1>2, <2>1
<2> QED
  BY <1>2, <2>2, <2>3
<1>5. r.done /\ ~r.failed
<2>1. ~(s.until < e.slot)
  BY <1>2
<2> QED
  BY <1>2, <1>3, <2>1, Zenon
<1>6. r.shares = 0
  BY <1>2, <1>3 DEF SharesBefore
<1>7. WalkOf(v, position, more, ref, at) = r
<2>0. Walk(v, more, ref, s) = Walk(v, events, ref, Undo(v, ref, e, s))
  BY WalkAppend
<2>1. Walk(v, more, ref, s) = Walk(v, events, ref, r)
  BY <1>1, <2>0, Zenon
<2>2. Walk(v, events, ref, r) = r
  BY <1>5, WalkRests, Zenon
<2> QED
  BY <1>5, <2>1, <2>2, Zenon DEF WalkOf, FirstInterval, s
<1>8. ConnectedSince(v, more, ref)
<2>1. Len(events) + 1 \in DOMAIN more /\ more[Len(events) + 1] = e
  OBVIOUS
<2> HIDE DEF more
<2> QED
  BY <2>1 DEF ConnectedSince
<1>9. PreviousOf(v, more, report).fee = 0 /\ PreviousOf(v, more, report).shares = 0
  BY <1>8 DEF PreviousOf
<1> HIDE DEF more
<1> QED
  BY <1>4, <1>5, <1>6, <1>7, <1>9 DEF Charged, more

\* A slot later a vault is charged what it owed in that slot as well.
LEMMA ChargedLater ==
  ASSUME NEW v \in Vault, NEW events \in Seq(Event), NEW report, report.slot \in Nat,
         NEW at \in Nat, NEW position \in VaultState, NEW owed,
         PreviousOf(v, events, report).fee \in Int,
         Charged(v, position, events, report, at, owed)
  PROVE  Charged(v, position, events, report, at + 1, owed + position.shares * position.rate)
<1> DEFINE ref == report.slot
           d == position.shares * position.rate
           s == AtReference(position, at)
           u == AtReference(position, at + 1)
           w == WalkOf(v, position, events, ref, at)
           x == WalkOf(v, position, events, ref, at + 1)
           p == PreviousOf(v, events, report)
<1>1. /\ s \in LoopState /\ u \in LoopState /\ d \in Int /\ ref \in Int
      /\ IsLater(s, u, d)
<2>1. at + 1 \in Nat /\ position.shares \in Int /\ position.rate \in Nat
  BY DEF VaultState
<2>2. /\ s \in LoopState /\ s.fee = 0 /\ s.shares = position.shares /\ s.rate = position.rate
      /\ s.until = at /\ ~s.done /\ ~s.failed
  BY AtReferenceType
<2>3. /\ u \in LoopState /\ u.fee = 0 /\ u.shares = position.shares /\ u.rate = position.rate
      /\ u.until = at + 1 /\ ~u.done /\ ~u.failed
  BY <2>1, AtReferenceType
<2>4. u.done = s.done
  BY <2>2, <2>3, LoopFields
<2>5. d \in Int /\ ref \in Int
  BY <2>1, SlotMore
<2>6. d = s.shares * s.rate /\ u.until = s.until + 1
  BY <2>2, <2>3, Zenon
<2> HIDE DEF s, u, d
<2>7. IsLater(s, u, d)
  BY <2>2, <2>3, <2>4, <2>6, Zenon DEF IsLater
<2> QED
  BY <2>2, <2>3, <2>5, <2>7, Zenon
<1> HIDE DEF s, u, d
<1>2. /\ Walk(v, events, ref, s) \in LoopState /\ Walk(v, events, ref, u) \in LoopState
      /\ IsLater(Walk(v, events, ref, s), Walk(v, events, ref, u), d)
  BY <1>1, LaterWalk, WalkType, Zenon
<1>3. /\ w = FirstInterval(Walk(v, events, ref, s), ref)
      /\ x = FirstInterval(Walk(v, events, ref, u), ref)
  BY Zenon DEF WalkOf, s, u
<1> HIDE DEF w, x
<1>4. /\ w \in LoopState /\ x \in LoopState /\ x.shares = w.shares /\ x.fee = w.fee + d
      /\ ~w.failed => ~x.failed
  BY <1>1, <1>2, <1>3, LaterFirstInterval
<1>5. ~w.failed /\ w.shares = p.shares /\ w.fee + p.fee = owed /\ p.fee \in Int
  BY Zenon DEF Charged, w
<1> HIDE DEF p
<1>6. w.fee \in Int
  BY <1>4, LoopFields
<1>7. x.fee + p.fee = owed + d
  BY <1>1, <1>4, <1>5, <1>6
<1> QED
  BY <1>4, <1>5, <1>7, Zenon DEF Charged, x, p, d

\* In the slot after a report, a vault is charged what the report has charged it and what it
\* owed since.
LEMMA ChargedReported ==
  ASSUME NEW v \in Vault, NEW events \in Seq(Event), NEW report, NEW at \in Nat,
         report.slot = at, \A i \in DOMAIN events : events[i].slot <= at,
         NEW position \in VaultState, NEW owed \in Int,
         v \in DOMAIN report.tree, report.tree[v].fee = owed,
         report.tree[v].shares = position.shares
  PROVE  Charged(v, position, events, report, at + 1, owed + position.shares * position.rate)
<1> DEFINE d == position.shares * position.rate
           u == AtReference(position, at + 1)
           x == WalkOf(v, position, events, at, at + 1)
<1>1. \A i \in DOMAIN events : ~(events[i].slot > at)
<2>1. \A i \in DOMAIN events : events[i].slot \in Nat
<3>1. \A i \in DOMAIN events : events[i] \in Event
  OBVIOUS
<3> QED
  BY <3>1 DEF Event
<2> QED
  BY <2>1
<1>2. PreviousOf(v, events, report) = report.tree[v]
  BY <1>1, Zenon DEF PreviousOf, ConnectedSince
<1>3. Walk(v, events, at, u) = u
  BY <1>1, WalkRests, Zenon DEF IsFetched
<1>4. x = FirstInterval(u, at)
  BY <1>3, Zenon DEF WalkOf
<1>5. /\ u \in LoopState /\ u.fee = 0 /\ u.shares = position.shares /\ u.rate = position.rate
      /\ u.until = at + 1 /\ ~u.done /\ ~u.failed
<2>1. at + 1 \in Nat
  OBVIOUS
<2> QED
  BY <2>1, AtReferenceType, Zenon
<1>6. d \in Int
<2>1. position.shares \in Int /\ position.rate \in Nat
  BY DEF VaultState
<2> QED
  BY <2>1, SlotMore
<1> HIDE DEF u, x
<1>7. /\ x.shares = u.shares
      /\ x.fee = u.fee + u.shares * u.rate * (u.until - at)
      /\ x.failed = (u.failed \/ u.until < at)
<2>1. at \in Int
  OBVIOUS
<2> QED
  BY <1>4, <1>5, <2>1, FirstIntervalFields, Zenon
<1>8. ~(u.until < at) /\ u.until - at = 1
  BY <1>5
<1>9. x.fee = 0 + d * 1
  BY <1>5, <1>7, <1>8, Zenon
<1>10. ~x.failed
  BY <1>5, <1>7, <1>8, Zenon
<1> HIDE DEF d
<1>11. x.fee + owed = owed + d
  BY <1>6, <1>9
<1> QED
  BY <1>2, <1>5, <1>7, <1>10, <1>11, Zenon DEF Charged, x, d

-----------------------------------------------------------------------------
(* The fees are due *)

\* At any moment, a report made now would charge every vault in all what it owed since it was
\* connected, and no vault would block it.
FeesInv ==
  /\ slot \in Nat /\ DOMAIN vaults \subseteq Vault /\ vaults \in [DOMAIN vaults -> VaultState]
  /\ hubEvents \in Seq(Event) /\ \A i \in DOMAIN hubEvents : hubEvents[i].slot <= slot
  /\ DOMAIN due = DOMAIN vaults /\ \A v \in DOMAIN vaults : due[v] \in Int
  /\ last.slot \in Nat /\ last.slot < slot
  /\ \A v \in DOMAIN last.tree : last.tree[v].fee \in Int
  /\ \A v \in DOMAIN vaults : Charged(v, vaults[v], hubEvents, last, slot, due[v])

\* What the invariant says of a report.
LEMMA InvOfReport ==
  ASSUME FeesInv, NEW v \in DOMAIN vaults
  PROVE  ~Fails(v) /\ ReportedFee(v) = due[v]
<1>1. /\ WalkBack(v) = WalkOf(v, vaults[v], hubEvents, last.slot, slot)
      /\ Previous(v) = PreviousOf(v, hubEvents, last)
  BY Zenon DEF WalkBack, WalkOf, Previous, PreviousOf, PreviousTree, Reconnected, ConnectedSince
<1>2. Charged(v, vaults[v], hubEvents, last, slot, due[v])
  BY DEF FeesInv
<1> QED
  BY <1>1, <1>2, Zenon DEF Charged, Fails, ReportedFee

\* An event of this slot goes to the end.
LEMMA Emitted ==
  ASSUME FeesInv, NEW kind \in {"minted", "repaid", "socialized", "fees", "connected"},
         NEW v \in Vault, NEW amount \in Nat, NEW u \in Vault, Emit(kind, v, amount, u)
  PROVE  \E e \in Event :
           /\ e.kind = kind /\ e.vault = v /\ e.amount = amount /\ e.acceptor = u
           /\ e.slot = slot
           /\ hubEvents' = Append(hubEvents, e) /\ hubEvents' \in Seq(Event)
           /\ \A i \in DOMAIN hubEvents' : hubEvents'[i].slot <= slot
<1> DEFINE e == [kind |-> kind, vault |-> v, amount |-> amount, acceptor |-> u, slot |-> slot]
<1>1. /\ e \in Event /\ e.kind = kind /\ e.vault = v /\ e.amount = amount
      /\ e.acceptor = u /\ e.slot = slot
  BY DEF Event, FeesInv
<1>2. hubEvents' = Append(hubEvents, e)
  BY DEF Emit
<1> HIDE DEF e
<1>3. /\ Append(hubEvents, e) \in Seq(Event)
      /\ DOMAIN Append(hubEvents, e) = 1 .. Len(hubEvents) + 1
      /\ Append(hubEvents, e)[Len(hubEvents) + 1] = e
      /\ \A i \in 1 .. Len(hubEvents) :
           i \in DOMAIN hubEvents /\ Append(hubEvents, e)[i] = hubEvents[i]
      /\ Len(hubEvents) \in Nat
  BY <1>1 DEF FeesInv
<1>4. slot \in Nat /\ \A i \in DOMAIN hubEvents : hubEvents[i].slot <= slot
  BY DEF FeesInv
<1>5. \A i \in 1 .. Len(hubEvents) + 1 : i \in 1 .. Len(hubEvents) \/ i = Len(hubEvents) + 1
  BY <1>3
<1>6. \A i \in DOMAIN Append(hubEvents, e) : Append(hubEvents, e)[i].slot <= slot
  BY <1>1, <1>3, <1>4, <1>5
<1> QED
  BY <1>1, <1>2, <1>3, <1>6, Zenon

\* A change of vaults that one event of this slot tells of, other than a connection.
LEMMA ChangeStep ==
  ASSUME FeesInv, NEW e \in Event, e.slot = slot, e.kind # "connected",
         hubEvents' = Append(hubEvents, e), hubEvents' \in Seq(Event),
         \A i \in DOMAIN hubEvents' : hubEvents'[i].slot <= slot,
         slot' = slot, last' = last, due' = due,
         vaults' \in [DOMAIN vaults -> VaultState],
         \A v \in DOMAIN vaults : ~Touches(e, v) => vaults'[v] = vaults[v],
         \A v \in DOMAIN vaults : Touches(e, v) =>
           /\ vaults[v].shares = SharesBefore(e, v, vaults'[v].shares)
           /\ vaults[v].rate = RateBefore(e, vaults'[v].rate)
  PROVE  FeesInv'
<1>1. DOMAIN vaults' = DOMAIN vaults
  OBVIOUS
<1>2. ASSUME NEW v \in DOMAIN vaults
      PROVE  Charged(v, vaults'[v], hubEvents', last, slot, due[v])
<2>1. /\ v \in Vault /\ vaults[v] \in VaultState /\ vaults'[v] \in VaultState
      /\ hubEvents \in Seq(Event) /\ slot \in Nat /\ last.slot \in Nat /\ last.slot < slot
      /\ Charged(v, vaults[v], hubEvents, last, slot, due[v])
  BY DEF FeesInv
<2>2. Undo(v, last.slot, e, AtReference(vaults'[v], slot)) = AtReference(vaults[v], slot)
<3>1. CASE Touches(e, v)
  BY <2>1, <3>1, UndoHere
<3>2. CASE ~Touches(e, v)
  BY <3>2, Zenon DEF Undo, IsFetched
<3> QED
  BY <3>1, <3>2
<2>3. Charged(v, vaults'[v], Append(hubEvents, e), last, slot, due[v])
  BY <2>1, <2>2, ChargedAppend
<2> QED
  BY <2>3, Zenon
<1> QED
  BY <1>1, <1>2 DEF FeesInv

LEMMA MintStep ==
  ASSUME FeesInv, NEW v \in DOMAIN vaults, NEW a \in 1 .. MaxShares, Mint(v, a)
  PROVE  FeesInv'
<1>1. v \in Vault /\ a \in Nat /\ vaults[v].shares \in Nat /\ vaults[v].rate \in Nat
  BY VaultFeesAssumption DEF FeesInv, VaultState
<1>2. PICK e \in Event :
        /\ e.kind = "minted" /\ e.vault = v /\ e.amount = a /\ e.acceptor = v /\ e.slot = slot
        /\ hubEvents' = Append(hubEvents, e) /\ hubEvents' \in Seq(Event)
        /\ \A i \in DOMAIN hubEvents' : hubEvents'[i].slot <= slot
  BY <1>1, Emitted DEF Mint
<1>3. /\ vaults' = [vaults EXCEPT ![v].shares = @ + a] /\ slot' = slot /\ last' = last
      /\ due' = due
  BY DEF Mint, Owe
<1>4. vaults[v].shares + a \in Nat
  BY <1>1
<1>5. /\ vaults' \in [DOMAIN vaults -> VaultState]
      /\ vaults'[v].shares = vaults[v].shares + a /\ vaults'[v].rate = vaults[v].rate
      /\ \A u \in DOMAIN vaults \ {v} : vaults'[u] = vaults[u]
  BY <1>3, <1>4 DEF FeesInv, VaultState
<1>6. /\ vaults[v].shares = SharesBefore(e, v, vaults'[v].shares)
      /\ vaults[v].rate = RateBefore(e, vaults'[v].rate)
  BY <1>1, <1>2, <1>5 DEF SharesBefore, RateBefore
<1>7. \A u \in DOMAIN vaults : Touches(e, u) <=> u = v
  BY <1>2 DEF Touches
<1> QED
  BY <1>2, <1>3, <1>5, <1>6, <1>7, ChangeStep

LEMMA RepayStep ==
  ASSUME FeesInv, NEW v \in DOMAIN vaults, NEW a \in 1 .. MaxShares, Repay(v, a)
  PROVE  FeesInv'
<1>1. v \in Vault /\ a \in Nat /\ vaults[v].shares \in Nat /\ vaults[v].rate \in Nat
  BY VaultFeesAssumption DEF FeesInv, VaultState
<1>2. PICK e \in Event :
        /\ e.kind = "repaid" /\ e.vault = v /\ e.amount = a /\ e.acceptor = v /\ e.slot = slot
        /\ hubEvents' = Append(hubEvents, e) /\ hubEvents' \in Seq(Event)
        /\ \A i \in DOMAIN hubEvents' : hubEvents'[i].slot <= slot
  BY <1>1, Emitted DEF Repay
<1>3. /\ vaults' = [vaults EXCEPT ![v].shares = @ + -a] /\ slot' = slot /\ last' = last
      /\ due' = due /\ vaults[v].shares + -a \in 0 .. MaxShares
  BY DEF Repay, Owe
<1>4. vaults[v].shares + -a \in Nat
  BY <1>3
<1>5. /\ vaults' \in [DOMAIN vaults -> VaultState]
      /\ vaults'[v].shares = vaults[v].shares + -a /\ vaults'[v].rate = vaults[v].rate
      /\ \A u \in DOMAIN vaults \ {v} : vaults'[u] = vaults[u]
  BY <1>3, <1>4 DEF FeesInv, VaultState
<1>6. /\ vaults[v].shares = SharesBefore(e, v, vaults'[v].shares)
      /\ vaults[v].rate = RateBefore(e, vaults'[v].rate)
<2>1. /\ SharesBefore(e, v, vaults'[v].shares) = vaults'[v].shares + a
      /\ RateBefore(e, vaults'[v].rate) = vaults'[v].rate
  BY <1>2, Zenon DEF SharesBefore, RateBefore
<2> QED
  BY <1>1, <1>5, <2>1
<1>7. \A u \in DOMAIN vaults : Touches(e, u) <=> u = v
  BY <1>2 DEF Touches
<1> QED
  BY <1>2, <1>3, <1>5, <1>6, <1>7, ChangeStep

LEMMA SocializeStep ==
  ASSUME FeesInv, NEW v \in DOMAIN vaults, NEW u \in DOMAIN vaults,
         NEW a \in 1 .. MaxShares, SocializeBadDebt(v, u, a)
  PROVE  FeesInv'
<1>1. /\ v \in Vault /\ a \in Nat /\ vaults[v].shares \in Nat /\ vaults[v].rate \in Nat
      /\ u \in Vault /\ vaults[u].shares \in Nat /\ vaults[u].rate \in Nat
      /\ u # v /\ vaults[v].shares >= a
  BY VaultFeesAssumption DEF FeesInv, VaultState, SocializeBadDebt
<1>2. PICK e \in Event :
        /\ e.kind = "socialized" /\ e.vault = v /\ e.amount = a /\ e.acceptor = u
        /\ e.slot = slot
        /\ hubEvents' = Append(hubEvents, e) /\ hubEvents' \in Seq(Event)
        /\ \A i \in DOMAIN hubEvents' : hubEvents'[i].slot <= slot
  BY <1>1, Emitted DEF SocializeBadDebt
<1>3. /\ vaults' = [vaults EXCEPT ![v].shares = @ - a, ![u].shares = @ + a]
      /\ slot' = slot /\ last' = last /\ due' = due
  BY DEF SocializeBadDebt
<1>4. vaults[v].shares - a \in Nat /\ vaults[u].shares + a \in Nat
  BY <1>1
<1>5. /\ vaults' \in [DOMAIN vaults -> VaultState]
      /\ vaults'[v].shares = vaults[v].shares - a /\ vaults'[v].rate = vaults[v].rate
      /\ vaults'[u].shares = vaults[u].shares + a /\ vaults'[u].rate = vaults[u].rate
      /\ \A w \in DOMAIN vaults \ {v, u} : vaults'[w] = vaults[w]
  BY <1>1, <1>3, <1>4 DEF FeesInv, VaultState
<1>6. /\ vaults[v].shares = SharesBefore(e, v, vaults'[v].shares)
      /\ vaults[v].rate = RateBefore(e, vaults'[v].rate)
      /\ vaults[u].shares = SharesBefore(e, u, vaults'[u].shares)
      /\ vaults[u].rate = RateBefore(e, vaults'[u].rate)
  BY <1>1, <1>2, <1>5 DEF SharesBefore, RateBefore
<1>7. \A w \in DOMAIN vaults : Touches(e, w) <=> w \in {v, u}
  BY <1>2 DEF Touches
<1> QED
<2>1. \A w \in DOMAIN vaults : ~Touches(e, w) => vaults'[w] = vaults[w]
  BY <1>5, <1>7
<2>2. \A w \in DOMAIN vaults : Touches(e, w) =>
        /\ vaults[w].shares = SharesBefore(e, w, vaults'[w].shares)
        /\ vaults[w].rate = RateBefore(e, vaults'[w].rate)
  BY <1>6, <1>7, Zenon
<2>3. e.kind # "connected" /\ slot' = slot /\ last' = last /\ due' = due
  BY <1>2, <1>3
<2> QED
  BY <1>2, <1>5, <2>1, <2>2, <2>3, ChangeStep

LEMMA UpdateFeesStep ==
  ASSUME FeesInv, NEW v \in DOMAIN vaults, NEW rate \in Rates, UpdateFees(v, rate)
  PROVE  FeesInv'
<1>1. v \in Vault /\ rate \in Nat /\ vaults[v].shares \in Nat /\ vaults[v].rate \in Nat
  BY VaultFeesAssumption DEF FeesInv, VaultState
<1>2. PICK e \in Event :
        /\ e.kind = "fees" /\ e.vault = v /\ e.amount = vaults[v].rate /\ e.acceptor = v
        /\ e.slot = slot
        /\ hubEvents' = Append(hubEvents, e) /\ hubEvents' \in Seq(Event)
        /\ \A i \in DOMAIN hubEvents' : hubEvents'[i].slot <= slot
  BY <1>1, Emitted DEF UpdateFees
<1>3. /\ vaults' = [vaults EXCEPT ![v].rate = rate] /\ slot' = slot /\ last' = last
      /\ due' = due
  BY DEF UpdateFees
<1>4. /\ vaults' \in [DOMAIN vaults -> VaultState]
      /\ vaults'[v].shares = vaults[v].shares /\ vaults'[v].rate = rate
      /\ \A u \in DOMAIN vaults \ {v} : vaults'[u] = vaults[u]
  BY <1>1, <1>3 DEF FeesInv, VaultState
<1>5. /\ vaults[v].shares = SharesBefore(e, v, vaults'[v].shares)
      /\ vaults[v].rate = RateBefore(e, vaults'[v].rate)
  BY <1>1, <1>2, <1>4 DEF SharesBefore, RateBefore
<1>6. \A u \in DOMAIN vaults : Touches(e, u) <=> u = v
  BY <1>2 DEF Touches
<1> QED
  BY <1>2, <1>3, <1>4, <1>5, <1>6, ChangeStep

LEMMA DisconnectStep ==
  ASSUME FeesInv, NEW v \in DOMAIN vaults, Disconnect(v)
  PROVE  FeesInv'
<1>1. /\ vaults' = [u \in DOMAIN vaults \ {v} |-> vaults[u]]
      /\ due' = [u \in DOMAIN due \ {v} |-> due[u]]
      /\ slot' = slot /\ hubEvents' = hubEvents /\ last' = last
  BY DEF Disconnect
<1>2. /\ DOMAIN vaults' = DOMAIN vaults \ {v} /\ DOMAIN due' = DOMAIN vaults'
      /\ vaults' \in [DOMAIN vaults' -> VaultState]
      /\ \A u \in DOMAIN vaults' :
           u \in DOMAIN vaults /\ vaults'[u] = vaults[u] /\ due'[u] = due[u]
  BY <1>1 DEF FeesInv
<1> QED
  BY <1>1, <1>2 DEF FeesInv

LEMMA ConnectStep ==
  ASSUME FeesInv, NEW v \in Vault, NEW rate \in Rates, Connect(v, rate)
  PROVE  FeesInv'
<1> DEFINE position == [shares |-> 0, rate |-> rate]
<1>1. position \in VaultState /\ position.shares = 0
  BY VaultFeesAssumption DEF VaultState
<1>2. PICK e \in Event :
        /\ e.kind = "connected" /\ e.vault = v /\ e.amount = 0 /\ e.acceptor = v
        /\ e.slot = slot
        /\ hubEvents' = Append(hubEvents, e) /\ hubEvents' \in Seq(Event)
        /\ \A i \in DOMAIN hubEvents' : hubEvents'[i].slot <= slot
<2>1. Emit("connected", v, 0, v) /\ 0 \in Nat
  BY DEF Connect
<2> QED
  BY <2>1, Emitted
<1>3. /\ v \notin DOMAIN vaults
      /\ vaults' = [u \in DOMAIN vaults \cup {v} |-> IF u = v THEN position ELSE vaults[u]]
      /\ due' = [u \in DOMAIN due \cup {v} |-> IF u = v THEN 0 ELSE due[u]]
      /\ slot' = slot /\ last' = last
  BY DEF Connect
<1> HIDE DEF position
<1>4. DOMAIN vaults' = DOMAIN vaults \cup {v} /\ DOMAIN due' = DOMAIN vaults'
  BY <1>3 DEF FeesInv
<1>5. /\ vaults' \in [DOMAIN vaults' -> VaultState] /\ vaults'[v] = position /\ due'[v] = 0
      /\ \A u \in DOMAIN vaults : vaults'[u] = vaults[u] /\ due'[u] = due[u] /\ u # v
  BY <1>1, <1>3, <1>4 DEF FeesInv
<1>6. Charged(v, position, hubEvents', last, slot, 0)
  BY <1>1, <1>2, ChargedConnected DEF FeesInv
<1>7. ASSUME NEW u \in DOMAIN vaults
      PROVE  Charged(u, vaults[u], hubEvents', last, slot, due[u])
<2>1. Charged(u, vaults[u], hubEvents, last, slot, due[u]) /\ hubEvents \in Seq(Event)
  BY DEF FeesInv
<2>2. u # v
  BY <1>3
<2>3. Undo(u, last.slot, e, AtReference(vaults[u], slot)) = AtReference(vaults[u], slot)
  BY <1>2, <2>2 DEF Undo, IsFetched, Touches
<2> QED
  BY <1>2, <2>1, <2>2, <2>3, ChargedAppend
<1>8. \A u \in DOMAIN vaults' :
        due'[u] \in Int /\ Charged(u, vaults'[u], hubEvents', last, slot, due'[u])
<2>1. \A u \in DOMAIN vaults : due[u] \in Int
  BY DEF FeesInv
<2> QED
  BY <1>4, <1>5, <1>6, <1>7, <2>1
<1> QED
  BY <1>2, <1>3, <1>4, <1>5, <1>8 DEF FeesInv

LEMMA NextSlotStep ==
  ASSUME FeesInv, NEW reported \in BOOLEAN, NextSlot(reported)
  PROVE  FeesInv'
<1>1. /\ slot' = slot + 1 /\ vaults' = vaults /\ slot \in Nat
      /\ due' = [v \in DOMAIN due |-> due[v] + vaults[v].shares * vaults[v].rate]
      /\ DOMAIN due = DOMAIN vaults /\ hubEvents \in Seq(Event)
      /\ \A i \in DOMAIN hubEvents : hubEvents[i].slot <= slot
      /\ last.slot \in Nat /\ last.slot < slot
  BY DEF NextSlot, FeesInv
<1>2. PICK k \in 0 .. Len(hubEvents) :
        /\ ~reported => k = 0
        /\ hubEvents' = SubSeq(hubEvents, k + 1, Len(hubEvents))
  BY DEF NextSlot
<1>3. /\ hubEvents' \in Seq(Event)
      /\ \A i \in DOMAIN hubEvents' : hubEvents'[i].slot <= slot
<2> DEFINE m == k + 1
           n == Len(hubEvents)
<2>1. m \in Int /\ n \in Int /\ \A i \in m .. n : i \in DOMAIN hubEvents /\ hubEvents[i] \in Event
  BY <1>1, <1>2
<2>2. /\ hubEvents' \in Seq(Event)
      /\ Len(hubEvents') = IF m <= n THEN n - m + 1 ELSE 0
      /\ \A i \in 1 .. n - m + 1 : hubEvents'[i] = hubEvents[m + i - 1]
  BY <1>2, <2>1, SubSeqProperties
<2> SUFFICES ASSUME NEW i \in DOMAIN hubEvents' PROVE hubEvents'[i].slot <= slot
  BY <2>2
<2> HIDE DEF m, n
<2>3. i \in 1 .. n - m + 1 /\ m + i - 1 \in m .. n
<3>1. i \in 1 .. Len(hubEvents')
  BY <2>2
<3>2. m <= n /\ Len(hubEvents') = n - m + 1
  BY <2>1, <2>2, <3>1
<3>3. i \in 1 .. n - m + 1
  BY <3>1, <3>2
<3>4. m \in Int /\ n \in Int /\ i \in Int
  BY <2>1, <3>1
<3> QED
  BY <3>3, <3>4
<2> QED
  BY <1>1, <2>1, <2>2, <2>3
<1>4. ASSUME NEW v \in DOMAIN vaults
      PROVE  /\ v \in Vault /\ vaults[v] \in VaultState /\ due[v] \in Int
             /\ vaults[v].shares * vaults[v].rate \in Int
             /\ due'[v] = due[v] + vaults[v].shares * vaults[v].rate
             /\ due'[v] \in Int
<2>1. /\ v \in Vault /\ vaults[v] \in VaultState /\ due[v] \in Int
      /\ vaults[v].shares \in Int /\ vaults[v].rate \in Nat
  BY DEF FeesInv, VaultState
<2>2. vaults[v].shares * vaults[v].rate \in Int
  BY <2>1, SlotMore
<2>3. due'[v] = due[v] + vaults[v].shares * vaults[v].rate
  BY <1>1
<2> DEFINE d == vaults[v].shares * vaults[v].rate
<2> HIDE DEF d
<2>4. d \in Int /\ due'[v] = due[v] + d
  BY <2>2, <2>3, Zenon DEF d
<2>5. due'[v] \in Int
  BY <2>1, <2>4
<2> QED
  BY <2>1, <2>2, <2>3, <2>5, Zenon
<1>5. CASE ~reported
<2>1. last' = last
  BY <1>5 DEF NextSlot
<2>2. hubEvents' = hubEvents
<3>1. hubEvents' = SubSeq(hubEvents, 1, Len(hubEvents))
  BY <1>2, <1>5
<3> QED
  BY <1>1, <3>1, SubSeqFull
<2>3. ASSUME NEW v \in DOMAIN vaults
      PROVE  Charged(v, vaults[v], hubEvents, last, slot + 1, due'[v])
<3>1. Charged(v, vaults[v], hubEvents, last, slot, due[v])
  BY DEF FeesInv
<3>2. PreviousOf(v, hubEvents, last).fee \in Int
  BY DEF PreviousOf, FeesInv
<3>3. Charged(v, vaults[v], hubEvents, last, slot + 1,
              due[v] + vaults[v].shares * vaults[v].rate)
  BY <1>1, <1>4, <3>1, <3>2, ChargedLater
<3> QED
  BY <1>4, <3>3, Zenon
<2>4. /\ slot' \in Nat /\ last.slot < slot' /\ DOMAIN due' = DOMAIN vaults
      /\ \A i \in DOMAIN hubEvents : hubEvents[i].slot <= slot'
<3>1. \A i \in DOMAIN hubEvents : hubEvents[i].slot \in Nat
<4>1. \A i \in DOMAIN hubEvents : hubEvents[i] \in Event
  BY <1>1
<4> QED
  BY <4>1 DEF Event
<3> QED
  BY <1>1, <3>1
<2>5. \A v \in DOMAIN vaults :
        due'[v] \in Int /\ Charged(v, vaults[v], hubEvents, last, slot', due'[v])
  BY <1>1, <1>4, <2>3, Zenon
<2> QED
  BY <1>1, <2>1, <2>2, <2>4, <2>5, Zenon DEF FeesInv
<1>6. CASE reported
<2>1. /\ last'.slot = slot /\ DOMAIN last'.tree = DOMAIN vaults
      /\ \A v \in DOMAIN vaults : /\ last'.tree[v].fee = ReportedFee(v)
                                  /\ last'.tree[v].shares = vaults[v].shares
  BY <1>6 DEF NextSlot, VaultsReport, Tree
<2>2. ASSUME NEW v \in DOMAIN vaults
      PROVE  /\ last'.tree[v].fee = due[v]
             /\ Charged(v, vaults[v], hubEvents', last', slot + 1, due'[v])
<3>1. last'.tree[v].fee = due[v]
  BY <2>1, InvOfReport, Zenon
<3>2. Charged(v, vaults[v], hubEvents', last', slot + 1,
              due[v] + vaults[v].shares * vaults[v].rate)
  BY <1>1, <1>3, <1>4, <2>1, <3>1, ChargedReported
<3> QED
  BY <1>4, <3>1, <3>2, Zenon
<2>3. /\ slot' \in Nat /\ last'.slot \in Nat /\ last'.slot < slot'
      /\ DOMAIN due' = DOMAIN vaults
      /\ \A i \in DOMAIN hubEvents' : hubEvents'[i].slot <= slot'
<3>1. \A i \in DOMAIN hubEvents' : hubEvents'[i].slot \in Nat
<4>1. \A i \in DOMAIN hubEvents' : hubEvents'[i] \in Event
  BY <1>3
<4> QED
  BY <4>1 DEF Event
<3> QED
  BY <1>1, <1>3, <2>1, <3>1
<2>4. \A v \in DOMAIN last'.tree : last'.tree[v].fee \in Int
  BY <1>4, <2>1, <2>2
<2>5. \A v \in DOMAIN vaults :
        due'[v] \in Int /\ Charged(v, vaults[v], hubEvents', last', slot', due'[v])
  BY <1>1, <1>4, <2>2, Zenon
<2> QED
  BY <1>1, <1>3, <2>3, <2>4, <2>5, Zenon DEF FeesInv
<1> QED
  BY <1>5, <1>6

LEMMA FeesInitInv == FeesInit => FeesInv
  BY DEF FeesInit, FeesInv

LEMMA FeesStep == FeesInv /\ [FeesNext]_feesVars => FeesInv'
<1> SUFFICES ASSUME FeesInv, [FeesNext]_feesVars PROVE FeesInv'
  OBVIOUS
<1>1. ASSUME NEW v \in Vault, NEW rate \in Rates, Connect(v, rate) PROVE FeesInv'
  BY <1>1, ConnectStep
<1>2. ASSUME NEW v \in DOMAIN vaults, Disconnect(v) PROVE FeesInv'
  BY <1>2, DisconnectStep
<1>3. ASSUME NEW v \in DOMAIN vaults, NEW a \in 1 .. MaxShares,
             Mint(v, a) \/ Repay(v, a) \/ \E u \in DOMAIN vaults : SocializeBadDebt(v, u, a)
      PROVE  FeesInv'
  BY <1>3, MintStep, RepayStep, SocializeStep
<1>4. ASSUME NEW v \in DOMAIN vaults, NEW rate \in Rates, UpdateFees(v, rate) PROVE FeesInv'
  BY <1>4, UpdateFeesStep
<1>5. ASSUME NEW reported \in BOOLEAN, NextSlot(reported) PROVE FeesInv'
  BY <1>5, NextSlotStep
<1>6. CASE UNCHANGED feesVars
<2>1. /\ slot' = slot /\ vaults' = vaults /\ hubEvents' = hubEvents /\ last' = last
      /\ due' = due
  BY <1>6 DEF feesVars
<2> QED
  BY <2>1, Zenon DEF FeesInv
<1> QED
  BY <1>1, <1>2, <1>3, <1>4, <1>5, <1>6 DEF FeesNext

LEMMA FeesInvariant == FeesSpec => []FeesInv
  BY FeesInitInv, FeesStep, PTL DEF FeesSpec

\* staking_vaults.py:591-646, 888-896: no history of the hub, however vaults come, go, mint,
\* repay, take over bad debt and change their rates, makes one of the ValueErrors stop the
\* report.
THEOREM VaultsNeverBlock == FeesSpec => []NoVaultBlocksTheReport
<1>1. FeesInv => NoVaultBlocksTheReport
  BY InvOfReport, Zenon DEF NoVaultBlocksTheReport
<1> QED
  BY <1>1, FeesInvariant, PTL

\* staking_vaults.py:552-658, 852-902: every report charges every vault in all exactly what it
\* has owed since it was connected.
THEOREM VaultsPayWhatTheyOwe == FeesSpec => FeesFollowLiabilities
<1>1. FeesInv /\ [FeesNext]_feesVars =>
        (last' # last => \A v \in DOMAIN vaults : last'.tree[v].fee = due[v])
<2> SUFFICES ASSUME FeesInv, [FeesNext]_feesVars, last' # last, NEW v \in DOMAIN vaults
             PROVE  last'.tree[v].fee = due[v]
  OBVIOUS
<2>1. PICK reported \in BOOLEAN : NextSlot(reported)
  BY DEF FeesNext, feesVars, Connect, Disconnect, Mint, Repay, SocializeBadDebt, UpdateFees
<2>2. last'.tree[v].fee = ReportedFee(v)
  BY <2>1 DEF NextSlot, VaultsReport, Tree
<2> QED
  BY <2>2, InvOfReport, Zenon
<1> QED
  BY <1>1, FeesInvariant, PTL DEF FeesSpec, FeesFollowLiabilities

-----------------------------------------------------------------------------
(* Amounts of deposits in a queue *)

\* A sum over some places of a queue is that of natural numbers.
LEMMA AmountsType ==
  ASSUME NEW D, \A d \in D : d.amount \in Nat, NEW s \in Seq(D), NEW S \in SUBSET (DOMAIN s)
  PROVE  /\ Amounts(s, S) \in Nat /\ IsFiniteSet(S)
         /\ \A i \in DOMAIN s : s[i].amount \in Nat
<1> DEFINE f == [i \in DOMAIN s |-> s[i].amount]
<1>1. \A i \in DOMAIN s : s[i].amount \in Nat
<2>1. \A i \in DOMAIN s : s[i] \in D
  OBVIOUS
<2> QED
  BY <2>1
<1>2. IsFiniteSet(S)
<2>1. DOMAIN s = 1 .. Len(s) /\ Len(s) \in Int
  OBVIOUS
<2>2. IsFiniteSet(1 .. Len(s))
  BY <2>1, FS_Interval
<2> QED
  BY <2>1, <2>2, FS_Subset
<1>3. \A i \in S : f[i] \in Nat
  BY <1>1
<1>4. Amounts(s, S) = SumFunctionOnSet(f, S)
  BY Zenon DEF Amounts
<1>5. SumFunctionOnSet(f, S) \in Nat
<2> HIDE DEF f
<2> QED
  BY <1>2, <1>3, SumFacts
<1> QED
  BY <1>1, <1>2, <1>4, <1>5

\* A deposit that comes last leaves the sums over the others, and adds its amount to them.
LEMMA AmountsAppend ==
  ASSUME NEW D, \A d \in D : d.amount \in Nat, NEW s \in Seq(D), NEW d \in D,
         NEW S \in SUBSET (DOMAIN s)
  PROVE  /\ Amounts(Append(s, d), S) = Amounts(s, S)
         /\ Amounts(Append(s, d), S \cup {Len(s) + 1}) = Amounts(s, S) + d.amount
<1> DEFINE t == Append(s, d)
           n == Len(s) + 1
           f == [i \in DOMAIN s |-> s[i].amount]
           g == [i \in DOMAIN t |-> t[i].amount]
           T == S \cup {n}
<1>1. t \in Seq(D) /\ DOMAIN t = 1 .. n /\ DOMAIN s = 1 .. Len(s) /\ Len(s) \in Nat
      /\ t[n] = d /\ \A i \in 1 .. Len(s) : t[i] = s[i]
  OBVIOUS
<1>2. /\ Amounts(t, S) = SumFunctionOnSet(g, S) /\ Amounts(t, T) = SumFunctionOnSet(g, T)
      /\ Amounts(s, S) = SumFunctionOnSet(f, S)
  BY Zenon DEF Amounts
<1>3. T \in SUBSET (DOMAIN t) /\ n \in T /\ T \ {n} = S
  BY <1>1
<1>4. /\ IsFiniteSet(S) /\ Amounts(s, S) \in Nat
      /\ \A i \in DOMAIN s : s[i].amount \in Nat
  BY AmountsType
<1>5. IsFiniteSet(T) /\ \A i \in DOMAIN t : t[i].amount \in Nat
<2> HIDE DEF t, T
<2> QED
  BY <1>1, <1>3, AmountsType
<1>6. (\A i \in S : f[i] \in Int /\ g[i] = f[i]) /\ (\A i \in T : g[i] \in Int) /\ g[n] = d.amount
  BY <1>1, <1>3, <1>4, <1>5
<1> HIDE DEF t, n, f, g, T
<1>7. SumFunctionOnSet(g, S) = SumFunctionOnSet(f, S)
  BY <1>4, <1>6, SumSame
<1>8. SumFunctionOnSet(g, T) = g[n] + SumFunctionOnSet(g, T \ {n})
<2>1. IsFiniteSet(T) /\ \A i \in T : g[i] \in Int
  BY <1>5, <1>6
<2>2. \A i \in T : SumFunctionOnSet(g, T) = g[i] + SumFunctionOnSet(g, T \ {i})
  BY ONLY <2>1, SumFacts
<2> QED
  BY <1>3, <2>2
<1>9. Amounts(t, T) = Amounts(s, S) + d.amount
<2> DEFINE a == d.amount
           x == Amounts(s, S)
           y == Amounts(t, T)
<2>1. y = a + x /\ a \in Nat /\ x \in Nat
  BY <1>2, <1>3, <1>4, <1>6, <1>7, <1>8
<2> HIDE DEF a, x, y
<2>2. y = x + a
  BY ONLY <2>1
<2> QED
  BY <2>2 DEF a, x, y
<1> QED
  BY <1>2, <1>7, <1>9 DEF t, T, n

\* The first deposit leaves the queue: the others move by one place.
MoveByOnePlace(s, U, T) ==
  /\ Amounts(s, U) = Amounts(Tail(s), T)
  /\ Amounts(s, U \cup {1}) = Amounts(Tail(s), T) + Head(s).amount

LEMMA AmountsTail ==
  ASSUME NEW D, \A d \in D : d.amount \in Nat, NEW s \in Seq(D), s # <<>>,
         NEW U \in SUBSET (DOMAIN s), 1 \notin U,
         NEW T, T = {i - 1 : i \in U}
  PROVE  MoveByOnePlace(s, U, T)
<1> DEFINE t == Tail(s)
           n == Len(s)
           f == [i \in DOMAIN s |-> s[i].amount]
           g == [i \in DOMAIN t |-> t[i].amount]
           S == U \cup {1}
<1>1. t \in Seq(D) /\ DOMAIN s = 1 .. n /\ DOMAIN t = 1 .. (n - 1) /\ n \in Nat \ {0}
      /\ Head(s) = s[1] /\ \A i \in 1 .. (n - 1) : t[i] = s[i + 1]
  OBVIOUS
<1>2. /\ Amounts(t, T) = SumFunctionOnSet(g, T) /\ Amounts(s, U) = SumFunctionOnSet(f, U)
      /\ Amounts(s, S) = SumFunctionOnSet(f, S)
  BY Zenon DEF Amounts
<1>3. S \in SUBSET (DOMAIN s) /\ 1 \in S /\ S \ {1} = U /\ U \in SUBSET (1 .. n)
  BY <1>1
<1>4. \A i \in DOMAIN s : s[i].amount \in Nat
  BY AmountsType
<1>5. IsFiniteSet(S) /\ Amounts(s, U) \in Nat
<2> HIDE DEF S
<2> QED
  BY <1>3, AmountsType
<1>6. ASSUME NEW i \in U PROVE i - 1 \in 1 .. (n - 1) /\ t[i - 1] = s[i]
<2>1. i \in 1 .. n /\ i # 1
  BY <1>3
<2>2. i - 1 \in 1 .. (n - 1) /\ (i - 1) + 1 = i
  BY <1>1, <2>1
<2>3. t[i - 1] = s[(i - 1) + 1]
  BY <1>1, <2>2
<2> QED
  BY <2>2, <2>3
<1>7. \A i \in U : f[i] \in Int /\ g[i - 1] = f[i]
  BY <1>1, <1>4, <1>6
<1>8. (\A i \in S : f[i] \in Int) /\ f[1] = Head(s).amount
  BY <1>1, <1>3, <1>4
<1> HIDE DEF t, n, f, g, S
<1>9. SumFunctionOnSet(g, T) = SumFunctionOnSet(f, U)
  BY <1>1, <1>3, <1>7, SumShift
<1>10. SumFunctionOnSet(f, S) = f[1] + SumFunctionOnSet(f, S \ {1})
<2>1. IsFiniteSet(S) /\ \A i \in S : f[i] \in Int
  BY <1>5, <1>8
<2>2. \A i \in S : SumFunctionOnSet(f, S) = f[i] + SumFunctionOnSet(f, S \ {i})
  BY ONLY <2>1, SumFacts
<2> QED
  BY <1>3, <2>2
<1>11. Amounts(s, S) = Amounts(t, T) + Head(s).amount
<2> DEFINE a == Head(s).amount
           x == Amounts(t, T)
           y == Amounts(s, S)
<2>1. y = a + x /\ a \in Int /\ x \in Nat
  BY <1>2, <1>3, <1>5, <1>8, <1>9, <1>10
<2> HIDE DEF a, x, y
<2>2. y = x + a
  BY ONLY <2>1
<2> QED
  BY <2>2 DEF a, x, y
<1> QED
  BY <1>2, <1>9, <1>11 DEF t, S, MoveByOnePlace

\* What the deposits s hold for a key.
AmountIn(s, k) == Amounts(s, DepositsTo(s, k))

LEMMA AmountType ==
  ASSUME NEW D, \A d \in D : d.amount \in Nat, NEW s \in Seq(D), NEW k
  PROVE  /\ AmountIn(s, k) \in Nat /\ IsFiniteSet(DepositsTo(s, k))
         /\ \A i \in DOMAIN s : s[i].amount \in Nat
<1>1. DepositsTo(s, k) \in SUBSET (DOMAIN s)
  BY DEF DepositsTo
<1> QED
  BY <1>1, AmountsType DEF AmountIn

\* A deposit that comes last.
LEMMA AmountAppend ==
  ASSUME NEW D, \A d \in D : d.amount \in Nat, NEW s \in Seq(D), NEW d \in D, NEW k
  PROVE  AmountIn(Append(s, d), k) = AmountIn(s, k) + IF d.key = k THEN d.amount ELSE 0
<1> DEFINE t == Append(s, d)
           n == Len(s) + 1
<1>1. DepositsTo(s, k) \in SUBSET (DOMAIN s)
  BY DEF DepositsTo
<1>2. DOMAIN t = 1 .. n /\ DOMAIN s = 1 .. Len(s) /\ Len(s) \in Nat
      /\ t[n] = d /\ \A i \in 1 .. Len(s) : t[i] = s[i]
  OBVIOUS
<1> HIDE DEF t, n
<1>3. DepositsTo(t, k) = DepositsTo(s, k) \cup IF d.key = k THEN {n} ELSE {}
  BY <1>2 DEF DepositsTo, n
<1>4. /\ Amounts(t, DepositsTo(s, k)) = Amounts(s, DepositsTo(s, k))
      /\ Amounts(t, DepositsTo(s, k) \cup {n}) = Amounts(s, DepositsTo(s, k)) + d.amount
  BY <1>1, AmountsAppend DEF t, n
<1>5. AmountIn(s, k) \in Nat
  BY AmountType
<1>6. AmountIn(t, k) = AmountIn(s, k) + IF d.key = k THEN d.amount ELSE 0
<2>1. CASE d.key = k
<3>1. DepositsTo(t, k) = DepositsTo(s, k) \cup {n}
  BY <1>3, <2>1
<3> QED
  BY <1>4, <2>1, <3>1 DEF AmountIn
<2>2. CASE d.key # k
<3>1. DepositsTo(t, k) = DepositsTo(s, k)
  BY <1>3, <2>2
<3>2. AmountIn(t, k) = AmountIn(s, k)
  BY <1>4, <3>1, Zenon DEF AmountIn
<3> QED
  BY <1>5, <2>2, <3>2
<2> QED
  BY <2>1, <2>2
<1> QED
  BY <1>6 DEF t

\* The first deposit leaves the queue.
LEMMA AmountTail ==
  ASSUME NEW D, \A d \in D : d.amount \in Nat, NEW s \in Seq(D), s # <<>>, NEW k
  PROVE  AmountIn(s, k) = AmountIn(Tail(s), k) + IF Head(s).key = k THEN Head(s).amount ELSE 0
<1> DEFINE t == Tail(s)
           U == DepositsTo(s, k) \ {1}
           n == Len(s)
<1>1. t \in Seq(D) /\ DOMAIN s = 1 .. n /\ DOMAIN t = 1 .. (n - 1) /\ n \in Nat \ {0}
      /\ Head(s) = s[1] /\ \A i \in 1 .. (n - 1) : t[i] = s[i + 1]
  OBVIOUS
<1> HIDE DEF n
<1>2. U \in SUBSET (DOMAIN s) /\ 1 \notin U
  BY DEF DepositsTo
<1>3. DepositsTo(t, k) = {i - 1 : i \in U}
<2>1. ASSUME NEW j \in DepositsTo(t, k) PROVE j + 1 \in U /\ (j + 1) - 1 = j
  BY <1>1 DEF DepositsTo
<2>2. ASSUME NEW i \in U PROVE i - 1 \in DepositsTo(t, k)
<3>1. i \in 1 .. n /\ i # 1 /\ s[i].key = k
  BY <1>1 DEF DepositsTo
<3>2. i - 1 \in 1 .. (n - 1) /\ (i - 1) + 1 = i
  BY <1>1, <3>1
<3>3. t[i - 1] = s[(i - 1) + 1]
  BY <1>1, <3>2
<3> QED
  BY <1>1, <3>1, <3>2, <3>3 DEF DepositsTo
<2> HIDE DEF t, U
<2> QED
  BY <2>1, <2>2
<1>4. DepositsTo(s, k) = U \cup IF Head(s).key = k THEN {1} ELSE {}
  BY <1>1 DEF DepositsTo
<1> HIDE DEF U
<1>5. /\ Amounts(s, U) = Amounts(t, DepositsTo(t, k))
      /\ Amounts(s, U \cup {1}) = Amounts(t, DepositsTo(t, k)) + Head(s).amount
<2>1. MoveByOnePlace(s, U, DepositsTo(t, k))
  BY <1>2, <1>3, AmountsTail
<2> QED
  BY <2>1 DEF MoveByOnePlace, t
<1>6. AmountIn(t, k) \in Nat
  BY <1>1, AmountType
<1> HIDE DEF t
<1>7. CASE Head(s).key = k
  BY <1>4, <1>5, <1>7 DEF AmountIn, t
<1>8. CASE Head(s).key # k
<2>1. DepositsTo(s, k) = U
  BY <1>4, <1>8
<2>2. AmountIn(s, k) = AmountIn(t, k)
  BY <1>5, <2>1, Zenon DEF AmountIn
<2> QED
  BY <1>6, <1>8, <2>2 DEF t
<1> QED
  BY <1>7, <1>8

-----------------------------------------------------------------------------
(* The total value of vaults *)

Credentials == Owner \cup {Stranger}
PendingDeposit == [key : Pubkey, wc : Credentials, amount : Nat, valid : BOOLEAN]
KeyValidator == [wc : Credentials, balance : Nat, eligible : BOOLEAN]
Stages == {"NONE", "PREDEPOSITED", "PROVEN", "ACTIVATED", "COMPENSATED"}

ValueTypes ==
  /\ pending \in Seq(PendingDeposit)
  /\ DOMAIN validator \subseteq Pubkey /\ validator \in [DOMAIN validator -> KeyValidator]
  /\ pdg \in [Pubkey -> [stage : Stages, vault : Credentials]]
  /\ aggregated \in [Owner -> Int]

\* Who has made a predeposit has a valid deposit in the queue until there is a validator.
PredepositsAreKnown ==
  \A k \in Pubkey :
    /\ pdg[k].stage # "NONE" => pdg[k].vault \in Owner
    /\ pdg[k].stage = "PREDEPOSITED" /\ k \notin DOMAIN validator =>
         \E i \in ValidDeposits(k) : pending[i].wc = pdg[k].vault

\* The first deposit of a key is no smaller than a predeposit.
FirstDepositsAreFull ==
  /\ \A i \in DOMAIN pending :
       pending[i].key \notin DOMAIN validator => pending[i].amount >= Predeposit
  /\ \A k \in DOMAIN validator :
       ~validator[k].eligible => validator[k].balance >= Predeposit

ValueInv == ValueTypes /\ PredepositsAreKnown /\ FirstDepositsAreFull

Status(stage, v) == [stage |-> stage, vault |-> v]

\* What a key adds to the value of a vault.
KeyValue(v, k, val, status, amount) ==
  IF k \in DOMAIN val
  THEN IF val[k].wc # v THEN 0
       ELSE IF val[k].eligible \/ status = Status("ACTIVATED", v) THEN val[k].balance + amount
       ELSE IF status = Status("PREDEPOSITED", v) THEN Predeposit ELSE 0
  ELSE IF status = Status("PREDEPOSITED", v) THEN Predeposit ELSE 0

KeyValues(v, s, val, st) == [k \in Pubkey |-> KeyValue(v, k, val, st[k], AmountIn(s, k))]

\* The value of a vault is what its keys add to it.
ValuesAreSums ==
  \A v \in Owner :
    LET values == KeyValues(v, pending, validator, pdg)
    IN /\ TotalValue(v) = aggregated[v] + SumFunctionOnSet(values, Pubkey)
       /\ \A k \in Pubkey : values[k] \in Nat

LEMMA PendingIsCounted == \A d \in PendingDeposit : d.amount \in Nat
BY DEF PendingDeposit

\* What is assumed of the constants.
LEMMA ValueConstants ==
  /\ IsFiniteSet(Pubkey) /\ Stranger \notin Owner
  /\ Predeposit \in Nat /\ Full \in Nat /\ 0 < Predeposit /\ Predeposit < Full
  BY VaultValueAssumption

\* The fields of what there is.
LEMMA ValueFields ==
  ASSUME ValueInv
  PROVE  /\ \A i \in DOMAIN pending : /\ pending[i].key \in Pubkey /\ pending[i].wc \in Credentials
                                      /\ pending[i].amount \in Nat /\ pending[i].valid \in BOOLEAN
         /\ \A k \in DOMAIN validator : /\ k \in Pubkey /\ validator[k].wc \in Credentials
                                        /\ validator[k].balance \in Nat
                                        /\ validator[k].eligible \in BOOLEAN
         /\ \A k \in Pubkey : AmountIn(pending, k) \in Nat
<1>1. ValueTypes
  BY DEF ValueInv
<1>2. \A i \in DOMAIN pending : pending[i] \in PendingDeposit
  BY <1>1 DEF ValueTypes
<1>3. \A k \in DOMAIN validator : validator[k] \in KeyValidator /\ k \in Pubkey
  BY <1>1 DEF ValueTypes
<1>4. \A k \in Pubkey : AmountIn(pending, k) \in Nat
  BY <1>1, PendingIsCounted, AmountType DEF ValueTypes
<1> QED
  BY <1>2, <1>3, <1>4 DEF PendingDeposit, KeyValidator

\* What a key adds is no less than zero.
LEMMA KeyValueType ==
  ASSUME ValueInv, NEW v, NEW k \in Pubkey
  PROVE  KeyValue(v, k, validator, pdg[k], AmountIn(pending, k)) \in Nat
<1>1. k \in DOMAIN validator => validator[k].balance \in Nat
  BY ValueFields
<1>2. AmountIn(pending, k) \in Nat /\ Predeposit \in Nat
  BY ValueFields, ValueConstants
<1>3. k \in DOMAIN validator => validator[k].balance + AmountIn(pending, k) \in Nat
  BY <1>1, <1>2
<1> QED
  BY <1>2, <1>3 DEF KeyValue

\* The validators of a vault and the keys of unmatched deposits are apart, and no other key
\* adds anything: a valid predeposit in the queue matches its vault or nobody.
LEMMA ValueIsSum == ValueInv => ValuesAreSums
<1> SUFFICES ASSUME ValueInv, NEW v \in Owner
             PROVE  LET values == KeyValues(v, pending, validator, pdg)
                    IN /\ TotalValue(v) = aggregated[v] + SumFunctionOnSet(values, Pubkey)
                       /\ \A k \in Pubkey : values[k] \in Nat
  BY DEF ValuesAreSums
<1> DEFINE A == ValidatorsOf(v)
           B == UnmatchedKeys(v)
           f == [k \in A |-> ValidatorValue(v, k)]
           g == [k \in B |-> UnmatchedValue(v, k)]
           h == KeyValues(v, pending, validator, pdg)
<1>1. A \in SUBSET Pubkey /\ B \in SUBSET Pubkey /\ A \cap B = {}
<2>1. A \subseteq DOMAIN validator
  BY DEF ValidatorsOf
<2>2. ASSUME NEW k \in B PROVE k \in Pubkey /\ k \notin DOMAIN validator
<3>1. PICK i \in DOMAIN pending : pending[i].key = k /\ pending[i].key \notin DOMAIN validator
  BY DEF UnmatchedKeys, ToSet
<3> QED
  BY <3>1, ValueFields
<2>3. DOMAIN validator \subseteq Pubkey
  BY DEF ValueInv, ValueTypes
<2> HIDE DEF A, B
<2> QED
  BY <2>1, <2>2, <2>3
<1>2. \A k \in Pubkey : h[k] = KeyValue(v, k, validator, pdg[k], AmountIn(pending, k)) /\ h[k] \in Nat
  BY KeyValueType DEF KeyValues
<1>3. ASSUME NEW k \in A PROVE f[k] = h[k]
<2>1. k \in DOMAIN validator /\ validator[k].wc = v /\ k \in Pubkey
  BY <1>1 DEF ValidatorsOf
<2>2. f[k] = ValidatorValue(v, k)
  OBVIOUS
<2>3. PendingAmount(k) = AmountIn(pending, k)
  BY Zenon DEF PendingAmount, AmountIn, Amounts, DepositsTo
<2>4. Status("ACTIVATED", v) # Status("PREDEPOSITED", v)
<3>1. Status("ACTIVATED", v).stage = "ACTIVATED" /\ Status("PREDEPOSITED", v).stage = "PREDEPOSITED"
  BY DEF Status
<3> QED
  BY <3>1
<2>5. ValidatorValue(v, k) = KeyValue(v, k, validator, pdg[k], AmountIn(pending, k))
<3>1. WholeBalance(k) = validator[k].balance + AmountIn(pending, k)
  BY <2>3 DEF WholeBalance
<3>2. CASE validator[k].eligible
  BY <2>1, <3>1, <3>2 DEF ValidatorValue, KeyValue
<3>3. CASE ~validator[k].eligible /\ pdg[k] = Status("PREDEPOSITED", v)
<4>1. ValidatorValue(v, k) = Predeposit
  BY <3>3 DEF ValidatorValue, Status
<4>2. KeyValue(v, k, validator, pdg[k], AmountIn(pending, k)) = Predeposit
  BY <2>1, <2>4, <3>3, Zenon DEF KeyValue
<4> QED
  BY <4>1, <4>2
<3>4. CASE ~validator[k].eligible /\ pdg[k] # Status("PREDEPOSITED", v)
<4>1. ValidatorValue(v, k) = IF pdg[k] = Status("ACTIVATED", v) THEN WholeBalance(k) ELSE 0
  BY <3>4 DEF ValidatorValue, Status
<4>2. KeyValue(v, k, validator, pdg[k], AmountIn(pending, k))
        = IF pdg[k] = Status("ACTIVATED", v) THEN validator[k].balance + AmountIn(pending, k) ELSE 0
  BY <2>1, <3>4 DEF KeyValue
<4> QED
  BY <3>1, <4>1, <4>2
<3> QED
  BY <3>2, <3>3, <3>4
<2> QED
  BY <1>2, <2>1, <2>2, <2>5
<1>4. ASSUME NEW k \in B PROVE g[k] = h[k]
<2>1. k \in Pubkey /\ k \notin DOMAIN validator
<3>1. PICK i \in DOMAIN pending : pending[i].key = k /\ pending[i].key \notin DOMAIN validator
  BY DEF UnmatchedKeys, ToSet
<3> QED
  BY <3>1, ValueFields
<2>2. g[k] = UnmatchedValue(v, k)
  OBVIOUS
<2> QED
  BY <1>2, <2>1, <2>2 DEF UnmatchedValue, KeyValue, Status
<1>5. ASSUME NEW k \in Pubkey, k \notin A, k \notin B PROVE h[k] = 0
<2>1. CASE k \in DOMAIN validator
  BY <1>2, <1>5, <2>1 DEF ValidatorsOf, KeyValue
<2>2. CASE k \notin DOMAIN validator
<3>1. pdg[k] # Status("PREDEPOSITED", v)
<4> SUFFICES ASSUME pdg[k] = Status("PREDEPOSITED", v) PROVE FALSE
  OBVIOUS
<4>1. pdg[k].stage = "PREDEPOSITED" /\ pdg[k].vault = v
  BY DEF Status
<4>2. PICK i \in ValidDeposits(k) : pending[i].wc = pdg[k].vault
  BY <2>2, <4>1 DEF ValueInv, PredepositsAreKnown
<4>3. i \in DOMAIN pending /\ pending[i].key = k /\ pending[i].wc \in Owner
  BY <4>1, <4>2 DEF ValidDeposits
<4>4. k \in B
  BY <2>2, <4>3 DEF UnmatchedKeys, ToSet
<4> QED
  BY <1>5, <4>4
<3> QED
  BY <1>2, <2>2, <3>1 DEF KeyValue
<2> QED
  BY <2>1, <2>2
<1>6. TotalValue(v) = aggregated[v] + SumFunctionOnSet(f, A) + SumFunctionOnSet(g, B)
  BY Zenon DEF TotalValue
<1>7. SumFunctionOnSet(f, A) + SumFunctionOnSet(g, B) = SumFunctionOnSet(h, Pubkey)
<2> HIDE DEF f, g, h, A, B
<2>1. \A k \in Pubkey : h[k] = IF k \in A THEN f[k] ELSE IF k \in B THEN g[k] ELSE 0
  BY <1>3, <1>4, <1>5
<2>2. (\A k \in A : f[k] \in Int) /\ \A k \in B : g[k] \in Int
  BY <1>1, <1>2, <1>3, <1>4
<2>3. IsFiniteSet(Pubkey)
  BY ValueConstants
<2> QED
  BY <1>1, <2>1, <2>2, <2>3, SumOfParts
<1>8. /\ SumFunctionOnSet(f, A) \in Int /\ SumFunctionOnSet(g, B) \in Int
      /\ aggregated[v] \in Int
<2>1. IsFiniteSet(A) /\ IsFiniteSet(B)
  BY <1>1, ValueConstants, FS_Subset
<2>2. (\A k \in A : f[k] \in Int) /\ \A k \in B : g[k] \in Int
<3> HIDE DEF f, g, h, A, B
<3> QED
  BY <1>1, <1>2, <1>3, <1>4
<2>3. aggregated[v] \in Int
  BY DEF ValueInv, ValueTypes
<2> HIDE DEF f, g, h, A, B
<2> QED
  BY <2>1, <2>2, <2>3, SumFacts
<1> HIDE DEF f, g, h, A, B
<1>9. TotalValue(v) = aggregated[v] + SumFunctionOnSet(h, Pubkey)
  BY <1>6, <1>7, <1>8
<1> QED
  BY <1>2, <1>9, Zenon DEF h

\* The guarantee for a key.
LEMMA ValueTypesOfKeys ==
  ASSUME ValueInv, NEW v \in Owner, NEW k \in Pubkey
  PROVE  UnmatchedValue(v, k) \in Nat
  BY ValueConstants DEF UnmatchedValue

\* What a key adds to a vault's value is what it will own, or the guarantee for its predeposit.
LEMMA KeyIsBacked ==
  ASSUME ValueInv, NEW v \in Owner, NEW k \in Pubkey,
         NEW x, x = KeyValue(v, k, validator, pdg[k], AmountIn(pending, k))
  PROVE  /\ FinalCredentials(k) = v => FinalBalance(k) \in Nat /\ x <= FinalBalance(k)
         /\ FinalCredentials(k) # v => x <= UnmatchedValue(v, k)
<1>1. AmountIn(pending, k) \in Nat /\ UnmatchedValue(v, k) \in Nat /\ x \in Nat /\ Predeposit \in Nat
  BY ValueFields, ValueConstants, ValueTypesOfKeys, KeyValueType
<1>2. CASE k \in DOMAIN validator
<2>1. FinalCredentials(k) = validator[k].wc
  BY <1>2, Zenon DEF FinalCredentials
<2>2. FinalBalance(k) = validator[k].balance + AmountIn(pending, k) /\ validator[k].balance \in Nat
<3>1. FinalBalance(k) = WholeBalance(k)
  BY <1>2, Zenon DEF FinalBalance
<3>2. PendingAmount(k) = AmountIn(pending, k)
  BY Zenon DEF PendingAmount, AmountIn, Amounts, DepositsTo
<3> QED
  BY <1>2, <3>1, <3>2, ValueFields DEF WholeBalance
<2>3. CASE validator[k].wc # v
<3>1. x = 0
  BY <1>2, <2>3 DEF KeyValue
<3> QED
  BY <1>1, <2>1, <2>3, <3>1
<2>4. CASE validator[k].wc = v
<3>1. ~validator[k].eligible => validator[k].balance >= Predeposit
  BY <1>2 DEF ValueInv, FirstDepositsAreFull
<3>2. \/ x = validator[k].balance + AmountIn(pending, k)
      \/ x = Predeposit /\ ~validator[k].eligible
      \/ x = 0
  BY <1>2, <2>4 DEF KeyValue
<3>3. x <= FinalBalance(k) /\ FinalBalance(k) \in Nat
<4> DEFINE a == validator[k].balance
           b == AmountIn(pending, k)
           y == FinalBalance(k)
<4>1. /\ a \in Nat /\ b \in Nat /\ y = a + b /\ Predeposit \in Nat
      /\ x = a + b \/ (x = Predeposit /\ a >= Predeposit) \/ x = 0
  BY <1>1, <2>2, <3>1, <3>2
<4> HIDE DEF a, b, y
<4>2. x <= y /\ y \in Nat
  BY ONLY <4>1
<4> QED
  BY <4>2 DEF y
<3> QED
  BY <2>1, <2>4, <3>3
<2> QED
  BY <2>3, <2>4
<1>3. CASE k \notin DOMAIN validator
<2>1. x = UnmatchedValue(v, k) /\ x <= Predeposit
<3>1. x = UnmatchedValue(v, k)
  BY <1>3 DEF KeyValue, UnmatchedValue, Status
<3>2. UnmatchedValue(v, k) <= Predeposit
  BY ValueConstants DEF UnmatchedValue
<3> QED
  BY <3>1, <3>2
<2>2. ASSUME FinalCredentials(k) = v PROVE FinalBalance(k) \in Nat /\ x <= FinalBalance(k)
<3> DEFINE m == Min(ValidDeposits(k))
           f == [i \in DOMAIN pending |-> pending[i].amount]
           S == {i \in DOMAIN pending : pending[i].key = k /\ i >= m}
<3>1. ValidDeposits(k) # {}
<4> SUFFICES ASSUME ValidDeposits(k) = {} PROVE FALSE
  OBVIOUS
<4>1. FinalCredentials(k) = Stranger
  BY <1>3, Zenon DEF FinalCredentials
<4> QED
  BY <2>2, <4>1, ValueConstants
<3>2. pending \in Seq(PendingDeposit) /\ DOMAIN pending = 1 .. Len(pending) /\ Len(pending) \in Int
  BY DEF ValueInv, ValueTypes
<3>3. m \in ValidDeposits(k)
<4>1. ValidDeposits(k) \in SUBSET Nat
  BY <3>2 DEF ValidDeposits
<4> QED
  BY <3>1, <4>1, MinNat
<3>4. m \in DOMAIN pending /\ pending[m].key = k /\ m \in Int
  BY <3>2, <3>3 DEF ValidDeposits
<3>5. f[m] >= Predeposit
<4>1. pending[m].amount >= Predeposit
  BY <1>3, <3>4 DEF ValueInv, FirstDepositsAreFull
<4> QED
  BY <3>4, <4>1
<3>6. \A i \in S : f[i] \in Nat
  BY ValueFields
<3>7. m \in S /\ S \in SUBSET (1 .. Len(pending))
  BY <3>2, <3>4
<3>8. IsFiniteSet(S)
<4>1. IsFiniteSet(1 .. Len(pending))
  BY <3>2, FS_Interval
<4> HIDE DEF S
<4> QED
  BY <3>7, <4>1, FS_Subset
<3>9. FinalBalance(k) = SumFunctionOnSet(f, S)
  BY <1>3, Zenon DEF FinalBalance
<3> HIDE DEF m, f, S
<3>10. SumFunctionOnSet(f, S) \in Nat /\ f[m] <= SumFunctionOnSet(f, S) /\ f[m] \in Nat
  BY <3>6, <3>7, <3>8, SumOfNats
<3> QED
  BY <1>1, <2>1, <3>5, <3>9, <3>10
<2> QED
  BY <1>1, <2>1, <2>2
<1> QED
  BY <1>2, <1>3

\* Summed over the keys: what is counted is what will be owned, or is guaranteed.
LEMMA ValueIsBacked == ValueInv => TotalValueIsBacked
<1> SUFFICES ASSUME ValueInv, NEW v \in Owner
             PROVE  LET own == {k \in Pubkey : FinalCredentials(k) = v}
                    IN TotalValue(v) <= aggregated[v]
                         + SumFunctionOnSet([k \in own |-> FinalBalance(k)], own)
                         + SumFunctionOnSet([k \in Pubkey |-> UnmatchedValue(v, k)], Pubkey \ own)
  BY DEF TotalValueIsBacked
<1> DEFINE own == {k \in Pubkey : FinalCredentials(k) = v}
           rest == Pubkey \ own
           f == [k \in own |-> FinalBalance(k)]
           g == [k \in Pubkey |-> UnmatchedValue(v, k)]
           x == KeyValues(v, pending, validator, pdg)
           y == [k \in Pubkey |-> IF k \in own THEN f[k] ELSE IF k \in rest THEN g[k] ELSE 0]
<1>1. TotalValue(v) = aggregated[v] + SumFunctionOnSet(x, Pubkey) /\ \A k \in Pubkey : x[k] \in Nat
  BY ValueIsSum DEF ValuesAreSums
<1>2. \A k \in Pubkey : x[k] = KeyValue(v, k, validator, pdg[k], AmountIn(pending, k))
  BY DEF KeyValues
<1>3. ASSUME NEW k \in own PROVE k \in Pubkey /\ f[k] \in Nat /\ x[k] <= f[k]
<2>1. FinalCredentials(k) = v /\ k \in Pubkey /\ f[k] = FinalBalance(k)
  OBVIOUS
<2> QED
  BY <1>2, <2>1, KeyIsBacked
<1>4. ASSUME NEW k \in rest PROVE k \in Pubkey /\ g[k] \in Nat /\ x[k] <= g[k]
<2>1. FinalCredentials(k) # v /\ k \in Pubkey /\ g[k] = UnmatchedValue(v, k)
  OBVIOUS
<2> QED
  BY <1>2, <2>1, KeyIsBacked, ValueTypesOfKeys
<1>5. own \in SUBSET Pubkey /\ rest \in SUBSET Pubkey /\ own \cap rest = {}
      /\ \A k \in Pubkey : k \in own \/ k \in rest
  OBVIOUS
<1>6. \A k \in Pubkey : y[k] = IF k \in own THEN f[k] ELSE IF k \in rest THEN g[k] ELSE 0
  OBVIOUS
<1>7. IsFiniteSet(Pubkey) /\ IsFiniteSet(own) /\ IsFiniteSet(rest)
  BY <1>5, ValueConstants, FS_Subset
<1> HIDE DEF own, rest, f, g, x, y
<1>8. SumFunctionOnSet(f, own) + SumFunctionOnSet(g, rest) = SumFunctionOnSet(y, Pubkey)
<2>1. (\A k \in own : f[k] \in Int) /\ \A k \in rest : g[k] \in Int
  BY <1>3, <1>4
<2> QED
  BY <1>5, <1>6, <1>7, <2>1, SumOfParts
<1>9. /\ SumFunctionOnSet(x, Pubkey) \in Int /\ SumFunctionOnSet(y, Pubkey) \in Int
      /\ SumFunctionOnSet(x, Pubkey) <= SumFunctionOnSet(y, Pubkey)
<2>1. ASSUME NEW k \in Pubkey PROVE x[k] \in Int /\ y[k] \in Int /\ x[k] <= y[k]
<3>1. x[k] \in Int
  BY <1>1
<3>2. CASE k \in own
  BY <1>3, <1>6, <3>1, <3>2
<3>3. CASE k \notin own
  BY <1>4, <1>5, <1>6, <3>1, <3>3
<3> QED
  BY <3>2, <3>3
<2> QED
  BY <1>7, <2>1, SumGrows
<1>10. SumFunctionOnSet(f, own) \in Int /\ SumFunctionOnSet(g, rest) \in Int /\ aggregated[v] \in Int
<2>1. (\A k \in own : f[k] \in Int) /\ \A k \in rest : g[k] \in Int
  BY <1>3, <1>4
<2>2. aggregated[v] \in Int
  BY DEF ValueInv, ValueTypes
<2> QED
  BY <1>7, <2>1, <2>2, SumFacts
<1>11. TotalValue(v) <= aggregated[v] + SumFunctionOnSet(f, own) + SumFunctionOnSet(g, rest)
<2> DEFINE a == aggregated[v]
           b == SumFunctionOnSet(f, own)
           c == SumFunctionOnSet(g, rest)
           d == SumFunctionOnSet(x, Pubkey)
           e == SumFunctionOnSet(y, Pubkey)
           t == TotalValue(v)
<2>1. /\ a \in Int /\ b \in Int /\ c \in Int /\ d \in Int /\ e \in Int
      /\ t = a + d /\ b + c = e /\ d <= e
  BY <1>1, <1>8, <1>9, <1>10
<2> HIDE DEF a, b, c, d, e, t
<2>2. t <= a + b + c
  BY ONLY <2>1
<2> QED
  BY <2>2 DEF a, b, c, t
<1> QED
  BY <1>11, Zenon DEF own, rest, f, g

-----------------------------------------------------------------------------

\* How the value of a vault moves with that of a key.
LEMMA ValueMoves ==
  ASSUME ValueInv, ValueInv', NEW v \in Owner, NEW e \in Pubkey, NEW b \in Int,
         aggregated'[v] = aggregated[v] + b,
         \A k \in Pubkey :
           KeyValue(v, k, validator', pdg'[k], AmountIn(pending', k))
             >= KeyValue(v, k, validator, pdg[k], AmountIn(pending, k)) - IF k = e THEN b ELSE 0
  PROVE  ~(TotalValue(v)' < TotalValue(v))
<1> DEFINE x == KeyValues(v, pending, validator, pdg)
           y == KeyValues(v, pending', validator', pdg')
<1>1. TotalValue(v) = aggregated[v] + SumFunctionOnSet(x, Pubkey) /\ \A k \in Pubkey : x[k] \in Nat
  BY ValueIsSum DEF ValuesAreSums
<1>2. TotalValue(v)' = aggregated'[v] + SumFunctionOnSet(y, Pubkey) /\ \A k \in Pubkey : y[k] \in Nat
<2>1. ValueInv' => ValuesAreSums'
  BY ValueIsSum, PTL
<2>2. ValuesAreSums'
  BY <2>1
<2> QED
  BY <2>2 DEF ValuesAreSums
<1>3. \A k \in Pubkey : x[k] = KeyValue(v, k, validator, pdg[k], AmountIn(pending, k))
                        /\ y[k] = KeyValue(v, k, validator', pdg'[k], AmountIn(pending', k))
  BY DEF KeyValues
<1>4. IsFiniteSet(Pubkey) /\ aggregated[v] \in Int
  BY ValueConstants DEF ValueInv, ValueTypes
<1> HIDE DEF x, y
<1>5. /\ SumFunctionOnSet(x, Pubkey) \in Int /\ SumFunctionOnSet(y, Pubkey) \in Int
      /\ SumFunctionOnSet(y, Pubkey) >= SumFunctionOnSet(x, Pubkey) - b
<2>1. \A k \in Pubkey : x[k] \in Int /\ y[k] \in Int /\ y[k] >= x[k] - IF k = e THEN b ELSE 0
  BY <1>1, <1>2, <1>3
<2> QED
  BY ONLY <1>4, <2>1, e \in Pubkey, b \in Int, SumFalls
<1> DEFINE a == aggregated[v]
           a2 == aggregated'[v]
           c == SumFunctionOnSet(x, Pubkey)
           c2 == SumFunctionOnSet(y, Pubkey)
           t == TotalValue(v)
           t2 == TotalValue(v)'
<1>6. /\ a \in Int /\ b \in Int /\ c \in Int /\ c2 \in Int /\ a2 = a + b /\ c2 >= c - b
      /\ t = a + c /\ t2 = a2 + c2
  BY <1>1, <1>2, <1>4, <1>5
<1> HIDE DEF a, a2, c, c2, t, t2
<1>7. ~(t2 < t)
  BY ONLY <1>6
<1> QED
  BY <1>7 DEF t, t2

\* A key to which nothing happened but deposits.
LEMMA KeyKeepsValue ==
  ASSUME NEW v, NEW k, NEW val, NEW val2, NEW status, NEW a \in Nat, NEW a2 \in Nat, a <= a2,
         k \in DOMAIN val2 <=> k \in DOMAIN val,
         k \in DOMAIN val => val2[k] = val[k] /\ val[k].balance \in Nat
  PROVE  KeyValue(v, k, val2, status, a2) >= KeyValue(v, k, val, status, a)
<1>0. Predeposit \in Nat
  BY ValueConstants
<1>1. CASE k \in DOMAIN val
<2> DEFINE c == val[k].balance
<2>1. /\ val2[k].balance = c /\ val2[k].wc = val[k].wc /\ val2[k].eligible = val[k].eligible
      /\ k \in DOMAIN val2 /\ c \in Nat
  BY <1>1
<2>2. c + a2 >= c + a
  BY <2>1
<2> HIDE DEF c
<2>3. CASE val[k].wc = v /\ (val[k].eligible \/ status = Status("ACTIVATED", v))
<3>1. KeyValue(v, k, val, status, a) = c + a
  BY <1>1, <2>3 DEF KeyValue, c
<3>2. KeyValue(v, k, val2, status, a2) = c + a2
  BY <2>1, <2>3 DEF KeyValue
<3> QED
  BY <2>2, <3>1, <3>2
<2>4. CASE ~(val[k].wc = v /\ (val[k].eligible \/ status = Status("ACTIVATED", v)))
<3> DEFINE y == IF val[k].wc # v THEN 0
                ELSE IF status = Status("PREDEPOSITED", v) THEN Predeposit ELSE 0
<3>1. KeyValue(v, k, val, status, a) = y
  BY <1>1, <2>4 DEF KeyValue
<3>2. KeyValue(v, k, val2, status, a2) = y
  BY <2>1, <2>4 DEF KeyValue
<3>3. y \in Nat
  BY <1>0
<3> HIDE DEF y
<3> QED
  BY <3>1, <3>2, <3>3
<2> QED
  BY <2>3, <2>4
<1>2. CASE k \notin DOMAIN val
<2> DEFINE y == IF status = Status("PREDEPOSITED", v) THEN Predeposit ELSE 0
<2>1. KeyValue(v, k, val, status, a) = y /\ KeyValue(v, k, val2, status, a2) = y
  BY <1>2 DEF KeyValue
<2>2. y \in Nat
  BY <1>0
<2> HIDE DEF y
<2> QED
  BY <2>1, <2>2
<1> QED
  BY <1>1, <1>2

\* The step after which a vault's value may have dropped.
Excused ==
  \E k \in Pubkey :
    \/ pdg'[k].stage = "PROVEN" /\ pdg[k].stage # "PROVEN"
    \/ Astray(k)' /\ ~Astray(k)

\* What a step promises.
ValueKept == \A v \in Owner : TotalValue(v)' < TotalValue(v) => Excused

\* A deposit is the last one, and the amounts of its key grow with it.
Deposited(k, wc, amount, valid) ==
  LET n == Len(pending) + 1
  IN /\ pending' \in Seq(PendingDeposit) /\ DOMAIN pending' = DOMAIN pending \cup {n}
     /\ \A i \in DOMAIN pending : pending'[i] = pending[i]
     /\ pending'[n].key = k /\ pending'[n].wc = wc
     /\ pending'[n].amount = amount /\ pending'[n].valid = valid
     /\ \A j \in Pubkey :
          /\ AmountIn(pending', j) \in Nat /\ AmountIn(pending, j) \in Nat
          /\ AmountIn(pending', j) = AmountIn(pending, j) + IF k = j THEN amount ELSE 0

LEMMA Sent ==
  ASSUME ValueInv, NEW k \in Pubkey, NEW wc \in Credentials, NEW amount \in Nat, NEW valid \in BOOLEAN,
         Send(k, wc, amount, valid)
  PROVE  Deposited(k, wc, amount, valid)
<1> DEFINE d == [key |-> k, wc |-> wc, amount |-> amount, valid |-> valid]
<1>1. pending' = Append(pending, d)
  BY DEF Send
<1>2. pending \in Seq(PendingDeposit) /\ d \in PendingDeposit
  BY DEF ValueInv, ValueTypes, PendingDeposit
<1>3. d.key = k /\ d.wc = wc /\ d.amount = amount /\ d.valid = valid
  OBVIOUS
<1> HIDE DEF d
<1>4. /\ pending' \in Seq(PendingDeposit) /\ DOMAIN pending' = DOMAIN pending \cup {Len(pending) + 1}
      /\ (\A i \in DOMAIN pending : pending'[i] = pending[i]) /\ pending'[Len(pending) + 1] = d
<2>1. DOMAIN pending = 1 .. Len(pending) /\ Len(pending) \in Nat
  BY <1>2
<2> QED
  BY <1>1, <1>2, <2>1
<1>5. ASSUME NEW j \in Pubkey
      PROVE  /\ AmountIn(pending', j) \in Nat /\ AmountIn(pending, j) \in Nat
             /\ AmountIn(pending', j) = AmountIn(pending, j) + IF k = j THEN amount ELSE 0
<2>1. AmountIn(pending', j) \in Nat /\ AmountIn(pending, j) \in Nat
  BY <1>2, <1>4, PendingIsCounted, AmountType
<2>2. AmountIn(Append(pending, d), j) = AmountIn(pending, j) + IF d.key = j THEN d.amount ELSE 0
  BY <1>2, PendingIsCounted, AmountAppend
<2>3. AmountIn(pending', j) = AmountIn(pending, j) + IF k = j THEN amount ELSE 0
  BY <1>1, <1>3, <2>2, Zenon
<2> QED
  BY <2>1, <2>3
<1> QED
  BY <1>3, <1>4, <1>5 DEF Deposited

\* What a deposit leaves as it was.
LEMMA SendKeeps ==
  ASSUME ValueInv, NEW k \in Pubkey, NEW wc \in Credentials, NEW amount \in Nat, NEW valid \in BOOLEAN,
         Send(k, wc, amount, valid), UNCHANGED validator,
         amount >= Predeposit \/ k \in DOMAIN validator,
         pdg' \in [Pubkey -> [stage : Stages, vault : Credentials]],
         aggregated' \in [Owner -> Int]
  PROVE  /\ ValueTypes' /\ FirstDepositsAreFull'
         /\ \A j \in Pubkey : \A i \in ValidDeposits(j) :
              i \in ValidDeposits(j)' /\ pending'[i] = pending[i]
         /\ valid => \E i \in ValidDeposits(k)' : pending'[i].wc = wc
         /\ \A v \in Owner, j \in Pubkey :
              KeyValue(v, j, validator', pdg[j], AmountIn(pending', j))
                >= KeyValue(v, j, validator, pdg[j], AmountIn(pending, j))
<1> DEFINE n == Len(pending) + 1
<1>1. /\ pending' \in Seq(PendingDeposit)
      /\ DOMAIN pending' = DOMAIN pending \cup {n}
      /\ \A i \in DOMAIN pending : pending'[i] = pending[i]
      /\ pending'[n].key = k /\ pending'[n].wc = wc
      /\ pending'[n].amount = amount /\ pending'[n].valid = valid
<2>1. Deposited(k, wc, amount, valid)
  BY Sent
<2> QED
  BY <2>1 DEF Deposited
<1>2. ASSUME NEW j \in Pubkey
      PROVE  /\ AmountIn(pending', j) \in Nat /\ AmountIn(pending, j) \in Nat
             /\ AmountIn(pending', j) >= AmountIn(pending, j)
<2>1. /\ AmountIn(pending', j) \in Nat /\ AmountIn(pending, j) \in Nat
      /\ AmountIn(pending', j) = AmountIn(pending, j) + IF k = j THEN amount ELSE 0
<3>1. Deposited(k, wc, amount, valid)
  BY Sent
<3> QED
  BY <3>1 DEF Deposited
<2> QED
  BY <2>1
<1> HIDE DEF n
<1>3. ValueTypes'
  BY <1>1 DEF ValueInv, ValueTypes
<1>4. FirstDepositsAreFull'
  BY <1>1 DEF ValueInv, FirstDepositsAreFull
<1>5. ASSUME NEW j \in Pubkey, NEW i \in ValidDeposits(j)
      PROVE  i \in ValidDeposits(j)' /\ pending'[i] = pending[i]
  BY <1>1 DEF ValidDeposits
<1>6. ASSUME valid PROVE \E i \in ValidDeposits(k)' : pending'[i].wc = wc
  BY <1>1, <1>6 DEF ValidDeposits
<1>7. ASSUME NEW v \in Owner, NEW j \in Pubkey
      PROVE  KeyValue(v, j, validator', pdg[j], AmountIn(pending', j))
               >= KeyValue(v, j, validator, pdg[j], AmountIn(pending, j))
<2>1. j \in DOMAIN validator => validator'[j] = validator[j] /\ validator[j].balance \in Nat
  BY ValueFields
<2>2. j \in DOMAIN validator' <=> j \in DOMAIN validator
  OBVIOUS
<2> QED
  BY <1>2, <2>1, <2>2, KeyKeepsValue
<1> QED
  BY <1>3, <1>4, <1>5, <1>6, <1>7

\* The PDG's records stay known where a key's stage is none that is new.
LEMMA KnownKept ==
  ASSUME ValueInv,
         \A j \in Pubkey : \A i \in ValidDeposits(j) :
           i \in ValidDeposits(j)' /\ pending'[i] = pending[i],
         DOMAIN validator' = DOMAIN validator,
         NEW k \in Pubkey, pdg[k].stage # "NONE",
         \A j \in Pubkey : j # k => pdg'[j] = pdg[j],
         pdg'[k].vault = pdg[k].vault, pdg'[k].stage # "PREDEPOSITED"
  PROVE  PredepositsAreKnown'
<1> SUFFICES ASSUME NEW j \in Pubkey
             PROVE  /\ pdg'[j].stage # "NONE" => pdg'[j].vault \in Owner
                    /\ pdg'[j].stage = "PREDEPOSITED" /\ j \notin DOMAIN validator' =>
                         \E i \in ValidDeposits(j)' : pending'[i].wc = pdg'[j].vault
  BY DEF PredepositsAreKnown
<1>1. /\ pdg[j].stage # "NONE" => pdg[j].vault \in Owner
      /\ pdg[j].stage = "PREDEPOSITED" /\ j \notin DOMAIN validator =>
           \E i \in ValidDeposits(j) : pending[i].wc = pdg[j].vault
  BY DEF ValueInv, PredepositsAreKnown
<1>2. CASE j = k
  BY <1>1, <1>2
<1>3. CASE j # k
<2>1. pdg'[j] = pdg[j]
  BY <1>3
<2> QED
  BY <1>1, <2>1
<1> QED
  BY <1>2, <1>3

\* At first there is no value and no record.
LEMMA ValueStarts == ValueInit => ValueInv
<1> SUFFICES ASSUME ValueInit PROVE ValueInv
  OBVIOUS
<1>1. ValueTypes
  BY DEF ValueInit, ValueTypes, NoStatus, Stages, Credentials
<1>2. PredepositsAreKnown
  BY DEF ValueInit, PredepositsAreKnown, NoStatus
<1>3. FirstDepositsAreFull
  BY DEF ValueInit, FirstDepositsAreFull
<1> QED
  BY <1>1, <1>2, <1>3 DEF ValueInv

\* A predeposit leaves the vault and is counted with its key.
LEMMA ValuePredeposit ==
  ASSUME ValueInv, NEW u \in Owner, NEW k \in Pubkey, MakePredeposit(u, k)
  PROVE  ValueInv' /\ ValueKept
<1>1. /\ pdg[k] = NoStatus /\ Send(k, u, Predeposit, TRUE) /\ UNCHANGED validator
      /\ pdg' = [pdg EXCEPT ![k] = [stage |-> "PREDEPOSITED", vault |-> u]]
      /\ aggregated' = [aggregated EXCEPT ![u] = @ - Predeposit]
  BY DEF MakePredeposit
<1>2. u \in Credentials /\ Predeposit \in Nat
  BY ValueConstants DEF Credentials
<1>3. /\ pdg \in [Pubkey -> [stage : Stages, vault : Credentials]]
      /\ aggregated \in [Owner -> Int]
  BY DEF ValueInv, ValueTypes
<1>4. /\ pdg' \in [Pubkey -> [stage : Stages, vault : Credentials]]
      /\ aggregated' \in [Owner -> Int]
  BY <1>1, <1>2, <1>3 DEF Stages
<1>5. /\ pdg'[k] = Status("PREDEPOSITED", u) /\ pdg'[k].stage = "PREDEPOSITED" /\ pdg'[k].vault = u
      /\ pdg[k].stage = "NONE" /\ \A j \in Pubkey : j # k => pdg'[j] = pdg[j]
  BY <1>1, <1>3 DEF Status, NoStatus
<1>6. /\ aggregated'[u] = aggregated[u] + (0 - Predeposit)
      /\ \A v \in Owner : v # u => aggregated'[v] = aggregated[v] + 0
  BY <1>1, <1>2, <1>3
<1>7. /\ ValueTypes' /\ FirstDepositsAreFull'
      /\ (\A j \in Pubkey : \A i \in ValidDeposits(j) :
            i \in ValidDeposits(j)' /\ pending'[i] = pending[i])
      /\ (\E i \in ValidDeposits(k)' : pending'[i].wc = u)
      /\ \A v \in Owner, j \in Pubkey :
           KeyValue(v, j, validator', pdg[j], AmountIn(pending', j))
             >= KeyValue(v, j, validator, pdg[j], AmountIn(pending, j))
<2>1. Predeposit >= Predeposit
  BY <1>2
<2> QED
  BY <1>1, <1>2, <1>4, <2>1, SendKeeps
<1>8. PredepositsAreKnown'
<2> SUFFICES ASSUME NEW j \in Pubkey
             PROVE  /\ pdg'[j].stage # "NONE" => pdg'[j].vault \in Owner
                    /\ pdg'[j].stage = "PREDEPOSITED" /\ j \notin DOMAIN validator' =>
                         \E i \in ValidDeposits(j)' : pending'[i].wc = pdg'[j].vault
  BY DEF PredepositsAreKnown
<2>1. CASE j = k
  BY <1>5, <1>7, <2>1
<2>2. CASE j # k
<3>1. pdg'[j] = pdg[j] /\ validator' = validator
  BY <1>1, <1>5, <2>2
<3>2. /\ pdg[j].stage # "NONE" => pdg[j].vault \in Owner
      /\ pdg[j].stage = "PREDEPOSITED" /\ j \notin DOMAIN validator =>
           \E i \in ValidDeposits(j) : pending[i].wc = pdg[j].vault
  BY DEF ValueInv, PredepositsAreKnown
<3> QED
  BY <1>7, <3>1, <3>2
<2> QED
  BY <2>1, <2>2
<1>9. ValueInv'
  BY <1>7, <1>8 DEF ValueInv
<1>10. CASE Excused
  BY <1>9, <1>10 DEF ValueKept
<1>11. CASE ~Excused
<2>1. ~(k \in DOMAIN validator /\ validator[k].wc # u)
<3>1. ~Astray(k)' \/ Astray(k)
  BY <1>11 DEF Excused
<3> QED
  BY <1>1, <1>5, <3>1 DEF Astray, ValidatorsOf
<2>2. ASSUME NEW v \in Owner, NEW j \in Pubkey
      PROVE  KeyValue(v, j, validator', pdg'[j], AmountIn(pending', j))
               >= KeyValue(v, j, validator, pdg[j], AmountIn(pending, j))
                    - IF j = k THEN (IF v = u THEN 0 - Predeposit ELSE 0) ELSE 0
<3>1. /\ KeyValue(v, j, validator', pdg[j], AmountIn(pending', j))
           >= KeyValue(v, j, validator, pdg[j], AmountIn(pending, j))
      /\ KeyValue(v, j, validator, pdg[j], AmountIn(pending, j)) \in Nat
  BY <1>7, KeyValueType
<3>2. CASE j # k
  BY <1>5, <3>1, <3>2
<3>3. CASE j = k
<4> DEFINE status == pdg[k]
<4>1. status.stage = "NONE"
  BY <1>5
<4>2. /\ status # Status("PREDEPOSITED", v) /\ status # Status("ACTIVATED", v)
      /\ Status("PREDEPOSITED", u) # Status("ACTIVATED", v)
      /\ v # u => Status("PREDEPOSITED", u) # Status("PREDEPOSITED", v)
<5>1. /\ Status("PREDEPOSITED", v).stage = "PREDEPOSITED" /\ Status("ACTIVATED", v).stage = "ACTIVATED"
      /\ Status("PREDEPOSITED", u).stage = "PREDEPOSITED" /\ Status("PREDEPOSITED", u).vault = u
      /\ Status("PREDEPOSITED", v).vault = v
  BY DEF Status
<5> QED
  BY <4>1, <5>1
<4>3. CASE v # u
<5>1. KeyValue(v, k, validator', pdg'[k], AmountIn(pending', k))
        = KeyValue(v, k, validator', pdg[k], AmountIn(pending', k))
  BY <1>5, <4>2, <4>3 DEF KeyValue
<5> QED
  BY <3>1, <3>3, <4>3, <5>1
<4>4. CASE v = u
<5> DEFINE x == KeyValue(u, k, validator, pdg[k], AmountIn(pending, k))
           y == KeyValue(u, k, validator', pdg'[k], AmountIn(pending', k))
           a == AmountIn(pending, k)
           a2 == AmountIn(pending', k)
<5>1. a2 = a + Predeposit /\ a \in Nat /\ a2 \in Nat
<6>1. /\ AmountIn(pending', k) \in Nat /\ AmountIn(pending, k) \in Nat
      /\ AmountIn(pending', k) = AmountIn(pending, k) + IF k = k THEN Predeposit ELSE 0
<7>1. Deposited(k, u, Predeposit, TRUE)
  BY <1>1, <1>2, Sent
<7> QED
  BY <7>1 DEF Deposited
<6> QED
  BY <6>1
<5>2. validator' = validator /\ pdg'[k] = Status("PREDEPOSITED", u)
  BY <1>1, <1>5
<5> HIDE DEF a, a2
<5>3. CASE k \in DOMAIN validator /\ validator[k].eligible
<6>1. x = validator[k].balance + a /\ validator[k].balance \in Nat
  BY <2>1, <5>3, ValueFields DEF KeyValue, a
<6>2. y = validator[k].balance + a2
  BY <2>1, <5>2, <5>3 DEF KeyValue, a2
<6> HIDE DEF x, y
<6>3. y >= x - (0 - Predeposit)
<7> DEFINE c == validator[k].balance
<7>1. x = c + a /\ y = c + a2 /\ c \in Nat
  BY <6>1, <6>2
<7> HIDE DEF c
<7> QED
  BY ONLY <1>2, <5>1, <7>1
<6> QED
  BY <3>3, <4>4, <6>3 DEF x, y
<5>4. CASE ~(k \in DOMAIN validator /\ validator[k].eligible)
<6>1. x = 0
  BY <2>1, <4>2, <4>4, <5>4 DEF KeyValue
<6>2. y = Predeposit
  BY <2>1, <4>2, <4>4, <5>2, <5>4 DEF KeyValue
<6> HIDE DEF x, y
<6>3. y >= x - (0 - Predeposit)
  BY ONLY <1>2, <6>1, <6>2
<6> QED
  BY <3>3, <4>4, <6>3 DEF x, y
<5> QED
  BY <5>3, <5>4
<4> QED
  BY <4>3, <4>4
<3> QED
  BY <3>2, <3>3
<2>3. ASSUME NEW v \in Owner PROVE ~(TotalValue(v)' < TotalValue(v))
<3> DEFINE b == IF v = u THEN 0 - Predeposit ELSE 0
<3>1. b \in Int /\ aggregated'[v] = aggregated[v] + b
  BY <1>2, <1>6
<3>2. \A j \in Pubkey :
        KeyValue(v, j, validator', pdg'[j], AmountIn(pending', j))
          >= KeyValue(v, j, validator, pdg[j], AmountIn(pending, j)) - IF j = k THEN b ELSE 0
  BY <2>2
<3> HIDE DEF b
<3> QED
  BY <1>9, <3>1, <3>2, ValueMoves
<2> QED
  BY <1>9, <2>3 DEF ValueKept
<1> QED
  BY <1>10, <1>11

\* What a change of the PDG or of aggregated balances leaves as it was.
LEMMA QueueKept ==
  ASSUME ValueInv, UNCHANGED <<pending, validator>>,
         pdg' \in [Pubkey -> [stage : Stages, vault : Credentials]],
         aggregated' \in [Owner -> Int]
  PROVE  /\ ValueTypes' /\ FirstDepositsAreFull'
         /\ \A j \in Pubkey : \A i \in ValidDeposits(j) :
              i \in ValidDeposits(j)' /\ pending'[i] = pending[i]
         /\ \A v \in Owner, j \in Pubkey :
              KeyValue(v, j, validator', pdg[j], AmountIn(pending', j))
                = KeyValue(v, j, validator, pdg[j], AmountIn(pending, j))
<1>1. ValueTypes' /\ FirstDepositsAreFull'
  BY DEF ValueInv, ValueTypes, FirstDepositsAreFull
<1>2. \A j \in Pubkey : \A i \in ValidDeposits(j) :
        i \in ValidDeposits(j)' /\ pending'[i] = pending[i]
  BY DEF ValidDeposits
<1>3. pending' = pending /\ validator' = validator
  OBVIOUS
<1>4. \A v \in Owner, j \in Pubkey :
        KeyValue(v, j, validator', pdg[j], AmountIn(pending', j))
          = KeyValue(v, j, validator, pdg[j], AmountIn(pending, j))
  BY <1>3, Zenon
<1> QED
  BY <1>1, <1>2, <1>4

\* A key that is proven but not activated counts nothing: the drop the property excuses.
LEMMA ValueProve ==
  ASSUME ValueInv, NEW k \in Pubkey, Prove(k)
  PROVE  ValueInv' /\ ValueKept
<1>1. /\ pdg[k].stage = "PREDEPOSITED" /\ pdg' = [pdg EXCEPT ![k].stage = "PROVEN"]
      /\ UNCHANGED <<pending, validator>> /\ aggregated' = aggregated
  BY DEF Prove
<1>2. /\ pdg \in [Pubkey -> [stage : Stages, vault : Credentials]]
      /\ aggregated \in [Owner -> Int]
  BY DEF ValueInv, ValueTypes
<1>3. pdg' \in [Pubkey -> [stage : Stages, vault : Credentials]]
  BY <1>1, <1>2 DEF Stages
<1>4. /\ pdg'[k].stage = "PROVEN" /\ pdg'[k].vault = pdg[k].vault
      /\ \A j \in Pubkey : j # k => pdg'[j] = pdg[j]
  BY <1>1, <1>2
<1>5. /\ ValueTypes' /\ FirstDepositsAreFull'
      /\ \A j \in Pubkey : \A i \in ValidDeposits(j) :
           i \in ValidDeposits(j)' /\ pending'[i] = pending[i]
  BY <1>1, <1>2, <1>3, QueueKept
<1>6. PredepositsAreKnown'
<2>1. DOMAIN validator' = DOMAIN validator /\ pdg[k].stage # "NONE" /\ pdg'[k].stage # "PREDEPOSITED"
  BY <1>1, <1>4
<2> QED
  BY <1>4, <1>5, <2>1, KnownKept
<1>7. Excused
  BY <1>1, <1>4 DEF Excused
<1> QED
  BY <1>5, <1>6, <1>7 DEF ValueInv, ValueKept

\* What an activation sends is counted with the key, and so is all it was sent before.
LEMMA ValueActivate ==
  ASSUME ValueInv, NEW k \in Pubkey, Activate(k)
  PROVE  ValueInv' /\ ValueKept
<1> DEFINE u == pdg[k].vault
           more == Full - Predeposit
<1>1. /\ pdg[k].stage \in {"PREDEPOSITED", "PROVEN"}
      /\ k \in DOMAIN validator /\ validator[k].wc = u
      /\ Send(k, u, more, TRUE) /\ validator' = validator
      /\ pdg' = [pdg EXCEPT ![k].stage = "ACTIVATED"]
      /\ aggregated' = [aggregated EXCEPT ![u] = @ - more]
  BY DEF Activate, ValidatorsOf
<1>2. u \in Owner /\ u \in Credentials /\ more \in Nat /\ Predeposit \in Nat
<2>1. u \in Owner
  BY <1>1 DEF ValueInv, PredepositsAreKnown
<2> QED
  BY <2>1, ValueConstants DEF Credentials
<1>3. /\ pdg \in [Pubkey -> [stage : Stages, vault : Credentials]]
      /\ aggregated \in [Owner -> Int]
  BY DEF ValueInv, ValueTypes
<1> HIDE DEF more
<1>4. /\ pdg' \in [Pubkey -> [stage : Stages, vault : Credentials]]
      /\ aggregated' \in [Owner -> Int]
  BY <1>1, <1>2, <1>3 DEF Stages
<1>5. /\ pdg'[k] = Status("ACTIVATED", u) /\ pdg'[k].stage = "ACTIVATED" /\ pdg'[k].vault = u
      /\ \A j \in Pubkey : j # k => pdg'[j] = pdg[j]
  BY <1>1, <1>3 DEF Status
<1>6. /\ aggregated'[u] = aggregated[u] + (0 - more)
      /\ \A v \in Owner : v # u => aggregated'[v] = aggregated[v] + 0
  BY <1>1, <1>2, <1>3
<1>7. /\ ValueTypes' /\ FirstDepositsAreFull'
      /\ (\A j \in Pubkey : \A i \in ValidDeposits(j) :
            i \in ValidDeposits(j)' /\ pending'[i] = pending[i])
      /\ \A v \in Owner, j \in Pubkey :
           KeyValue(v, j, validator', pdg[j], AmountIn(pending', j))
             >= KeyValue(v, j, validator, pdg[j], AmountIn(pending, j))
  BY <1>1, <1>2, <1>4, SendKeeps
<1>8. PredepositsAreKnown'
<2>1. /\ DOMAIN validator' = DOMAIN validator /\ pdg[k].stage # "NONE"
      /\ pdg'[k].stage # "PREDEPOSITED" /\ pdg'[k].vault = pdg[k].vault
  BY <1>1, <1>5
<2> QED
  BY <1>5, <1>7, <2>1, KnownKept
<1>9. ValueInv'
  BY <1>7, <1>8 DEF ValueInv
<1>10. ASSUME NEW v \in Owner, NEW j \in Pubkey
       PROVE  KeyValue(v, j, validator', pdg'[j], AmountIn(pending', j))
                >= KeyValue(v, j, validator, pdg[j], AmountIn(pending, j))
                     - IF j = k THEN (IF v = u THEN 0 - more ELSE 0) ELSE 0
<2>1. /\ KeyValue(v, j, validator', pdg[j], AmountIn(pending', j))
           >= KeyValue(v, j, validator, pdg[j], AmountIn(pending, j))
      /\ KeyValue(v, j, validator, pdg[j], AmountIn(pending, j)) \in Nat
  BY <1>7, KeyValueType
<2>2. CASE j # k
  BY <1>5, <2>1, <2>2
<2>3. CASE j = k /\ v # u
<3>1. /\ KeyValue(v, k, validator', pdg'[k], AmountIn(pending', k)) = 0
      /\ KeyValue(v, k, validator, pdg[k], AmountIn(pending, k)) = 0
  BY <1>1, <2>3 DEF KeyValue
<3> QED
  BY <2>3, <3>1
<2>4. CASE j = k /\ v = u
<3> DEFINE x == KeyValue(u, k, validator, pdg[k], AmountIn(pending, k))
           y == KeyValue(u, k, validator', pdg'[k], AmountIn(pending', k))
           a == AmountIn(pending, k)
           a2 == AmountIn(pending', k)
           c == validator[k].balance
<3>1. a2 = a + more /\ a \in Nat /\ a2 \in Nat
<4>1. Deposited(k, u, more, TRUE)
  BY <1>1, <1>2, Sent
<4> QED
  BY <4>1 DEF Deposited
<3>2. c \in Nat /\ (~validator[k].eligible => c >= Predeposit)
  BY <1>1, ValueFields DEF ValueInv, FirstDepositsAreFull
<3> HIDE DEF a, a2
<3>3. y = c + a2
  BY <1>1, <1>5 DEF KeyValue, a2
<3>4. x = c + a \/ (x = Predeposit /\ ~validator[k].eligible) \/ x = 0
  BY <1>1 DEF KeyValue, a
<3> HIDE DEF x, y, c
<3>5. y >= x - (0 - more)
  BY ONLY <1>2, <3>1, <3>2, <3>3, <3>4
<3> QED
  BY <2>4, <3>5 DEF x, y
<2> QED
  BY <2>2, <2>3, <2>4
<1>11. ASSUME NEW v \in Owner PROVE ~(TotalValue(v)' < TotalValue(v))
<2> DEFINE b == IF v = u THEN 0 - more ELSE 0
<2>1. b \in Int /\ aggregated'[v] = aggregated[v] + b
  BY <1>2, <1>6
<2>2. \A j \in Pubkey :
        KeyValue(v, j, validator', pdg'[j], AmountIn(pending', j))
          >= KeyValue(v, j, validator, pdg[j], AmountIn(pending, j)) - IF j = k THEN b ELSE 0
  BY <1>10
<2> HIDE DEF b
<2> QED
  BY <1>9, <2>1, <2>2, ValueMoves
<1> QED
  BY <1>9, <1>11 DEF ValueKept

\* A predeposit gone astray is returned, and no longer counted with its key.
LEMMA ValueCompensate ==
  ASSUME ValueInv, NEW k \in Pubkey, Compensate(k)
  PROVE  ValueInv' /\ ValueKept
<1> DEFINE u == pdg[k].vault
<1>1. /\ pdg[k].stage = "PREDEPOSITED" /\ k \in DOMAIN validator /\ validator[k].wc # u
      /\ pdg' = [pdg EXCEPT ![k].stage = "COMPENSATED"]
      /\ aggregated' = [aggregated EXCEPT ![u] = @ + Predeposit]
      /\ UNCHANGED <<pending, validator>>
  BY DEF Compensate, Astray, ValidatorsOf
<1>2. u \in Owner /\ Predeposit \in Nat
  BY <1>1, ValueConstants DEF ValueInv, PredepositsAreKnown
<1>3. /\ pdg \in [Pubkey -> [stage : Stages, vault : Credentials]]
      /\ aggregated \in [Owner -> Int]
  BY DEF ValueInv, ValueTypes
<1>4. /\ pdg' \in [Pubkey -> [stage : Stages, vault : Credentials]]
      /\ aggregated' \in [Owner -> Int]
  BY <1>1, <1>2, <1>3 DEF Stages
<1>5. /\ pdg'[k].stage = "COMPENSATED" /\ pdg'[k].vault = pdg[k].vault
      /\ \A j \in Pubkey : j # k => pdg'[j] = pdg[j]
  BY <1>1, <1>3
<1>6. \A v \in Owner : aggregated'[v] = aggregated[v] + IF v = u THEN Predeposit ELSE 0
  BY <1>1, <1>2, <1>3
<1>7. /\ ValueTypes' /\ FirstDepositsAreFull'
      /\ (\A j \in Pubkey : \A i \in ValidDeposits(j) :
            i \in ValidDeposits(j)' /\ pending'[i] = pending[i])
      /\ \A v \in Owner, j \in Pubkey :
           KeyValue(v, j, validator', pdg[j], AmountIn(pending', j))
             = KeyValue(v, j, validator, pdg[j], AmountIn(pending, j))
  BY <1>1, <1>3, <1>4, QueueKept
<1>8. PredepositsAreKnown'
<2>1. DOMAIN validator' = DOMAIN validator /\ pdg[k].stage # "NONE" /\ pdg'[k].stage # "PREDEPOSITED"
  BY <1>1, <1>5
<2> QED
  BY <1>5, <1>7, <2>1, KnownKept
<1>9. ValueInv'
  BY <1>7, <1>8 DEF ValueInv
<1>10. ASSUME NEW v \in Owner, NEW j \in Pubkey
       PROVE  KeyValue(v, j, validator', pdg'[j], AmountIn(pending', j))
                >= KeyValue(v, j, validator, pdg[j], AmountIn(pending, j))
                     - IF j = k THEN (IF v = u THEN Predeposit ELSE 0) ELSE 0
<2>1. /\ KeyValue(v, j, validator', pdg[j], AmountIn(pending', j))
           = KeyValue(v, j, validator, pdg[j], AmountIn(pending, j))
      /\ KeyValue(v, j, validator, pdg[j], AmountIn(pending, j)) \in Nat
  BY <1>7, KeyValueType
<2>2. CASE j # k
  BY <1>5, <2>1, <2>2
<2>3. CASE j = k
<3>1. validator'[k] = validator[k] /\ k \in DOMAIN validator'
  BY <1>1
<3>2. /\ pdg[k] # Status("ACTIVATED", v) /\ pdg'[k] # Status("ACTIVATED", v)
      /\ pdg'[k] # Status("PREDEPOSITED", v) /\ (v # u => pdg[k] # Status("PREDEPOSITED", v))
<4>1. /\ Status("PREDEPOSITED", v).stage = "PREDEPOSITED" /\ Status("ACTIVATED", v).stage = "ACTIVATED"
      /\ Status("PREDEPOSITED", v).vault = v
  BY DEF Status
<4> QED
  BY <1>1, <1>5, <4>1
<3>3. CASE v # u
<4>1. KeyValue(v, k, validator', pdg'[k], AmountIn(pending', k))
        = KeyValue(v, k, validator', pdg[k], AmountIn(pending', k))
  BY <3>2, <3>3 DEF KeyValue
<4> QED
  BY <2>1, <2>3, <3>3, <4>1
<3>4. CASE v = u
<4>1. /\ KeyValue(v, k, validator', pdg'[k], AmountIn(pending', k)) = 0
      /\ KeyValue(v, k, validator, pdg[k], AmountIn(pending, k)) = 0
  BY <1>1, <3>1, <3>4 DEF KeyValue
<4> QED
  BY <1>2, <2>3, <3>4, <4>1
<3> QED
  BY <3>3, <3>4
<2> QED
  BY <2>2, <2>3
<1>11. ASSUME NEW v \in Owner PROVE ~(TotalValue(v)' < TotalValue(v))
<2> DEFINE b == IF v = u THEN Predeposit ELSE 0
<2>1. b \in Int /\ aggregated'[v] = aggregated[v] + b
  BY <1>2, <1>6
<2>2. \A j \in Pubkey :
        KeyValue(v, j, validator', pdg'[j], AmountIn(pending', j))
          >= KeyValue(v, j, validator, pdg[j], AmountIn(pending, j)) - IF j = k THEN b ELSE 0
  BY <1>10
<2> HIDE DEF b
<2> QED
  BY <1>9, <2>1, <2>2, ValueMoves
<1> QED
  BY <1>9, <1>11 DEF ValueKept

\* Where no balance moves, what no key loses no vault loses.
LEMMA NoneLoses ==
  ASSUME ValueInv, ValueInv', UNCHANGED aggregated, NEW v \in Owner, NEW e \in Pubkey,
         \A j \in Pubkey :
           KeyValue(v, j, validator', pdg'[j], AmountIn(pending', j))
             >= KeyValue(v, j, validator, pdg[j], AmountIn(pending, j))
  PROVE  ~(TotalValue(v)' < TotalValue(v))
<1> DEFINE b == 0
<1>1. b \in Int /\ aggregated'[v] = aggregated[v] + b
  BY DEF ValueInv, ValueTypes
<1>2. ASSUME NEW j \in Pubkey
      PROVE  KeyValue(v, j, validator', pdg'[j], AmountIn(pending', j))
               >= KeyValue(v, j, validator, pdg[j], AmountIn(pending, j)) - IF j = e THEN b ELSE 0
<2>1. KeyValue(v, j, validator, pdg[j], AmountIn(pending, j)) \in Nat
  BY KeyValueType
<2>2. KeyValue(v, j, validator, pdg[j], AmountIn(pending, j)) - (IF j = e THEN 0 ELSE 0)
        = KeyValue(v, j, validator, pdg[j], AmountIn(pending, j))
  BY <2>1
<2> QED
  BY <2>2
<1> HIDE DEF b
<1> QED
  BY <1>1, <1>2, ValueMoves

\* A deposit past the PDG takes nothing from anybody.
LEMMA ValueSideDeposit ==
  ASSUME ValueInv, NEW k \in Pubkey, NEW wc \in Credentials, NEW valid \in BOOLEAN,
         SideDeposit(k, wc, valid)
  PROVE  ValueInv' /\ ValueKept
<1>1. Send(k, wc, Predeposit, valid) /\ UNCHANGED validator /\ pdg' = pdg /\ aggregated' = aggregated
  BY DEF SideDeposit
<1>2. Predeposit \in Nat /\ Predeposit >= Predeposit
  BY ValueConstants
<1>3. /\ pdg' \in [Pubkey -> [stage : Stages, vault : Credentials]]
      /\ aggregated' \in [Owner -> Int]
  BY <1>1 DEF ValueInv, ValueTypes
<1>4. /\ ValueTypes' /\ FirstDepositsAreFull'
      /\ (\A j \in Pubkey : \A i \in ValidDeposits(j) :
            i \in ValidDeposits(j)' /\ pending'[i] = pending[i])
      /\ \A v \in Owner, j \in Pubkey :
           KeyValue(v, j, validator', pdg[j], AmountIn(pending', j))
             >= KeyValue(v, j, validator, pdg[j], AmountIn(pending, j))
  BY <1>1, <1>2, <1>3, SendKeeps
<1>5. PredepositsAreKnown'
<2> SUFFICES ASSUME NEW j \in Pubkey
             PROVE  /\ pdg'[j].stage # "NONE" => pdg'[j].vault \in Owner
                    /\ pdg'[j].stage = "PREDEPOSITED" /\ j \notin DOMAIN validator' =>
                         \E i \in ValidDeposits(j)' : pending'[i].wc = pdg'[j].vault
  BY DEF PredepositsAreKnown
<2>1. /\ pdg[j].stage # "NONE" => pdg[j].vault \in Owner
      /\ pdg[j].stage = "PREDEPOSITED" /\ j \notin DOMAIN validator =>
           \E i \in ValidDeposits(j) : pending[i].wc = pdg[j].vault
  BY DEF ValueInv, PredepositsAreKnown
<2> QED
  BY <1>1, <1>4, <2>1
<1>6. ValueInv'
  BY <1>4, <1>5 DEF ValueInv
<1>7. ASSUME NEW v \in Owner PROVE ~(TotalValue(v)' < TotalValue(v))
<2>1. \A j \in Pubkey :
        KeyValue(v, j, validator', pdg'[j], AmountIn(pending', j))
          >= KeyValue(v, j, validator, pdg[j], AmountIn(pending, j))
  BY <1>1, <1>4
<2> QED
  BY <1>1, <1>6, <2>1, NoneLoses
<1> QED
  BY <1>6, <1>7 DEF ValueKept

\* A validator is eligible with more than the guarantee.
LEMMA ValueEligible ==
  ASSUME ValueInv, NEW k \in DOMAIN validator, BecomeEligible(k)
  PROVE  ValueInv' /\ ValueKept
<1>0. k \in Pubkey /\ validator[k].balance \in Nat
  BY ValueFields
<1>1. /\ validator[k].balance >= Full /\ ~validator[k].eligible
      /\ validator' = [validator EXCEPT ![k].eligible = TRUE]
      /\ pending' = pending /\ pdg' = pdg /\ aggregated' = aggregated
  BY DEF BecomeEligible
<1>2. validator \in [DOMAIN validator -> KeyValidator] /\ DOMAIN validator \subseteq Pubkey
  BY DEF ValueInv, ValueTypes
<1>3. /\ DOMAIN validator' = DOMAIN validator /\ validator' \in [DOMAIN validator -> KeyValidator]
      /\ validator'[k].eligible /\ validator'[k].wc = validator[k].wc
      /\ validator'[k].balance = validator[k].balance
      /\ \A j \in DOMAIN validator : j # k => validator'[j] = validator[j]
  BY <1>1, <1>2 DEF KeyValidator
<1>4. ValueTypes'
  BY <1>1, <1>2, <1>3 DEF ValueInv, ValueTypes
<1>5. PredepositsAreKnown'
  BY <1>1, <1>3 DEF ValueInv, PredepositsAreKnown, ValidDeposits
<1>6. FirstDepositsAreFull'
  BY <1>1, <1>3 DEF ValueInv, FirstDepositsAreFull
<1>7. ValueInv'
  BY <1>4, <1>5, <1>6 DEF ValueInv
<1>8. ASSUME NEW v \in Owner PROVE ~(TotalValue(v)' < TotalValue(v))
<2>1. ASSUME NEW j \in Pubkey
      PROVE  KeyValue(v, j, validator', pdg'[j], AmountIn(pending', j))
               >= KeyValue(v, j, validator, pdg[j], AmountIn(pending, j))
<3>1. AmountIn(pending', j) = AmountIn(pending, j) /\ AmountIn(pending, j) \in Nat /\ pdg'[j] = pdg[j]
  BY <1>1, ValueFields
<3>2. CASE j # k
<4>1. /\ j \in DOMAIN validator' <=> j \in DOMAIN validator
      /\ j \in DOMAIN validator => validator'[j] = validator[j] /\ validator[j].balance \in Nat
  BY <1>3, <3>2, ValueFields
<4>2. AmountIn(pending, j) <= AmountIn(pending, j)
  BY <3>1
<4> QED
  BY <3>1, <4>1, <4>2, KeyKeepsValue
<3>3. CASE j = k /\ validator[k].wc # v
<4>1. /\ KeyValue(v, k, validator', pdg'[k], AmountIn(pending', k)) = 0
      /\ KeyValue(v, k, validator, pdg[k], AmountIn(pending, k)) = 0
  BY <1>3, <3>3 DEF KeyValue
<4> QED
  BY <3>3, <4>1
<3>4. CASE j = k /\ validator[k].wc = v
<4> DEFINE x == KeyValue(v, k, validator, pdg[k], AmountIn(pending, k))
           y == KeyValue(v, k, validator', pdg'[k], AmountIn(pending', k))
           a == AmountIn(pending, k)
           c == validator[k].balance
<4>1. y = c + a
  BY <1>3, <3>1, <3>4 DEF KeyValue
<4>2. x = c + a \/ x = Predeposit \/ x = 0
  BY <1>3, <3>4 DEF KeyValue
<4>3. a \in Nat /\ c \in Nat /\ c >= Full /\ Full \in Nat /\ Predeposit \in Nat /\ Predeposit < Full
  BY <1>0, <1>1, <3>1, <3>4, ValueConstants
<4> HIDE DEF x, y, a, c
<4>4. y >= x
  BY ONLY <4>1, <4>2, <4>3
<4> QED
  BY <3>4, <4>4 DEF x, y
<3> QED
  BY <3>2, <3>3, <3>4
<2> QED
  BY <1>0, <1>1, <1>7, <2>1, NoneLoses
<1> QED
  BY <1>7, <1>8 DEF ValueKept

\* A balance that is swept is the vault's.
LEMMA ValueSweepOut ==
  ASSUME ValueInv, NEW k \in DOMAIN validator, SweepOut(k)
  PROVE  ValueInv' /\ ValueKept
<1> DEFINE u == validator[k].wc
           c == validator[k].balance
<1>0. k \in Pubkey /\ c \in Nat
  BY ValueFields
<1>1. /\ validator[k].eligible /\ u \in Owner
      /\ aggregated' = [aggregated EXCEPT ![u] = @ + c]
      /\ validator' = [validator EXCEPT ![k].balance = 0]
      /\ pending' = pending /\ pdg' = pdg
  BY DEF SweepOut
<1>2. /\ validator \in [DOMAIN validator -> KeyValidator] /\ DOMAIN validator \subseteq Pubkey
      /\ aggregated \in [Owner -> Int]
  BY DEF ValueInv, ValueTypes
<1>3. /\ DOMAIN validator' = DOMAIN validator /\ validator' \in [DOMAIN validator -> KeyValidator]
      /\ validator'[k].eligible /\ validator'[k].wc = u /\ validator'[k].balance = 0
      /\ \A j \in DOMAIN validator : j # k => validator'[j] = validator[j]
  BY <1>1, <1>2 DEF KeyValidator
<1>4. aggregated' \in [Owner -> Int]
      /\ \A v \in Owner : aggregated'[v] = aggregated[v] + IF v = u THEN c ELSE 0
  BY <1>0, <1>1, <1>2
<1>5. ValueTypes'
  BY <1>1, <1>2, <1>3, <1>4 DEF ValueInv, ValueTypes
<1>6. PredepositsAreKnown'
  BY <1>1, <1>3 DEF ValueInv, PredepositsAreKnown, ValidDeposits
<1>7. FirstDepositsAreFull'
  BY <1>1, <1>3 DEF ValueInv, FirstDepositsAreFull
<1>8. ValueInv'
  BY <1>5, <1>6, <1>7 DEF ValueInv
<1>9. ASSUME NEW v \in Owner, NEW j \in Pubkey
      PROVE  KeyValue(v, j, validator', pdg'[j], AmountIn(pending', j))
               >= KeyValue(v, j, validator, pdg[j], AmountIn(pending, j))
                    - IF j = k THEN (IF v = u THEN c ELSE 0) ELSE 0
<2>1. /\ AmountIn(pending', j) = AmountIn(pending, j) /\ AmountIn(pending, j) \in Nat
      /\ pdg'[j] = pdg[j]
      /\ KeyValue(v, j, validator, pdg[j], AmountIn(pending, j)) \in Nat
  BY <1>1, ValueFields, KeyValueType
<2>2. CASE j # k
<3>1. /\ j \in DOMAIN validator' <=> j \in DOMAIN validator
      /\ j \in DOMAIN validator => validator'[j] = validator[j] /\ validator[j].balance \in Nat
  BY <1>3, <2>2, ValueFields
<3>2. AmountIn(pending, j) <= AmountIn(pending, j)
  BY <2>1
<3>3. KeyValue(v, j, validator', pdg'[j], AmountIn(pending', j))
        >= KeyValue(v, j, validator, pdg[j], AmountIn(pending, j))
  BY <2>1, <3>1, <3>2, KeyKeepsValue
<3> QED
  BY <2>1, <2>2, <3>3
<2>3. CASE j = k /\ v # u
<3>1. /\ KeyValue(v, k, validator', pdg'[k], AmountIn(pending', k)) = 0
      /\ KeyValue(v, k, validator, pdg[k], AmountIn(pending, k)) = 0
  BY <1>3, <2>3 DEF KeyValue
<3> QED
  BY <2>3, <3>1
<2>4. CASE j = k /\ v = u
<3> DEFINE x == KeyValue(v, k, validator, pdg[k], AmountIn(pending, k))
           y == KeyValue(v, k, validator', pdg'[k], AmountIn(pending', k))
           a == AmountIn(pending, k)
<3>1. y = 0 + a
  BY <1>3, <2>1, <2>4 DEF KeyValue
<3>2. x = c + a
  BY <1>1, <1>3, <2>4 DEF KeyValue
<3>3. a \in Nat /\ c \in Nat
  BY <1>0, <2>1, <2>4
<3> HIDE DEF x, y, a, c
<3>4. y >= x - c
  BY ONLY <3>1, <3>2, <3>3
<3> QED
  BY <2>4, <3>4 DEF x, y
<2> QED
  BY <2>2, <2>3, <2>4
<1>10. ASSUME NEW v \in Owner PROVE ~(TotalValue(v)' < TotalValue(v))
<2> DEFINE b == IF v = u THEN c ELSE 0
<2>1. b \in Int /\ aggregated'[v] = aggregated[v] + b
  BY <1>0, <1>4
<2>2. \A j \in Pubkey :
        KeyValue(v, j, validator', pdg'[j], AmountIn(pending', j))
          >= KeyValue(v, j, validator, pdg[j], AmountIn(pending, j)) - IF j = k THEN b ELSE 0
  BY <1>9
<2> HIDE DEF b
<2> QED
  BY <1>0, <1>8, <2>1, <2>2, ValueMoves
<1> QED
  BY <1>8, <1>10 DEF ValueKept

\* The first deposit leaves the queue.
LEMMA Left ==
  ASSUME ValueInv, pending # <<>>, pending' = Tail(pending)
  PROVE  /\ pending' \in Seq(PendingDeposit)
         /\ pending[1] = Head(pending) /\ 1 \in DOMAIN pending
         /\ \A i \in DOMAIN pending' : i + 1 \in DOMAIN pending /\ pending'[i] = pending[i + 1]
         /\ \A i \in DOMAIN pending :
              i # 1 => i - 1 \in DOMAIN pending' /\ pending'[i - 1] = pending[i]
         /\ \A k \in Pubkey :
              /\ AmountIn(pending', k) \in Nat
              /\ AmountIn(pending, k)
                   = AmountIn(pending', k)
                       + IF Head(pending).key = k THEN Head(pending).amount ELSE 0
<1> DEFINE n == Len(pending)
<1>1. pending \in Seq(PendingDeposit)
  BY DEF ValueInv, ValueTypes
<1>2. /\ pending' \in Seq(PendingDeposit) /\ DOMAIN pending = 1 .. n /\ DOMAIN pending' = 1 .. (n - 1)
      /\ n \in Nat \ {0} /\ pending[1] = Head(pending)
      /\ \A i \in 1 .. (n - 1) : pending'[i] = pending[i + 1]
  BY <1>1
<1> HIDE DEF n
<1>3. 1 \in DOMAIN pending
  BY <1>2
<1>4. \A i \in DOMAIN pending' : i + 1 \in DOMAIN pending /\ pending'[i] = pending[i + 1]
  BY <1>2
<1>5. ASSUME NEW i \in DOMAIN pending, i # 1
      PROVE  i - 1 \in DOMAIN pending' /\ pending'[i - 1] = pending[i]
<2>1. i - 1 \in 1 .. (n - 1) /\ (i - 1) + 1 = i
  BY <1>2, <1>5
<2> QED
  BY <1>2, <2>1
<1>6. ASSUME NEW k \in Pubkey
      PROVE  /\ AmountIn(pending', k) \in Nat
             /\ AmountIn(pending, k)
                  = AmountIn(pending', k)
                      + IF Head(pending).key = k THEN Head(pending).amount ELSE 0
<2>1. AmountIn(pending', k) \in Nat
  BY <1>2, PendingIsCounted, AmountType
<2>2. AmountIn(pending, k)
        = AmountIn(Tail(pending), k) + IF Head(pending).key = k THEN Head(pending).amount ELSE 0
  BY <1>1, PendingIsCounted, AmountTail
<2> QED
  BY <2>1, <2>2, Zenon
<1> QED
  BY <1>2, <1>3, <1>4, <1>5, <1>6

\* A deposit is processed: it grows its validator, makes one or is void.
LEMMA Processed ==
  ASSUME ValueInv, Process, NEW d, d = Head(pending)
  PROVE  /\ pending # <<>> /\ pending' = Tail(pending) /\ pdg' = pdg /\ aggregated' = aggregated
         /\ d \in PendingDeposit
         /\ DOMAIN validator \subseteq DOMAIN validator' /\ DOMAIN validator' \subseteq Pubkey
         /\ validator' \in [DOMAIN validator' -> KeyValidator]
         /\ \A j \in Pubkey : j # d.key =>
              /\ j \in DOMAIN validator' <=> j \in DOMAIN validator
              /\ j \in DOMAIN validator => validator'[j] = validator[j]
         /\ d.key \in DOMAIN validator =>
              /\ validator'[d.key].wc = validator[d.key].wc
              /\ validator'[d.key].eligible = validator[d.key].eligible
              /\ validator'[d.key].balance = validator[d.key].balance + d.amount
         /\ d.key \notin DOMAIN validator /\ ~d.valid => d.key \notin DOMAIN validator'
         /\ d.key \notin DOMAIN validator /\ d.valid =>
              /\ d.key \in DOMAIN validator'
              /\ validator'[d.key] = [wc |-> d.wc, balance |-> d.amount, eligible |-> FALSE]
<1>1. /\ pending # <<>> /\ pending' = Tail(pending) /\ pdg' = pdg /\ aggregated' = aggregated
      /\ validator' =
           IF d.key \in DOMAIN validator
           THEN [validator EXCEPT ![d.key].balance = @ + d.amount]
           ELSE IF ~d.valid THEN validator
           ELSE [k \in DOMAIN validator \cup {d.key} |->
                   IF k \in DOMAIN validator THEN validator[k]
                   ELSE [wc |-> d.wc, balance |-> d.amount, eligible |-> FALSE]]
  BY DEF Process
<1>2. /\ pending \in Seq(PendingDeposit)
      /\ validator \in [DOMAIN validator -> KeyValidator] /\ DOMAIN validator \subseteq Pubkey
  BY DEF ValueInv, ValueTypes
<1>3. /\ d \in PendingDeposit
      /\ d.key \in Pubkey /\ d.wc \in Credentials /\ d.amount \in Nat /\ d.valid \in BOOLEAN
<2>1. d \in PendingDeposit
  BY <1>1, <1>2
<2> QED
  BY <2>1 DEF PendingDeposit
<1>4. CASE d.key \in DOMAIN validator
<2>1. validator' = [validator EXCEPT ![d.key].balance = @ + d.amount]
  BY <1>1, <1>4
<2>2. validator[d.key] \in KeyValidator
  BY <1>2, <1>4
<2>3. validator[d.key].balance + d.amount \in Nat
  BY <1>3, <2>2 DEF KeyValidator
<2>4. /\ DOMAIN validator' = DOMAIN validator
      /\ validator' \in [DOMAIN validator -> KeyValidator]
  BY <1>2, <1>4, <2>1, <2>2, <2>3 DEF KeyValidator
<2>5. /\ validator'[d.key].wc = validator[d.key].wc
      /\ validator'[d.key].eligible = validator[d.key].eligible
      /\ validator'[d.key].balance = validator[d.key].balance + d.amount
      /\ \A j \in DOMAIN validator : j # d.key => validator'[j] = validator[j]
  BY <1>2, <1>4, <2>1, <2>2 DEF KeyValidator
<2> QED
  BY <1>1, <1>2, <1>3, <1>4, <2>4, <2>5
<1>5. CASE d.key \notin DOMAIN validator /\ ~d.valid
  BY <1>1, <1>2, <1>3, <1>5
<1>6. CASE d.key \notin DOMAIN validator /\ d.valid
<2> DEFINE new == [wc |-> d.wc, balance |-> d.amount, eligible |-> FALSE]
<2>1. validator' = [k \in DOMAIN validator \cup {d.key} |->
                      IF k \in DOMAIN validator THEN validator[k] ELSE new]
  BY <1>1, <1>6
<2>2. new \in KeyValidator
  BY <1>3 DEF KeyValidator
<2> HIDE DEF new
<2>3. /\ DOMAIN validator' = DOMAIN validator \cup {d.key}
      /\ validator'[d.key] = new
      /\ \A j \in DOMAIN validator : validator'[j] = validator[j]
  BY <1>6, <2>1
<2>4. validator' \in [DOMAIN validator' -> KeyValidator]
  BY <1>2, <2>1, <2>2, <2>3
<2> QED
  BY <1>1, <1>2, <1>3, <1>6, <2>3, <2>4 DEF new
<1> QED
  BY <1>3, <1>4, <1>5, <1>6

\* The values of keys are no less than zero.
KeyValuesTyped ==
  \A v \in Owner, k \in Pubkey : KeyValue(v, k, validator, pdg[k], AmountIn(pending, k)) \in Nat

LEMMA KeyValuesAreTyped == ValueInv => KeyValuesTyped
  BY KeyValueType DEF KeyValuesTyped

\* A deposit that is processed moves from the queue to its validator; the first one of a
\* key makes a validator of its credentials, which is the drop the property excuses if they
\* are not those of the vault that predeposited.
LEMMA ValueProcess ==
  ASSUME ValueInv, Process
  PROVE  ValueInv' /\ ValueKept
<1> DEFINE d == Head(pending)
           k == d.key
<1>1. /\ pending # <<>> /\ pending' = Tail(pending) /\ pdg' = pdg /\ aggregated' = aggregated
      /\ d \in PendingDeposit
      /\ DOMAIN validator \subseteq DOMAIN validator' /\ DOMAIN validator' \subseteq Pubkey
      /\ validator' \in [DOMAIN validator' -> KeyValidator]
      /\ \A j \in Pubkey : j # k =>
           /\ j \in DOMAIN validator' <=> j \in DOMAIN validator
           /\ j \in DOMAIN validator => validator'[j] = validator[j]
      /\ k \in DOMAIN validator =>
           /\ validator'[k].wc = validator[k].wc
           /\ validator'[k].eligible = validator[k].eligible
           /\ validator'[k].balance = validator[k].balance + d.amount
      /\ k \notin DOMAIN validator /\ ~d.valid => k \notin DOMAIN validator'
      /\ k \notin DOMAIN validator /\ d.valid =>
           /\ k \in DOMAIN validator'
           /\ validator'[k] = [wc |-> d.wc, balance |-> d.amount, eligible |-> FALSE]
  BY Processed
<1>2. k \in Pubkey /\ d.wc \in Credentials /\ d.amount \in Nat /\ d.valid \in BOOLEAN
  BY <1>1 DEF PendingDeposit
<1>3. /\ pending' \in Seq(PendingDeposit)
      /\ pending[1] = d /\ 1 \in DOMAIN pending
      /\ \A i \in DOMAIN pending' : i + 1 \in DOMAIN pending /\ pending'[i] = pending[i + 1]
      /\ \A i \in DOMAIN pending :
           i # 1 => i - 1 \in DOMAIN pending' /\ pending'[i - 1] = pending[i]
      /\ \A j \in Pubkey :
           /\ AmountIn(pending', j) \in Nat
           /\ AmountIn(pending, j) = AmountIn(pending', j) + IF k = j THEN d.amount ELSE 0
  BY <1>1, Left
<1> HIDE DEF d
<1>4. ValueTypes'
  BY <1>1, <1>3 DEF ValueInv, ValueTypes
<1>5. PredepositsAreKnown'
<2> SUFFICES ASSUME NEW j \in Pubkey
             PROVE  /\ pdg'[j].stage # "NONE" => pdg'[j].vault \in Owner
                    /\ pdg'[j].stage = "PREDEPOSITED" /\ j \notin DOMAIN validator' =>
                         \E i \in ValidDeposits(j)' : pending'[i].wc = pdg'[j].vault
  BY DEF PredepositsAreKnown
<2>1. /\ pdg[j].stage # "NONE" => pdg[j].vault \in Owner
      /\ pdg[j].stage = "PREDEPOSITED" /\ j \notin DOMAIN validator =>
           \E i \in ValidDeposits(j) : pending[i].wc = pdg[j].vault
  BY DEF ValueInv, PredepositsAreKnown
<2>2. ASSUME pdg[j].stage = "PREDEPOSITED", j \notin DOMAIN validator'
      PROVE  \E i \in ValidDeposits(j)' : pending'[i].wc = pdg[j].vault
<3>1. j \notin DOMAIN validator
  BY <1>1, <2>2
<3>2. PICK i \in ValidDeposits(j) : pending[i].wc = pdg[j].vault
  BY <2>1, <2>2, <3>1
<3>3. i \in DOMAIN pending /\ pending[i].key = j /\ pending[i].valid
  BY <3>2 DEF ValidDeposits
<3>4. i # 1
  BY <1>1, <1>3, <2>2, <3>1, <3>3
<3>5. i - 1 \in ValidDeposits(j)' /\ pending'[i - 1].wc = pdg[j].vault
  BY <1>3, <3>2, <3>3, <3>4 DEF ValidDeposits
<3> QED
  BY <3>5
<2> QED
  BY <1>1, <2>1, <2>2
<1>6. FirstDepositsAreFull'
<2>1. ASSUME NEW i \in DOMAIN pending', pending'[i].key \notin DOMAIN validator'
      PROVE  pending'[i].amount >= Predeposit
<3>1. i + 1 \in DOMAIN pending /\ pending'[i] = pending[i + 1]
  BY <1>3
<3>2. pending[i + 1].key \notin DOMAIN validator
  BY <1>1, <2>1, <3>1
<3> QED
  BY <3>1, <3>2 DEF ValueInv, FirstDepositsAreFull
<2>2. ASSUME NEW j \in DOMAIN validator', ~validator'[j].eligible
      PROVE  validator'[j].balance >= Predeposit
<3>0. j \in Pubkey /\ Predeposit \in Nat
  BY <1>1, ValueConstants
<3>1. CASE j # k
<4>1. j \in DOMAIN validator /\ validator'[j] = validator[j]
  BY <1>1, <3>0, <3>1
<4> QED
  BY <2>2, <4>1 DEF ValueInv, FirstDepositsAreFull
<3>2. CASE j = k /\ k \in DOMAIN validator
<4>1. validator[k].balance >= Predeposit /\ validator[k].balance \in Nat
  BY <1>1, <2>2, <3>2, ValueFields DEF ValueInv, FirstDepositsAreFull
<4>2. validator'[j].balance = validator[k].balance + d.amount
  BY <1>1, <3>2
<4> QED
  BY <1>2, <3>0, <4>1, <4>2
<3>3. CASE j = k /\ k \notin DOMAIN validator
<4>1. d.valid
  BY <1>1, <3>3
<4>2. validator'[j].balance = d.amount
  BY <1>1, <3>3, <4>1
<4>3. d.amount >= Predeposit
<5>1. pending[1].key \notin DOMAIN validator /\ 1 \in DOMAIN pending
  BY <1>3, <3>3
<5>2. pending[1].amount >= Predeposit
  BY <5>1 DEF ValueInv, FirstDepositsAreFull
<5> QED
  BY <1>3, <5>2
<4> QED
  BY <4>2, <4>3
<3> QED
  BY <3>1, <3>2, <3>3
<2> QED
  BY <2>1, <2>2 DEF FirstDepositsAreFull
<1>7. ValueInv'
  BY <1>4, <1>5, <1>6 DEF ValueInv
<1>8. CASE Excused
  BY <1>7, <1>8 DEF ValueKept
<1>9. CASE ~Excused
<2>1. ASSUME NEW v \in Owner, NEW j \in Pubkey
      PROVE  KeyValue(v, j, validator', pdg'[j], AmountIn(pending', j))
               >= KeyValue(v, j, validator, pdg[j], AmountIn(pending, j))
<3> DEFINE x == KeyValue(v, j, validator, pdg[j], AmountIn(pending, j))
           y == KeyValue(v, j, validator', pdg'[j], AmountIn(pending', j))
           a == AmountIn(pending, j)
           a2 == AmountIn(pending', j)
<3>1. a2 \in Nat /\ a \in Nat /\ a = a2 + IF k = j THEN d.amount ELSE 0
  BY <1>3, ValueFields
<3>2. pdg'[j] = pdg[j] /\ x \in Nat /\ Predeposit \in Nat
  BY <1>1, KeyValueType, ValueConstants
<3>3. CASE j # k
<4>1. a <= a2
  BY <3>1, <3>3
<4>2. /\ j \in DOMAIN validator' <=> j \in DOMAIN validator
      /\ j \in DOMAIN validator => validator'[j] = validator[j] /\ validator[j].balance \in Nat
  BY <1>1, <3>3, ValueFields
<4> QED
  BY <3>1, <3>2, <4>1, <4>2, KeyKeepsValue
<3>4. CASE j = k /\ k \in DOMAIN validator
<4>1. /\ validator'[k].balance + a2 = validator[k].balance + a
      /\ k \in DOMAIN validator'
      /\ validator'[k].wc = validator[k].wc /\ validator'[k].eligible = validator[k].eligible
<5>1. validator[k].balance \in Nat /\ validator'[k].balance = validator[k].balance + d.amount
  BY <1>1, <3>4, ValueFields
<5>2. a = a2 + d.amount
  BY <3>1, <3>4
<5> HIDE DEF a, a2
<5>3. validator'[k].balance + a2 = validator[k].balance + a
  BY <1>2, <3>1, <5>1, <5>2
<5> QED
  BY <1>1, <3>4, <5>3
<4>2. y = x
  BY <3>2, <3>4, <4>1 DEF KeyValue
<4> HIDE DEF x, y
<4>3. y >= x
  BY <3>2, <4>2
<4> QED
  BY <4>3 DEF x, y
<3>5. CASE j = k /\ k \notin DOMAIN validator /\ ~d.valid
<4>1. y = x
  BY <1>1, <3>2, <3>5 DEF KeyValue
<4> HIDE DEF x, y
<4>2. y >= x
  BY <3>2, <4>1
<4> QED
  BY <4>2 DEF x, y
<3>6. CASE j = k /\ k \notin DOMAIN validator /\ d.valid
<4>1. /\ k \in DOMAIN validator' /\ validator'[k].wc = d.wc /\ validator'[k].balance = d.amount
      /\ validator'[k].eligible = FALSE
  BY <1>1, <3>6
<4>2. x = IF pdg[k] = Status("PREDEPOSITED", v) THEN Predeposit ELSE 0
  BY <3>6 DEF KeyValue
<4>3. CASE pdg[k] # Status("PREDEPOSITED", v)
<5>1. x = 0
  BY <4>2, <4>3
<5>2. y \in Nat
<6>1. ValueInv' => KeyValuesTyped'
  BY KeyValuesAreTyped, PTL
<6>2. KeyValuesTyped'
  BY <1>7, <6>1
<6> QED
  BY <6>2 DEF KeyValuesTyped
<5> HIDE DEF x, y
<5>3. y >= x
  BY <5>1, <5>2
<5> QED
  BY <5>3 DEF x, y
<4>4. CASE pdg[k] = Status("PREDEPOSITED", v)
<5>1. pdg[k].stage = "PREDEPOSITED" /\ pdg[k].vault = v /\ pdg[k] # Status("ACTIVATED", v)
  BY <4>4 DEF Status
<5>2. d.wc = v
<6> SUFFICES ASSUME d.wc # v PROVE FALSE
  OBVIOUS
<6>1. PICK c \in Pubkey : c = k
  BY <1>2
<6>2. ~Astray(c)
  BY <3>6, <6>1 DEF Astray
<6>3. Astray(c)'
  BY <1>1, <4>1, <5>1, <6>1 DEF Astray, ValidatorsOf
<6> QED
  BY <1>9, <6>2, <6>3 DEF Excused
<5>3. y = Predeposit
  BY <1>1, <3>6, <4>1, <4>4, <5>1, <5>2 DEF KeyValue
<5>4. x = Predeposit
  BY <4>2, <4>4
<5> HIDE DEF x, y
<5>5. y >= x
  BY <3>2, <5>3, <5>4
<5> QED
  BY <5>5 DEF x, y
<4> QED
  BY <4>3, <4>4
<3> QED
  BY <3>3, <3>4, <3>5, <3>6
<2>2. ASSUME NEW v \in Owner PROVE ~(TotalValue(v)' < TotalValue(v))
  BY <1>1, <1>2, <1>7, <2>1, NoneLoses
<2> QED
  BY <1>7, <2>2 DEF ValueKept
<1> QED
  BY <1>8, <1>9

-----------------------------------------------------------------------------

\* Every step.
LEMMA ValueSteps ==
  ASSUME ValueInv, [ValueNext]_valueVars
  PROVE  ValueInv' /\ (ValueKept \/ UNCHANGED valueVars)
<1>1. CASE UNCHANGED valueVars
<2>1. UNCHANGED <<pending, validator, pdg, aggregated>>
  BY <1>1 DEF valueVars
<2>2. ValueTypes' /\ FirstDepositsAreFull'
  BY <2>1 DEF ValueInv, ValueTypes, FirstDepositsAreFull
<2>3. PredepositsAreKnown'
  BY <2>1 DEF ValueInv, PredepositsAreKnown, ValidDeposits
<2> QED
  BY <1>1, <2>2, <2>3 DEF ValueInv
<1>2. ASSUME NEW k \in Pubkey, NEW v \in Owner, MakePredeposit(v, k) PROVE ValueInv' /\ ValueKept
  BY <1>2, ValuePredeposit
<1>3. ASSUME NEW k \in Pubkey, Prove(k) \/ Activate(k) \/ Compensate(k) PROVE ValueInv' /\ ValueKept
  BY <1>3, ValueProve, ValueActivate, ValueCompensate
<1>4. ASSUME NEW k \in Pubkey, NEW wc \in Owner \cup {Stranger}, NEW valid \in BOOLEAN,
             SideDeposit(k, wc, valid)
      PROVE  ValueInv' /\ ValueKept
  BY <1>4, ValueSideDeposit DEF Credentials
<1>5. ASSUME NEW k \in DOMAIN validator, BecomeEligible(k) \/ SweepOut(k) PROVE ValueInv' /\ ValueKept
  BY <1>5, ValueEligible, ValueSweepOut
<1>6. CASE Process
  BY <1>6, ValueProcess
<1> QED
  BY <1>1, <1>2, <1>3, <1>4, <1>5, <1>6 DEF ValueNext

\* ValueInv is inductive.
LEMMA ValueInvariant == ValueSpec => []ValueInv
<1>1. ValueInit => ValueInv
  BY ValueStarts
<1>2. ValueInv /\ [ValueNext]_valueVars => ValueInv'
  BY ValueSteps
<1> QED
  BY <1>1, <1>2, PTL DEF ValueSpec

\* staking_vaults.py:74-154, 215-312: whatever anybody deposits to whatever keys, what the
\* reports count for a vault is backed in every state, and no step of the protocol loses it.
THEOREM ValueIsNeverLost == ValueSpec => ValueFollowsTheEther
<1>1. ValueSpec => []TotalValueIsBacked
<2>1. ValueInv => TotalValueIsBacked
  BY ValueIsBacked
<2> QED
  BY <2>1, ValueInvariant, PTL
<1>2. ValueSpec => ValueDoesNotDrop
<2>1. ValueInv /\ [ValueNext]_valueVars =>
        [\A v \in Owner : TotalValue(v)' < TotalValue(v) =>
            \E k \in Pubkey :
              \/ pdg'[k].stage = "PROVEN" /\ pdg[k].stage # "PROVEN"
              \/ Astray(k)' /\ ~Astray(k)]_valueVars
  BY ValueSteps DEF ValueKept, Excused
<2> QED
  BY <2>1, ValueInvariant, PTL DEF ValueSpec, ValueDoesNotDrop
<1> QED
  BY <1>1, <1>2, PTL DEF ValueFollowsTheEther

-----------------------------------------------------------------------------
(* Lido's balances *)

QueuedDeposit == [key : Key, amount : Nat, valid : BOOLEAN, lido : BOOLEAN]

\* What the deposits s bring to a key that is no validator yet.
Coming(s, k) == Amounts(s, ValidPendingOf(s, k))

\* The places of a key's deposits, the valid ones among them and the first of these.
KeyPlaces(s, k) ==
  /\ DOMAIN s = 1 .. Len(s) /\ Len(s) \in Nat
  /\ DepositsTo(s, k) \in SUBSET (DOMAIN s)
  /\ ValidTo(s, k) \in SUBSET DepositsTo(s, k)
  /\ ValidPendingOf(s, k) \in SUBSET DepositsTo(s, k)
  /\ \A i \in DOMAIN s : i \in DepositsTo(s, k) <=> s[i].key = k
  /\ \A i \in DOMAIN s : i \in ValidTo(s, k) <=> s[i].key = k /\ s[i].valid
  /\ ValidTo(s, k) # {} =>
       /\ Min(ValidTo(s, k)) \in ValidTo(s, k)
       /\ \A i \in ValidTo(s, k) : Min(ValidTo(s, k)) <= i
  /\ Coming(s, k) \in Nat
  /\ ~MakesLidoValidator(s, k) => Coming(s, k) = 0 /\ ValidPendingOf(s, k) = {}

LEMMA PlacesOfKey ==
  ASSUME NEW s \in Seq(QueuedDeposit), NEW k
  PROVE  KeyPlaces(s, k)
<1>1. DOMAIN s = 1 .. Len(s) /\ Len(s) \in Nat
  OBVIOUS
<1>2. /\ DepositsTo(s, k) \in SUBSET (DOMAIN s)
      /\ ValidTo(s, k) \in SUBSET DepositsTo(s, k)
      /\ ValidPendingOf(s, k) \in SUBSET DepositsTo(s, k)
  BY DEF DepositsTo, ValidTo, ValidPendingOf
<1>3. /\ \A i \in DOMAIN s : i \in DepositsTo(s, k) <=> s[i].key = k
      /\ \A i \in DOMAIN s : i \in ValidTo(s, k) <=> s[i].key = k /\ s[i].valid
  BY DEF DepositsTo, ValidTo
<1>4. ValidTo(s, k) # {} =>
        /\ Min(ValidTo(s, k)) \in ValidTo(s, k)
        /\ \A i \in ValidTo(s, k) : Min(ValidTo(s, k)) <= i
<2>1. ValidTo(s, k) \in SUBSET Nat
  BY <1>1, <1>2
<2> QED
  BY <2>1, MinNat
<1>5. \A d \in QueuedDeposit : d.amount \in Nat
  BY DEF QueuedDeposit
<1>6. Coming(s, k) \in Nat
<2>1. ValidPendingOf(s, k) \in SUBSET (DOMAIN s)
  BY <1>2
<2> QED
  BY <1>5, <2>1, AmountsType DEF Coming
<1>7. ASSUME ~MakesLidoValidator(s, k) PROVE Coming(s, k) = 0 /\ ValidPendingOf(s, k) = {}
<2>1. ValidPendingOf(s, k) = {}
  BY <1>7, Zenon DEF ValidPendingOf
<2>2. Coming(s, k) = SumFunctionOnSet([i \in DOMAIN s |-> s[i].amount], {})
  BY <2>1, Zenon DEF Coming, Amounts
<2> DEFINE f == [i \in DOMAIN s |-> s[i].amount]
<2>3. SumFunctionOnSet(f, {}) = 0
<3> HIDE DEF f
<3>1. IsFiniteSet({}) /\ \A x \in {} : f[x] \in Int
  BY FS_EmptySet
<3> QED
  BY <3>1, SumFacts
<2> QED
  BY <2>1, <2>2, <2>3
<1> QED
  BY <1>1, <1>2, <1>3, <1>4, <1>6, <1>7 DEF KeyPlaces

\* What a deposit that comes last brings to a key.
ComesWith(s, d, t, k) ==
  /\ ValidTo(t, k) # {} <=> ValidTo(s, k) # {} \/ (d.key = k /\ d.valid)
  /\ MakesLidoValidator(t, k) <=>
       IF ValidTo(s, k) # {} THEN MakesLidoValidator(s, k)
       ELSE d.key = k /\ d.valid /\ d.lido
  /\ Coming(t, k) = Coming(s, k)
                      + IF d.key = k /\ MakesLidoValidator(t, k) THEN d.amount ELSE 0

LEMMA ComingAppend ==
  ASSUME NEW s \in Seq(QueuedDeposit), NEW d \in QueuedDeposit, NEW k,
         NEW t, t = Append(s, d)
  PROVE  ComesWith(s, d, t, k)
<1> USE DEF ComesWith
<1> DEFINE n == Len(s) + 1
           S == ValidTo(s, k)
           T == ValidTo(t, k)
<1>1. t \in Seq(QueuedDeposit) /\ DOMAIN t = 1 .. n /\ t[n] = d
      /\ \A i \in 1 .. Len(s) : t[i] = s[i]
  OBVIOUS
<1>0. KeyPlaces(s, k) /\ KeyPlaces(t, k)
<2>1. KeyPlaces(s, k)
  BY PlacesOfKey
<2>2. t \in Seq(QueuedDeposit)
  BY <1>1
<2>3. KeyPlaces(t, k)
  BY ONLY <2>2, PlacesOfKey
<2> QED
  BY <2>1, <2>3
<1>2. /\ DOMAIN s = 1 .. Len(s) /\ Len(s) \in Nat
      /\ DepositsTo(s, k) \in SUBSET (DOMAIN s) /\ S \in SUBSET DepositsTo(s, k)
      /\ (\A i \in DOMAIN s : i \in DepositsTo(s, k) <=> s[i].key = k)
      /\ (\A i \in DOMAIN s : i \in S <=> s[i].key = k /\ s[i].valid)
      /\ S # {} => Min(S) \in S /\ \A i \in S : Min(S) <= i
  BY <1>0 DEF KeyPlaces
<1>3. /\ DepositsTo(t, k) \in SUBSET (DOMAIN t) /\ T \in SUBSET DepositsTo(t, k)
      /\ (\A i \in DOMAIN t : i \in DepositsTo(t, k) <=> t[i].key = k)
      /\ (\A i \in DOMAIN t : i \in T <=> t[i].key = k /\ t[i].valid)
      /\ T # {} => Min(T) \in T /\ \A i \in T : Min(T) <= i
  BY <1>0 DEF KeyPlaces
<1> HIDE DEF n
<1>4. n = Len(s) + 1 /\ n \in Nat /\ n \notin DOMAIN s /\ n \in DOMAIN t
      /\ \A i \in DOMAIN t : i # n => i \in DOMAIN s
  BY <1>1, <1>2 DEF n
<1>5. DepositsTo(t, k) = DepositsTo(s, k) \cup IF d.key = k THEN {n} ELSE {}
  BY <1>1, <1>2, <1>3, <1>4
<1>6. T = S \cup IF d.key = k /\ d.valid THEN {n} ELSE {}
  BY <1>1, <1>2, <1>3, <1>4
<1> HIDE DEF S, T
<1>7. CASE S # {}
<2>1. T # {} /\ Min(T) = Min(S)
<3>1. T # {} /\ Min(S) \in T /\ Min(T) \in T
  BY <1>2, <1>3, <1>6, <1>7
<3>2. Min(S) \in Nat /\ Min(S) < n /\ Min(T) <= Min(S) /\ Min(T) \in Nat
  BY <1>1, <1>2, <1>3, <1>4, <1>7, <3>1
<3>3. Min(T) \in S
  BY <1>4, <1>6, <3>1, <3>2
<3>4. Min(S) <= Min(T)
  BY <1>2, <1>7, <3>3
<3> QED
  BY <3>1, <3>2, <3>4
<2>2. Min(S) \in DOMAIN s /\ t[Min(S)] = s[Min(S)] /\ Min(S) \in Nat /\ Min(S) < n
  BY <1>1, <1>2, <1>4, <1>7
<2>3. MakesLidoValidator(t, k) <=> MakesLidoValidator(s, k)
  BY <1>7, <2>1, <2>2 DEF MakesLidoValidator, S, T
<2>4. CASE MakesLidoValidator(s, k)
<3> DEFINE U == ValidPendingOf(s, k)
           V == ValidPendingOf(t, k)
<3>1. U = {i \in DepositsTo(s, k) : i >= Min(S)} /\ V = {i \in DepositsTo(t, k) : i >= Min(S)}
  BY <2>1, <2>3, <2>4, Zenon DEF ValidPendingOf, S, T
<3>2. V = U \cup IF d.key = k THEN {n} ELSE {}
<4> DEFINE m == Min(S)
           A == DepositsTo(s, k)
           B == DepositsTo(t, k)
<4> HIDE DEF U, V, m, A, B
<4>1. U = {i \in A : i >= m} /\ V = {i \in B : i >= m} /\ m < n /\ m \in Nat /\ n \in Nat
      /\ B = A \cup IF d.key = k THEN {n} ELSE {}
  BY <1>4, <1>5, <2>2, <3>1 DEF m, A, B
<4> QED
  BY ONLY <4>1
<3>3. U \in SUBSET (DOMAIN s)
  BY <1>2, <3>1
<3> HIDE DEF U, V
<3>4. /\ Amounts(t, U) = Amounts(s, U) /\ Amounts(t, U \cup {n}) = Amounts(s, U) + d.amount
      /\ Amounts(s, U) \in Nat
<4>1. \A e \in QueuedDeposit : e.amount \in Nat
  BY DEF QueuedDeposit
<4>2. /\ Amounts(Append(s, d), U) = Amounts(s, U)
      /\ Amounts(Append(s, d), U \cup {Len(s) + 1}) = Amounts(s, U) + d.amount
  BY <3>3, <4>1, AmountsAppend
<4>3. Amounts(s, U) \in Nat
  BY <3>3, <4>1, AmountsType
<4> QED
  BY <4>2, <4>3, <1>4
<3>5. Coming(t, k) = Amounts(t, V) /\ Coming(s, k) = Amounts(s, U)
  BY DEF Coming, U, V
<3>6. CASE d.key = k
<4>1. V = U \cup {n}
  BY <3>2, <3>6
<4>2. Coming(t, k) = Coming(s, k) + d.amount
  BY <3>4, <3>5, <4>1, Zenon
<4> QED
  BY <1>6, <1>7, <2>1, <2>3, <2>4, <3>6, <4>2 DEF S, T
<3>7. CASE d.key # k
<4>1. V = U
  BY <3>2, <3>7
<4>2. Coming(t, k) = Coming(s, k) /\ Coming(s, k) \in Nat
  BY <3>4, <3>5, <4>1, Zenon
<4> QED
  BY <1>6, <1>7, <2>1, <2>3, <2>4, <3>7, <4>2 DEF S, T
<3> QED
  BY <3>6, <3>7
<2>5. CASE ~MakesLidoValidator(s, k)
<3>1. Coming(s, k) = 0 /\ Coming(t, k) = 0
  BY <1>0, <2>3, <2>5 DEF KeyPlaces
<3> QED
  BY <1>6, <1>7, <2>1, <2>3, <2>5, <3>1 DEF S, T
<2> QED
  BY <2>4, <2>5
<1>8. CASE S = {}
<2>1. ~MakesLidoValidator(s, k) /\ Coming(s, k) = 0
<3>1. ~MakesLidoValidator(s, k)
  BY <1>8, Zenon DEF MakesLidoValidator, S
<3> QED
  BY <1>0, <3>1 DEF KeyPlaces
<2>2. CASE d.key = k /\ d.valid
<3>1. T = {n} /\ Min(T) = n
  BY <1>3, <1>6, <1>8, <2>2
<3>2. MakesLidoValidator(t, k) <=> d.lido
  BY <1>1, <3>1 DEF MakesLidoValidator, T
<3>3. CASE d.lido
<4>1. ValidPendingOf(t, k) = {i \in DepositsTo(t, k) : i >= n}
  BY <3>1, <3>2, <3>3, Zenon DEF ValidPendingOf, T
<4>2. ValidPendingOf(t, k) = {} \cup {n}
  BY <1>1, <1>2, <1>4, <1>5, <2>2, <4>1
<4>3. Amounts(t, {} \cup {n}) = Amounts(s, {}) + d.amount
<5>1. \A e \in QueuedDeposit : e.amount \in Nat
  BY DEF QueuedDeposit
<5>2. {} \in SUBSET (DOMAIN s)
  OBVIOUS
<5>3. Amounts(Append(s, d), {} \cup {Len(s) + 1}) = Amounts(s, {}) + d.amount
  BY <5>1, <5>2, AmountsAppend
<5> QED
  BY <1>4, <5>3
<4>4. Coming(s, k) = Amounts(s, {})
<5>1. ValidPendingOf(s, k) = {}
  BY <1>0, <2>1 DEF KeyPlaces
<5> QED
  BY <5>1, Zenon DEF Coming
<4>5. Coming(t, k) = Coming(s, k) + d.amount
  BY <4>2, <4>3, <4>4, Zenon DEF Coming
<4> QED
  BY <1>8, <2>1, <2>2, <3>1, <3>2, <3>3, <4>5 DEF S, T
<3>4. CASE ~d.lido
<4>1. Coming(t, k) = 0
  BY <1>0, <3>2, <3>4 DEF KeyPlaces
<4> QED
  BY <1>8, <2>1, <2>2, <3>1, <3>2, <3>4, <4>1 DEF S, T
<3> QED
  BY <3>3, <3>4
<2>3. CASE ~(d.key = k /\ d.valid)
<3>1. T = {}
  BY <1>6, <1>8, <2>3
<3>2. ~MakesLidoValidator(t, k)
  BY <3>1, Zenon DEF MakesLidoValidator, T
<3>3. Coming(t, k) = 0
  BY <1>0, <3>2 DEF KeyPlaces
<3> QED
  BY <1>8, <2>1, <2>3, <3>1, <3>2, <3>3 DEF S, T
<2> QED
  BY <2>2, <2>3
<1> QED
  BY <1>7, <1>8

\* What is still coming when the first deposit has left the queue.
LEMMA ComingTail ==
  ASSUME NEW s \in Seq(QueuedDeposit), s # <<>>, NEW k,
         NEW t, t = Tail(s), NEW h, h = Head(s)
  PROVE  /\ ~(h.key = k /\ h.valid) => Coming(s, k) = Coming(t, k)
         /\ h.key = k /\ h.valid /\ h.lido => Coming(s, k) = AmountIn(s, k)
<1> DEFINE n == Len(s)
           S == ValidTo(s, k)
           T == ValidTo(t, k)
<1>1. t \in Seq(QueuedDeposit) /\ DOMAIN t = 1 .. (n - 1) /\ n \in Nat \ {0}
      /\ h = s[1] /\ \A i \in 1 .. (n - 1) : t[i] = s[i + 1]
  OBVIOUS
<1>0. KeyPlaces(s, k) /\ KeyPlaces(t, k)
<2>1. KeyPlaces(s, k)
  BY PlacesOfKey
<2>2. t \in Seq(QueuedDeposit)
  BY <1>1
<2>3. KeyPlaces(t, k)
  BY ONLY <2>2, PlacesOfKey
<2> QED
  BY <2>1, <2>3
<1>2. /\ DOMAIN s = 1 .. n
      /\ DepositsTo(s, k) \in SUBSET (DOMAIN s) /\ S \in SUBSET DepositsTo(s, k)
      /\ (\A i \in DOMAIN s : i \in DepositsTo(s, k) <=> s[i].key = k)
      /\ (\A i \in DOMAIN s : i \in S <=> s[i].key = k /\ s[i].valid)
      /\ S # {} => Min(S) \in S /\ \A i \in S : Min(S) <= i
  BY <1>0 DEF KeyPlaces
<1>3. /\ DepositsTo(t, k) \in SUBSET (DOMAIN t) /\ T \in SUBSET DepositsTo(t, k)
      /\ (\A i \in DOMAIN t : i \in DepositsTo(t, k) <=> t[i].key = k)
      /\ (\A i \in DOMAIN t : i \in T <=> t[i].key = k /\ t[i].valid)
      /\ T # {} => Min(T) \in T /\ \A i \in T : Min(T) <= i
  BY <1>0 DEF KeyPlaces
<1> HIDE DEF n, S, T
<1>4. /\ \A i \in DOMAIN t : i \in Nat /\ i + 1 \in DOMAIN s /\ s[i + 1] = t[i] /\ i + 1 # 1
      /\ \A i \in DOMAIN s : i # 1 => i - 1 \in DOMAIN t /\ t[i - 1] = s[i] /\ i \in Nat
<2>1. \A i \in DOMAIN t : i \in Nat /\ i + 1 \in DOMAIN s /\ s[i + 1] = t[i] /\ i + 1 # 1
  BY <1>1, <1>2
<2>2. ASSUME NEW i \in DOMAIN s, i # 1 PROVE i - 1 \in DOMAIN t /\ t[i - 1] = s[i] /\ i \in Nat
<3>1. i - 1 \in 1 .. (n - 1) /\ (i - 1) + 1 = i /\ i \in Nat
  BY <1>1, <1>2, <2>2
<3>2. t[i - 1] = s[(i - 1) + 1]
  BY <1>1, <3>1
<3> QED
  BY <1>1, <3>1, <3>2
<2> QED
  BY <2>1, <2>2
<1>5. ASSUME ~(h.key = k /\ h.valid) PROVE Coming(s, k) = Coming(t, k)
<2>1. 1 \notin S
  BY <1>1, <1>2, <1>5
<2>2. (\A i \in T : i + 1 \in S) /\ \A i \in S : i \in Nat /\ i - 1 \in T
<3>1. ASSUME NEW i \in T PROVE i + 1 \in S
<4>1. i \in DOMAIN t /\ t[i].key = k /\ t[i].valid
  BY <1>3
<4> QED
  BY <1>2, <1>4, <4>1
<3>2. ASSUME NEW i \in S PROVE i \in Nat /\ i - 1 \in T
<4>1. i \in DOMAIN s /\ s[i].key = k /\ s[i].valid /\ i # 1
  BY <1>2, <2>1
<4> QED
  BY <1>3, <1>4, <4>1
<3> QED
  BY <3>1, <3>2
<2>3. CASE T = {}
<3>1. S = {}
  BY <2>2, <2>3
<3>2. ~MakesLidoValidator(s, k) /\ ~MakesLidoValidator(t, k)
  BY <2>3, <3>1, Zenon DEF MakesLidoValidator, S, T
<3> QED
  BY <1>0, <3>2 DEF KeyPlaces
<2>4. CASE T # {}
<3> DEFINE m == Min(T)
           l == Min(S)
<3>1. S # {} /\ l \in S /\ m \in T /\ l = m + 1 /\ m \in Nat /\ s[l] = t[m]
<4>1. S # {} /\ l \in S /\ m \in T
  BY <1>2, <1>3, <2>2, <2>4
<4>2. m <= l - 1 /\ l <= m + 1 /\ m \in Nat /\ l \in Nat
  BY <1>2, <1>3, <1>4, <2>2, <2>4, <4>1
<4>3. l = m + 1
  BY <4>2
<4>4. m \in DOMAIN t
  BY <1>3, <4>1
<4> QED
  BY <1>4, <4>1, <4>2, <4>3, <4>4
<3>2. MakesLidoValidator(s, k) <=> MakesLidoValidator(t, k)
  BY <2>4, <3>1 DEF MakesLidoValidator, S, T
<3>3. CASE ~MakesLidoValidator(t, k)
  BY <1>0, <3>2, <3>3 DEF KeyPlaces
<3>4. CASE MakesLidoValidator(t, k)
<4> DEFINE U == {i \in DepositsTo(s, k) : i >= l}
           V == {i \in DepositsTo(t, k) : i >= m}
<4>1. ValidPendingOf(s, k) = U /\ ValidPendingOf(t, k) = V
  BY <3>2, <3>4, Zenon DEF ValidPendingOf, S, T
<4> HIDE DEF m, l
<4>2. U \in SUBSET (DOMAIN s) /\ 1 \notin U
<5>1. l >= 2 /\ l \in Nat
<6>1. m \in DOMAIN t
  BY <1>3, <3>1
<6> QED
  BY <1>1, <3>1, <6>1
<5> QED
  BY <1>2, <5>1
<4>3. V = {i - 1 : i \in U}
<5>1. ASSUME NEW j \in V PROVE j + 1 \in U /\ (j + 1) - 1 = j
<6>1. j \in DOMAIN t /\ t[j].key = k /\ j >= m /\ j \in Nat
  BY <1>3, <1>4
<6>2. j + 1 \in DepositsTo(s, k)
  BY <1>2, <1>4, <6>1
<6>3. j + 1 >= l /\ (j + 1) - 1 = j
  BY ONLY <3>1, <6>1
<6> QED
  BY <6>2, <6>3
<5>2. ASSUME NEW i \in U PROVE i - 1 \in V
<6>1. i \in DOMAIN s /\ s[i].key = k /\ i >= l /\ i # 1
  BY <1>2, <4>2
<6>2. i - 1 \in DepositsTo(t, k) /\ i \in Nat
  BY <1>3, <1>4, <6>1
<6>3. i - 1 >= m
  BY ONLY <3>1, <6>1, <6>2
<6> QED
  BY <6>2, <6>3
<5> HIDE DEF U, V
<5> QED
  BY <5>1, <5>2
<4> HIDE DEF U, V
<4>4. Amounts(s, U) = Amounts(Tail(s), V)
<5>1. \A e \in QueuedDeposit : e.amount \in Nat
  BY DEF QueuedDeposit
<5>2. U \in SUBSET (DOMAIN s)
  BY <4>2
<5>3. 1 \notin U
  BY <4>2
<5>4. MoveByOnePlace(s, U, V)
  BY <4>3, <5>1, <5>2, <5>3, AmountsTail
<5> QED
  BY <5>4 DEF MoveByOnePlace
<4> QED
  BY <4>1, <4>4, Zenon DEF Coming
<3> QED
  BY <3>3, <3>4
<2> QED
  BY <2>3, <2>4
<1>6. ASSUME h.key = k, h.valid, h.lido PROVE Coming(s, k) = AmountIn(s, k)
<2>1. 1 \in S /\ Min(S) = 1
<3>1. 1 \in S
  BY <1>1, <1>2, <1>6
<3>2. Min(S) \in S /\ Min(S) <= 1
  BY <1>2, <3>1
<3>3. Min(S) \in 1 .. n
  BY <1>2, <3>2
<3> QED
  BY <3>1, <3>2, <3>3
<2>2. MakesLidoValidator(s, k)
  BY <1>1, <1>6, <2>1 DEF MakesLidoValidator, S
<2>3. ValidPendingOf(s, k) = {i \in DepositsTo(s, k) : i >= 1}
  BY <2>1, <2>2, Zenon DEF ValidPendingOf, S
<2>4. ValidPendingOf(s, k) = DepositsTo(s, k)
  BY <1>2, <2>3
<2> QED
  BY <2>4, Zenon DEF Coming, AmountIn
<1> QED
  BY <1>5, <1>6

-----------------------------------------------------------------------------
(* What Lido's keys hold at a block *)

\* What the oracle reads at a block, by type.
IsState(at) ==
  /\ DOMAIN at.balance \subseteq Key /\ \A k \in DOMAIN at.balance : at.balance[k] \in Nat
  /\ at.queue \in Seq(QueuedDeposit)
  /\ at.block \in Nat /\ at.vault \in Nat
  /\ at.inFrame \in Int /\ at.deposited \in Int /\ at.paid \in Int

\* What the deposits s will add to a key's validator.
KeyPending(at, s, k) == IF k \in DOMAIN at.balance THEN AmountIn(s, k) ELSE Coming(s, k)

\* A key's balance and what its deposits will add.
Holding(at, k) ==
  IF k \in DOMAIN at.balance THEN at.balance[k] + AmountIn(at.queue, k) ELSE Coming(at.queue, k)

LEMMA QueuedIsCounted == \A e \in QueuedDeposit : e.amount \in Nat
BY DEF QueuedDeposit

LEMMA KeyPendingType ==
  ASSUME NEW at, NEW s \in Seq(QueuedDeposit), NEW k
  PROVE  KeyPending(at, s, k) \in Nat /\ AmountIn(s, k) \in Nat /\ Coming(s, k) \in Nat
<1>1. AmountIn(s, k) \in Nat
  BY QueuedIsCounted, AmountType
<1>2. KeyPlaces(s, k)
  BY PlacesOfKey
<1> QED
  BY <1>1, <1>2 DEF KeyPending, KeyPlaces

\* The pending ether of a report, and its balances, as sums over keys.
LEMMA HoldingsOfKeys ==
  ASSUME NEW at, IsState(at), NEW K \in SUBSET Key
  PROVE  /\ Pending(at, K) = SumFunctionOnSet([k \in K |-> KeyPending(at, at.queue, k)], K)
         /\ Pending(at, K) \in Int /\ ClBalance(at, K) \in Int
         /\ ClBalance(at, K) + Pending(at, K) = SumFunctionOnSet([k \in Key |-> Holding(at, k)], K)
<1> DEFINE L == LidoValidators(at, K)
           P == K \ DOMAIN at.balance
           f == Topups(at, K)
           g == PendingValidators(at, K)
           h == [k \in K |-> KeyPending(at, at.queue, k)]
           w == [k \in Key |-> Holding(at, k)]
<1>1. IsFiniteSet(K)
  BY RebaseAssumption, FS_Subset
<1>2. at.queue \in Seq(QueuedDeposit) /\ \A k \in DOMAIN at.balance : at.balance[k] \in Nat
  BY DEF IsState
<1>3. \A k : KeyPending(at, at.queue, k) \in Nat /\ AmountIn(at.queue, k) \in Nat /\ Coming(at.queue, k) \in Nat
  BY <1>2, KeyPendingType
<1>4. L \in SUBSET K /\ P \in SUBSET K /\ L \cap P = {} /\ L = K \cap DOMAIN at.balance
  BY DEF LidoValidators
<1>5. \A k \in L : f[k] = AmountIn(at.queue, k)
  BY Zenon DEF Topups, AmountIn
<1>6. \A k \in P : g[k] = Coming(at.queue, k)
  BY Zenon DEF PendingValidators, Coming
<1>7. \A k \in K : h[k] = IF k \in L THEN f[k] ELSE IF k \in P THEN g[k] ELSE 0
<2>1. ASSUME NEW k \in K PROVE h[k] = IF k \in L THEN f[k] ELSE IF k \in P THEN g[k] ELSE 0
<3>1. h[k] = KeyPending(at, at.queue, k)
  OBVIOUS
<3>2. CASE k \in DOMAIN at.balance
<4>1. k \in L
  BY <1>4, <3>2
<4> HIDE DEF h, L, f
<4> QED
  BY <1>5, <3>1, <3>2, <4>1 DEF KeyPending
<3>3. CASE k \notin DOMAIN at.balance
<4>1. k \notin L /\ k \in P
  BY <1>4, <3>3
<4> HIDE DEF h, L, P, f, g
<4> QED
  BY <1>6, <3>1, <3>3, <4>1 DEF KeyPending
<3> QED
  BY <3>2, <3>3
<2> HIDE DEF h, L, P, f, g
<2> QED
  BY <2>1
<1>8. Pending(at, K) = SumFunctionOnSet(f, L) + SumFunctionOnSet(g, P)
  BY Zenon DEF Pending
<1>9. ClBalance(at, K) = SumFunctionOnSet(at.balance, L)
  BY Zenon DEF ClBalance
<1>10. \A k \in K : w[k] \in Int /\ h[k] \in Int
<2>1. ASSUME NEW k \in K PROVE w[k] \in Int /\ h[k] \in Int
<3>1. w[k] = Holding(at, k) /\ h[k] = KeyPending(at, at.queue, k)
  OBVIOUS
<3>2. Holding(at, k) \in Int
  BY <1>2, <1>3 DEF Holding
<3> QED
  BY <1>3, <3>1, <3>2
<2> QED
  BY <2>1
<1>11. \A k \in L : at.balance[k] \in Int /\ h[k] = w[k] - at.balance[k]
<2>1. ASSUME NEW k \in L PROVE at.balance[k] \in Int /\ h[k] = w[k] - at.balance[k]
<3>1. k \in K /\ k \in Key /\ k \in DOMAIN at.balance
  BY <1>4
<3>2. w[k] = at.balance[k] + AmountIn(at.queue, k) /\ h[k] = AmountIn(at.queue, k)
  BY <3>1 DEF Holding, KeyPending
<3>3. at.balance[k] \in Int /\ AmountIn(at.queue, k) \in Int
  BY <1>2, <1>3, <3>1
<3> HIDE DEF h, w
<3> QED
  BY ONLY <3>2, <3>3
<2> QED
  BY <2>1
<1>12. \A k \in K \ L : h[k] = w[k]
<2>1. ASSUME NEW k \in K \ L PROVE h[k] = w[k]
<3>1. k \in K /\ k \in Key /\ k \notin DOMAIN at.balance
  BY <1>4
<3> QED
  BY <3>1 DEF Holding, KeyPending
<2> QED
  BY <2>1
<1> HIDE DEF f, g, h, w
<1>13. SumFunctionOnSet(f, L) + SumFunctionOnSet(g, P) = SumFunctionOnSet(h, K)
<2>1. (\A k \in L : f[k] \in Int) /\ (\A k \in P : g[k] \in Int)
  BY <1>3, <1>5, <1>6
<2> HIDE DEF L, P
<2> QED
  BY <1>1, <1>4, <1>7, <2>1, SumOfParts
<1>14. SumFunctionOnSet(h, K) = SumFunctionOnSet(w, K) - SumFunctionOnSet(at.balance, L)
<2> HIDE DEF L
<2> QED
  BY <1>1, <1>4, <1>10, <1>11, <1>12, SumLess
<1>15. SumFunctionOnSet(h, K) \in Int /\ SumFunctionOnSet(w, K) \in Int
  BY <1>1, <1>10, SumFacts
<1>16. SumFunctionOnSet(at.balance, L) \in Int
<2>1. IsFiniteSet(L)
  BY <1>1, <1>4, FS_Subset
<2>2. \A k \in L : at.balance[k] \in Int
  BY <1>11
<2> HIDE DEF L
<2> QED
  BY <2>1, <2>2, SumFacts
<1>17. ClBalance(at, K) + Pending(at, K) = SumFunctionOnSet(w, K)
<2> DEFINE a == SumFunctionOnSet(at.balance, L)
           b == SumFunctionOnSet(w, K)
           c == SumFunctionOnSet(h, K)
<2>1. c = b - a /\ a \in Int /\ b \in Int
  BY <1>14, <1>15, <1>16
<2>2. ClBalance(at, K) = a /\ Pending(at, K) = c
  BY <1>8, <1>9, <1>13
<2> HIDE DEF a, b, c
<2> QED
  BY <2>1, <2>2 DEF b
<1> QED
  BY <1>8, <1>9, <1>13, <1>15, <1>16, <1>17 DEF h, w

-----------------------------------------------------------------------------
(* The deposits played one after another *)

\* The first n deposits of a queue.
UpTo(q, n) == [i \in 1 .. n |-> q[i]]

LEMMA UpToExtends ==
  ASSUME NEW q \in Seq(QueuedDeposit), NEW n \in 1 .. Len(q)
  PROVE  /\ UpTo(q, n - 1) \in Seq(QueuedDeposit) /\ UpTo(q, n) \in Seq(QueuedDeposit)
         /\ q[n] \in QueuedDeposit
         /\ UpTo(q, n) = Append(UpTo(q, n - 1), q[n])
<1>1. Len(q) \in Nat /\ \A i \in 1 .. Len(q) : q[i] \in QueuedDeposit
  OBVIOUS
<1>2. n \in Nat /\ n - 1 \in Nat /\ 1 .. n \subseteq 1 .. Len(q) /\ 1 .. (n - 1) \subseteq 1 .. n /\ (n - 1) + 1 = n
  BY <1>1
<1> DEFINE s == UpTo(q, n - 1)
           t == UpTo(q, n)
<1>3. s \in Seq(QueuedDeposit) /\ Len(s) = n - 1 /\ \A i \in 1 .. (n - 1) : s[i] = q[i]
  BY <1>1, <1>2 DEF UpTo
<1>4. t \in Seq(QueuedDeposit) /\ Len(t) = n /\ \A i \in 1 .. n : t[i] = q[i]
  BY <1>1, <1>2 DEF UpTo
<1>5. q[n] \in QueuedDeposit
  BY <1>1
<1> HIDE DEF s, t
<1>6. Append(s, q[n]) \in Seq(QueuedDeposit) /\ Len(Append(s, q[n])) = n
  BY <1>2, <1>3, <1>5
<1>7. ASSUME NEW i \in 1 .. n PROVE t[i] = Append(s, q[n])[i]
<2>1. CASE i = n
  BY <1>2, <1>3, <1>4, <2>1
<2>2. CASE i # n
<3>1. i \in 1 .. (n - 1)
  BY <1>2, <2>2
<3>2. s[i] = q[i] /\ t[i] = q[i]
  BY <1>3, <1>4, <3>1
<3>3. Append(s, q[n])[i] = s[i]
  BY <1>3, <1>5, <3>1
<3> QED
  BY <3>2, <3>3
<2> QED
  BY <2>1, <2>2
<1>8. t = Append(s, q[n])
  BY <1>4, <1>6, <1>7, SeqEqual
<1> QED
  BY <1>3, <1>4, <1>5, <1>8 DEF s, t

\* The states of the play of a queue's first n deposits.
IsPlay(p, at, K, n) ==
  p = [j \in 0 .. n |->
         IF j = 0 THEN [there |-> K \cap DOMAIN at.balance, foreign |-> {}, sum |-> 0]
         ELSE Play(p[j - 1], at.queue[j], K)]

LEMMA PlayExists ==
  ASSUME NEW at, NEW K, NEW n \in Nat
  PROVE  \E p : IsPlay(p, at, K, n)
<1> DEFINE Bad == {m \in Nat : ~\E p : IsPlay(p, at, K, m)}
           start == [there |-> K \cap DOMAIN at.balance, foreign |-> {}, sum |-> 0]
<1>1. Bad = {}
<2>1. SUFFICES ASSUME Bad # {} PROVE FALSE
  OBVIOUS
<2>2. PICK m \in Bad : \A k \in Bad : m <= k
<3>1. Bad \in SUBSET Nat
  OBVIOUS
<3> HIDE DEF Bad
<3> QED
  BY <2>1, <3>1, LeastNat
<2>3. CASE m = 0
<3> DEFINE p == [j \in 0 .. 0 |-> start]
<3> HIDE DEF start
<3>1. p = [j \in 0 .. 0 |-> IF j = 0 THEN start ELSE Play(p[j - 1], at.queue[j], K)]
  OBVIOUS
<3> HIDE DEF p
<3>2. IsPlay(p, at, K, 0)
  BY <3>1 DEF IsPlay, start
<3> QED
  BY <2>3, <3>2
<2>4. CASE m # 0
<3>1. m - 1 \in Nat /\ m - 1 \notin Bad /\ m \in Nat
  BY <2>2, <2>4
<3>2. PICK g : IsPlay(g, at, K, m - 1)
  BY <3>1
<3> DEFINE p == [j \in 0 .. m |-> IF j = m THEN Play(g[m - 1], at.queue[m], K) ELSE g[j]]
<3> HIDE DEF Bad, start
<3>3. ASSUME NEW j \in 0 .. m
      PROVE  p[j] = IF j = 0 THEN start ELSE Play(p[j - 1], at.queue[j], K)
<4>1. CASE j = m
<5>1. m - 1 \in 0 .. m /\ m - 1 # m /\ m # 0
  BY <2>4, <3>1
<5>2. p[m - 1] = g[m - 1] /\ p[j] = Play(g[m - 1], at.queue[m], K)
  BY <4>1, <5>1
<5> QED
  BY <4>1, <5>1, <5>2
<4>2. CASE j # m
<5>1. j \in 0 .. m - 1
  BY <3>1, <4>2
<5>2. g[j] = IF j = 0 THEN start ELSE Play(g[j - 1], at.queue[j], K)
  BY <3>2, <5>1 DEF IsPlay, start
<5>3. p[j] = g[j]
  BY <4>2
<5>4. j # 0 => p[j - 1] = g[j - 1]
<6>1. j # 0 => j - 1 \in 0 .. m /\ j - 1 # m
  BY <3>1, <5>1
<6> QED
  BY <6>1
<5> HIDE DEF p
<5> QED
  BY <5>2, <5>3, <5>4
<4> QED
  BY <4>1, <4>2
<3>4. IsPlay(p, at, K, m)
  BY <3>3 DEF IsPlay, start
<3>5. m \notin Bad
  BY <3>4 DEF Bad
<3> QED
  BY <2>2, <3>5
<2> QED
  BY <2>3, <2>4
<1> QED
  BY <1>1

\* Where the play stands after the deposits s: which keys have validators with Lido's
\* credentials, which are barred, and what has been added to the former.
PlayedTo(r, at, K, s) ==
  \E there, barred, sum :
    /\ r = [there |-> there, foreign |-> barred, sum |-> sum]
    /\ sum = SumFunctionOnSet([k \in K |-> KeyPending(at, s, k)], K)
    /\ \A k : k \in there <=> k \in K /\ (k \in DOMAIN at.balance \/ MakesLidoValidator(s, k))
    /\ \A k : k \in barred <=> /\ k \in K /\ k \notin DOMAIN at.balance
                               /\ ValidTo(s, k) # {} /\ ~MakesLidoValidator(s, k)

LEMMA PlayStarts ==
  ASSUME NEW at, NEW K \in SUBSET Key, NEW s, s = <<>>,
         NEW r, r = [there |-> K \cap DOMAIN at.balance, foreign |-> {}, sum |-> 0]
  PROVE  PlayedTo(r, at, K, s)
<1>1. s \in Seq(QueuedDeposit) /\ DOMAIN s = {}
  OBVIOUS
<1>2. ASSUME NEW k PROVE ValidTo(s, k) = {} /\ DepositsTo(s, k) = {}
  BY <1>1 DEF ValidTo, DepositsTo
<1>3. ASSUME NEW k PROVE ~MakesLidoValidator(s, k)
  BY <1>2 DEF MakesLidoValidator
<1>4. ASSUME NEW k PROVE KeyPending(at, s, k) = 0
<2>1. KeyPlaces(s, k)
  BY <1>1, PlacesOfKey
<2>2. Coming(s, k) = 0
  BY <1>3, <2>1 DEF KeyPlaces
<2>3. AmountIn(s, k) = SumFunctionOnSet([i \in DOMAIN s |-> s[i].amount], {})
  BY <1>2, Zenon DEF AmountIn, Amounts
<2> DEFINE f == [i \in DOMAIN s |-> s[i].amount]
<2>4. SumFunctionOnSet(f, {}) = 0
<3> HIDE DEF f
<3>1. IsFiniteSet({}) /\ \A x \in {} : f[x] \in Int
  BY FS_EmptySet
<3> QED
  BY <3>1, SumFacts
<2> QED
  BY <2>2, <2>3, <2>4 DEF KeyPending
<1> DEFINE h == [k \in K |-> KeyPending(at, s, k)]
<1>5. SumFunctionOnSet(h, K) = 0
<2>1. IsFiniteSet(K)
  BY RebaseAssumption, FS_Subset
<2>2. \A k \in K : h[k] = 0 /\ h[k] \in Nat
  BY <1>4
<2> HIDE DEF h
<2>3. SumFunctionOnSet(h, K) # 0 => \E x \in K : h[x] # 0
  BY <2>1, <2>2, SumOfNats
<2> QED
  BY <2>2, <2>3
<1>6. \A k : k \in K \cap DOMAIN at.balance <=> k \in K /\ (k \in DOMAIN at.balance \/ MakesLidoValidator(s, k))
  BY <1>3
<1>7. \A k : k \in {} <=> /\ k \in K /\ k \notin DOMAIN at.balance
                          /\ ValidTo(s, k) # {} /\ ~MakesLidoValidator(s, k)
  BY <1>2
<1> HIDE DEF h
<1> QED
  BY <1>5, <1>6, <1>7, Zenon DEF PlayedTo, h

\* One deposit more.
LEMMA PlayGoesOn ==
  ASSUME NEW at, NEW K \in SUBSET Key, NEW s \in Seq(QueuedDeposit), NEW d \in QueuedDeposit,
         NEW t, t = Append(s, d), NEW r, PlayedTo(r, at, K, s)
  PROVE  PlayedTo(Play(r, d, K), at, K, t)
<1> DEFINE Lands(k) == k \in DOMAIN at.balance \/ MakesLidoValidator(s, k)
           LandsNow(k) == k \in DOMAIN at.balance \/ MakesLidoValidator(t, k)
           f == [k \in K |-> KeyPending(at, s, k)]
           g == [k \in K |-> KeyPending(at, t, k)]
           T == {k \in K : k = d.key /\ LandsNow(k)}
           v == Play(r, d, K)
<1>0. d.amount \in Nat /\ d.valid \in BOOLEAN /\ d.lido \in BOOLEAN
  BY DEF QueuedDeposit
<1>1. t \in Seq(QueuedDeposit)
  OBVIOUS
<1>2. PICK there, barred, sum :
        /\ r = [there |-> there, foreign |-> barred, sum |-> sum]
        /\ sum = SumFunctionOnSet(f, K)
        /\ \A k : k \in there <=> k \in K /\ Lands(k)
        /\ \A k : k \in barred <=> /\ k \in K /\ k \notin DOMAIN at.balance
                                   /\ ValidTo(s, k) # {} /\ ~MakesLidoValidator(s, k)
  BY Zenon DEF PlayedTo
<1>3. ASSUME NEW k
      PROVE  /\ ValidTo(t, k) # {} <=> ValidTo(s, k) # {} \/ (d.key = k /\ d.valid)
             /\ MakesLidoValidator(t, k) <=>
                  IF ValidTo(s, k) # {} THEN MakesLidoValidator(s, k)
                  ELSE d.key = k /\ d.valid /\ d.lido
             /\ Coming(t, k) = Coming(s, k)
                                 + IF d.key = k /\ MakesLidoValidator(t, k) THEN d.amount ELSE 0
<2>1. ComesWith(s, d, t, k)
  BY ComingAppend
<2> QED
  BY <2>1 DEF ComesWith
<1>4. ASSUME NEW k PROVE MakesLidoValidator(s, k) => ValidTo(s, k) # {}
  BY Zenon DEF MakesLidoValidator
<1>5. ASSUME NEW k
      PROVE  KeyPending(at, t, k)
               = KeyPending(at, s, k) + IF d.key = k /\ LandsNow(k) THEN d.amount ELSE 0
<2>1. AmountIn(t, k) = AmountIn(s, k) + IF d.key = k THEN d.amount ELSE 0
  BY QueuedIsCounted, AmountAppend
<2>2. CASE k \in DOMAIN at.balance
  BY <2>1, <2>2 DEF KeyPending
<2>3. CASE k \notin DOMAIN at.balance
  BY <1>3, <2>3 DEF KeyPending
<2> QED
  BY <2>2, <2>3
<1>6. SumFunctionOnSet(f, K) \in Int
      /\ SumFunctionOnSet(g, K) = SumFunctionOnSet(f, K) + IF T # {} THEN d.amount ELSE 0
<2> DEFINE b == -d.amount
<2>1. IsFiniteSet(K)
  BY RebaseAssumption, FS_Subset
<2>2. ASSUME NEW k \in K
      PROVE f[k] \in Int /\ g[k] = f[k] - IF k \in T THEN b ELSE 0
<3>1. f[k] = KeyPending(at, s, k) /\ g[k] = KeyPending(at, t, k) /\ KeyPending(at, s, k) \in Nat
  BY KeyPendingType
<3>2. k \in T <=> d.key = k /\ LandsNow(k)
  OBVIOUS
<3>3. KeyPending(at, t, k) = KeyPending(at, s, k) + IF k \in T THEN d.amount ELSE 0
  BY <1>5, <3>2
<3> HIDE DEF f, g, T
<3> QED
  BY ONLY <1>0, <3>1, <3>3
<2>3. b \in Int /\ T \in SUBSET K /\ \A x, y \in T : x = y
  BY <1>0
<2> HIDE DEF f, g, T, b
<2>4. /\ SumFunctionOnSet(f, K) \in Int
      /\ SumFunctionOnSet(g, K) = SumFunctionOnSet(f, K) - IF T # {} THEN b ELSE 0
<3>1. \A k \in K : f[k] \in Int /\ g[k] = f[k] - IF k \in T THEN b ELSE 0
  BY <2>2
<3>2. SumFunctionOnSet(g, K) = SumFunctionOnSet(f, K) - IF T # {} THEN b ELSE 0
  BY ONLY <2>1, <2>3, <3>1, SumLessOne
<3>3. SumFunctionOnSet(f, K) \in Int
  BY ONLY <2>1, <3>1, SumFacts
<3> QED
  BY <3>2, <3>3
<2> DEFINE x == SumFunctionOnSet(f, K)
           y == SumFunctionOnSet(g, K)
<2>5. x \in Int /\ y = x - (IF T # {} THEN b ELSE 0) /\ b = -d.amount
  BY <2>4 DEF b
<2> HIDE DEF x, y
<2>6. y = x + IF T # {} THEN d.amount ELSE 0
<3> DEFINE a == d.amount
<3>1. a \in Nat /\ b = -a
  BY <1>0, <2>5
<3> HIDE DEF a
<3>2. y = x + IF T # {} THEN a ELSE 0
<4>1. CASE T # {}
  BY <2>5, <3>1, <4>1
<4>2. CASE T = {}
  BY <2>5, <3>1, <4>2
<4> QED
  BY <4>1, <4>2
<3> QED
  BY <3>2 DEF a
<2> QED
  BY <2>4, <2>6 DEF x, y
<1>7. T # {} <=> d.key \in K /\ LandsNow(d.key)
  OBVIOUS
<1> HIDE DEF f, g, T
<1>8. CASE d.key \in there
<2>1. v = [there |-> there, foreign |-> barred, sum |-> sum + d.amount]
  BY <1>2, <1>8 DEF Play
<2>2. sum + d.amount = SumFunctionOnSet(g, K)
<3>1. T # {}
  BY <1>2, <1>3, <1>4, <1>7, <1>8
<3> QED
  BY <1>2, <1>6, <3>1
<2>3. \A k : k \in there <=> k \in K /\ LandsNow(k)
  BY <1>2, <1>3, <1>4, <1>8
<2>4. \A k : k \in barred <=> /\ k \in K /\ k \notin DOMAIN at.balance
                              /\ ValidTo(t, k) # {} /\ ~MakesLidoValidator(t, k)
  BY <1>2, <1>3, <1>4, <1>8
<2> HIDE DEF v
<2> QED
  BY <2>1, <2>2, <2>3, <2>4, Zenon DEF PlayedTo, g, v
<1>9. CASE d.key \notin there /\ (d.key \in barred \/ d.key \notin K \/ ~d.valid)
<2>1. v = [there |-> there, foreign |-> barred, sum |-> sum]
  BY <1>2, <1>9 DEF Play
<2>2. sum = SumFunctionOnSet(g, K)
<3>1. T = {}
  BY <1>2, <1>3, <1>4, <1>7, <1>9
<3> QED
  BY <1>2, <1>6, <3>1
<2>3. \A k : k \in there <=> k \in K /\ LandsNow(k)
  BY <1>2, <1>3, <1>4, <1>9
<2>4. \A k : k \in barred <=> /\ k \in K /\ k \notin DOMAIN at.balance
                              /\ ValidTo(t, k) # {} /\ ~MakesLidoValidator(t, k)
  BY <1>2, <1>3, <1>4, <1>9
<2> HIDE DEF v
<2> QED
  BY <2>1, <2>2, <2>3, <2>4, Zenon DEF PlayedTo, g, v
<1>10. CASE d.key \notin there /\ d.key \notin barred /\ d.key \in K /\ d.valid /\ d.lido
<2> DEFINE m == there \cup {d.key}
<2>1. v = [there |-> m, foreign |-> barred, sum |-> sum + d.amount]
  BY <1>2, <1>10 DEF Play
<2>2. sum + d.amount = SumFunctionOnSet(g, K)
<3>1. T # {}
  BY <1>2, <1>3, <1>4, <1>7, <1>10
<3> QED
  BY <1>2, <1>6, <3>1
<2>3. \A k : k \in m <=> k \in K /\ LandsNow(k)
  BY <1>2, <1>3, <1>4, <1>10
<2>4. \A k : k \in barred <=> /\ k \in K /\ k \notin DOMAIN at.balance
                              /\ ValidTo(t, k) # {} /\ ~MakesLidoValidator(t, k)
  BY <1>2, <1>3, <1>4, <1>10
<2> HIDE DEF v, m
<2> QED
  BY <2>1, <2>2, <2>3, <2>4, Zenon DEF PlayedTo, g, v
<1>11. CASE d.key \notin there /\ d.key \notin barred /\ d.key \in K /\ d.valid /\ ~d.lido
<2> DEFINE m == barred \cup {d.key}
<2>1. v = [there |-> there, foreign |-> m, sum |-> sum]
  BY <1>2, <1>11 DEF Play
<2>2. sum = SumFunctionOnSet(g, K)
<3>1. T = {}
  BY <1>2, <1>3, <1>4, <1>7, <1>11
<3> QED
  BY <1>2, <1>6, <3>1
<2>3. \A k : k \in there <=> k \in K /\ LandsNow(k)
  BY <1>2, <1>3, <1>4, <1>11
<2>4. \A k : k \in m <=> /\ k \in K /\ k \notin DOMAIN at.balance
                         /\ ValidTo(t, k) # {} /\ ~MakesLidoValidator(t, k)
  BY <1>2, <1>3, <1>4, <1>11
<2> HIDE DEF v, m
<2> QED
  BY <2>1, <2>2, <2>3, <2>4, Zenon DEF PlayedTo, g, v
<1> QED
  BY <1>0, <1>8, <1>9, <1>10, <1>11

\* The pending ether of a report is what the deposits will add, played in order.
LEMMA PendingIsLanding ==
  ASSUME NEW at, IsState(at), NEW K \in SUBSET Key
  PROVE  Landing(at, K) = Pending(at, K)
<1> DEFINE q == at.queue
           n == Len(q)
           p == CHOOSE p : IsPlay(p, at, K, n)
<1>1. q \in Seq(QueuedDeposit) /\ n \in Nat
  BY DEF IsState
<1>2. IsPlay(p, at, K, n)
<2> HIDE DEF n
<2>1. \E u : IsPlay(u, at, K, n)
  BY <1>1, PlayExists
<2> QED
  BY <2>1, Zenon
<1>3. Landing(at, K) = p[n].sum
  BY Zenon DEF Landing, IsPlay
<1> HIDE DEF p, n, q
<1> DEFINE Bad == {m \in 0 .. n : ~PlayedTo(p[m], at, K, UpTo(q, m))}
<1>4. Bad = {}
<2>1. SUFFICES ASSUME Bad # {} PROVE FALSE
  OBVIOUS
<2>2. PICK m \in Bad : \A k \in Bad : m <= k
<3>1. Bad \in SUBSET Nat
  BY <1>1
<3> HIDE DEF Bad
<3> QED
  BY <2>1, <3>1, LeastNat
<2>3. m \in 0 .. n /\ n \in Nat
  BY <1>1, <2>2
<2>4. CASE m = 0
<3>1. p[0] = [there |-> K \cap DOMAIN at.balance, foreign |-> {}, sum |-> 0]
  BY <1>2, <2>3 DEF IsPlay
<3>2. UpTo(q, 0) = <<>>
  BY DEF UpTo
<3>3. PlayedTo(p[0], at, K, UpTo(q, 0))
  BY <3>1, <3>2, PlayStarts
<3> QED
  BY <2>2, <2>4, <3>3
<2>5. CASE m # 0
<3>1. m - 1 \in 0 .. n /\ m - 1 \notin Bad /\ m \in 1 .. n /\ m \in 1 .. Len(q)
  BY <2>2, <2>3, <2>5 DEF n
<3>2. PlayedTo(p[m - 1], at, K, UpTo(q, m - 1))
  BY <3>1
<3>3. p[m] = Play(p[m - 1], q[m], K)
  BY <1>2, <2>3, <2>5 DEF IsPlay, q
<3>4. /\ UpTo(q, m - 1) \in Seq(QueuedDeposit) /\ q[m] \in QueuedDeposit
      /\ UpTo(q, m) = Append(UpTo(q, m - 1), q[m])
  BY <1>1, <3>1, UpToExtends
<3>5. PlayedTo(Play(p[m - 1], q[m], K), at, K, UpTo(q, m))
<4> HIDE DEF Bad
<4> QED
  BY <3>2, <3>4, PlayGoesOn
<3> QED
  BY <2>2, <3>3, <3>5
<2> QED
  BY <2>4, <2>5
<1>5. PlayedTo(p[n], at, K, UpTo(q, n))
<2>1. n \in 0 .. n
  BY <1>1
<2> QED
  BY <1>4, <2>1
<1>6. UpTo(q, n) = q
<2>1. DOMAIN q = 1 .. n
  BY <1>1 DEF n
<2>2. q = [i \in DOMAIN q |-> q[i]]
  BY <1>1
<2> QED
  BY <2>1, <2>2 DEF UpTo
<1>7. p[n].sum = SumFunctionOnSet([k \in K |-> KeyPending(at, q, k)], K)
<2>1. PICK there, barred, sum :
        /\ p[n] = [there |-> there, foreign |-> barred, sum |-> sum]
        /\ sum = SumFunctionOnSet([k \in K |-> KeyPending(at, q, k)], K)
  BY <1>5, <1>6, Zenon DEF PlayedTo
<2>2. p[n].sum = sum
  BY <2>1
<2> QED
  BY <2>1, <2>2, Zenon
<1>8. Pending(at, K) = SumFunctionOnSet([k \in K |-> KeyPending(at, q, k)], K)
  BY HoldingsOfKeys, Zenon DEF q
<1> QED
  BY <1>3, <1>7, <1>8, Zenon

-----------------------------------------------------------------------------
(* The invariant of the rebase *)

\* What some keys hold together.
Holdings(at, K) == SumFunctionOnSet([k \in Key |-> Holding(at, k)], K)

\* What the protocol owns at a block, apart from what it deposited itself.
Wealth(at, K) == Holdings(at, K) + at.vault + at.paid - at.deposited

RebaseTypes ==
  /\ IsState(Now) /\ used \in SUBSET Key
  /\ IsFiniteSet(settled) /\ (\A e \in settled : e.block \in Nat /\ e.withdrawn \in Nat)
  /\ lost \in Nat /\ foreign \in BOOLEAN
  /\ \A prev \in samples : IsState(prev)

\* The blocks a report looks at are earlier ones of its frame: the contract's counter of
\* deposits has not been reset since, and what was paid is what the events say.
SamplesAreOfTheFrame ==
  /\ \A e \in settled : e.block <= block
  /\ \A prev \in samples :
       /\ prev.block < block
       /\ inFrame - prev.inFrame = deposited - prev.deposited
       /\ paid - prev.paid = Withdrawn(prev)

\* Without foreign credentials, wealth is lost by penalties only.
NothingVanishes ==
  ~foreign =>
    /\ \A i \in DOMAIN queue : queue[i].lido
    /\ \A prev \in samples, K \in SUBSET Key :
         used \subseteq K => Wealth(Now, K) >= Wealth(prev, K) - lost

RebaseInv == RebaseTypes /\ SamplesAreOfTheFrame /\ NothingVanishes

LEMMA HoldingType ==
  ASSUME NEW at, IsState(at), NEW k
  PROVE  Holding(at, k) \in Nat
<1>1. at.queue \in Seq(QueuedDeposit) /\ \A j \in DOMAIN at.balance : at.balance[j] \in Nat
  BY DEF IsState
<1>2. AmountIn(at.queue, k) \in Nat /\ Coming(at.queue, k) \in Nat
  BY <1>1, KeyPendingType
<1> QED
  BY <1>1, <1>2 DEF Holding

LEMMA WealthType ==
  ASSUME NEW at, IsState(at), NEW K \in SUBSET Key
  PROVE  Holdings(at, K) \in Int /\ Wealth(at, K) \in Int
<1> DEFINE w == [k \in Key |-> Holding(at, k)]
<1>1. IsFiniteSet(K)
  BY RebaseAssumption, FS_Subset
<1>2. \A k \in K : w[k] \in Int
<2>1. ASSUME NEW k \in K PROVE w[k] \in Int
<3>1. w[k] = Holding(at, k)
  OBVIOUS
<3>2. Holding(at, k) \in Nat
  BY HoldingType
<3> QED
  BY <3>1, <3>2
<2> QED
  BY <2>1
<1>3. Holdings(at, K) \in Int
<2> HIDE DEF w
<2>1. SumFunctionOnSet(w, K) \in Int
  BY <1>1, <1>2, SumFacts
<2> QED
  BY <2>1 DEF Holdings, w
<1>4. Wealth(at, K) \in Int
<2> DEFINE x == Holdings(at, K)
           y == at.vault
           z == at.paid
           v == at.deposited
<2>1. x \in Int /\ y \in Int /\ z \in Int /\ v \in Int
  BY <1>3 DEF IsState
<2>2. Wealth(at, K) = x + y + z - v
  BY Zenon DEF Wealth
<2> HIDE DEF x, y, z, v
<2> QED
  BY ONLY <2>1, <2>2
<1> QED
  BY <1>3, <1>4

\* One key's holding falls by b at most, the others do not fall.
LEMMA HoldingsFall ==
  ASSUME NEW at, IsState(at), NEW to, IsState(to), NEW K \in SUBSET Key,
         NEW e, NEW b \in Int, b < 0 => e \in K,
         \A k \in Key : Holding(to, k) >= Holding(at, k) - IF k = e THEN b ELSE 0
  PROVE  Holdings(to, K) >= Holdings(at, K) - b
<1> DEFINE f == [k \in Key |-> Holding(at, k)]
           g == [k \in Key |-> Holding(to, k)]
<1>1. IsFiniteSet(K)
  BY RebaseAssumption, FS_Subset
<1>2. ASSUME NEW k \in K
      PROVE  f[k] \in Int /\ g[k] \in Int /\ g[k] >= f[k] - IF k = e THEN b ELSE 0
<2>1. f[k] = Holding(at, k) /\ g[k] = Holding(to, k) /\ k \in Key
  OBVIOUS
<2>2. Holding(at, k) \in Nat
  BY HoldingType
<2>3. Holding(to, k) \in Nat
  BY HoldingType
<2> HIDE DEF f, g
<2> QED
  BY <2>1, <2>2, <2>3
<1>3. Holdings(at, K) = SumFunctionOnSet(f, K) /\ Holdings(to, K) = SumFunctionOnSet(g, K)
  BY Zenon DEF Holdings
<1> HIDE DEF f, g
<1>4. CASE e \in K
<2>1. \A x \in K : f[x] \in Int /\ g[x] \in Int /\ g[x] >= f[x] - IF x = e THEN b ELSE 0
  BY <1>2
<2>2. SumFunctionOnSet(g, K) >= SumFunctionOnSet(f, K) - b
  BY ONLY <1>1, <1>4, <2>1, b \in Int, SumFalls
<2> QED
  BY <1>3, <2>2
<1>5. CASE e \notin K
<2>1. \A x \in K : f[x] \in Int /\ g[x] \in Int /\ f[x] <= g[x]
  BY <1>2, <1>5
<2>2. SumFunctionOnSet(f, K) <= SumFunctionOnSet(g, K)
  BY ONLY <1>1, <2>1, SumGrows
<2>3. SumFunctionOnSet(f, K) \in Int
  BY ONLY <1>1, <2>1, SumGrows
<2>4. SumFunctionOnSet(g, K) \in Int
  BY ONLY <1>1, <2>1, SumGrows
<2>5. b >= 0
  BY <1>5
<2> DEFINE x == SumFunctionOnSet(f, K)
           y == SumFunctionOnSet(g, K)
<2>6. x <= y /\ x \in Int /\ y \in Int
  BY <2>2, <2>3, <2>4
<2> HIDE DEF x, y
<2>7. y >= x - b
  BY <2>5, <2>6
<2> QED
  BY <1>3, <2>7 DEF x, y
<1> QED
  BY <1>4, <1>5

-----------------------------------------------------------------------------
(* What the steps of the chain do to the holdings *)

\* A deposit adds to its key or waits for a validator, and takes nothing from the others.
LEMMA EnqueueHolds ==
  ASSUME NEW at, IsState(at), NEW d \in QueuedDeposit,
         NEW to, IsState(to), to.balance = at.balance, to.queue = Append(at.queue, d),
         NEW k
  PROVE  Holding(to, k) >= Holding(at, k)
<1>1. at.queue \in Seq(QueuedDeposit) /\ d.amount \in Nat
      /\ \A j \in DOMAIN at.balance : at.balance[j] \in Nat
  BY DEF IsState, QueuedDeposit
<1>2. AmountIn(to.queue, k) = AmountIn(at.queue, k) + IF d.key = k THEN d.amount ELSE 0
  BY <1>1, QueuedIsCounted, AmountAppend
<1>3. ComesWith(at.queue, d, to.queue, k)
  BY <1>1, ComingAppend
<1>4. AmountIn(at.queue, k) \in Nat /\ Coming(at.queue, k) \in Nat
  BY <1>1, KeyPendingType
<1>5. CASE k \in DOMAIN at.balance
<2>1. /\ Holding(to, k) = at.balance[k] + AmountIn(to.queue, k)
      /\ Holding(at, k) = at.balance[k] + AmountIn(at.queue, k) /\ at.balance[k] \in Nat
  BY <1>1, <1>5 DEF Holding
<2> QED
  BY <1>1, <1>2, <1>4, <2>1
<1>6. CASE k \notin DOMAIN at.balance
<2>1. Holding(to, k) = Coming(to.queue, k) /\ Holding(at, k) = Coming(at.queue, k)
  BY <1>6 DEF Holding
<2>2. Coming(to.queue, k) = Coming(at.queue, k)
         + IF d.key = k /\ MakesLidoValidator(to.queue, k) THEN d.amount ELSE 0
  BY <1>3 DEF ComesWith
<2> QED
  BY <1>1, <1>4, <2>1, <2>2
<1> QED
  BY <1>5, <1>6

\* The protocol's own deposit, behind deposits that all have Lido's credentials.
LEMMA DepositHolds ==
  ASSUME NEW at, IsState(at), NEW d \in QueuedDeposit, d.valid, d.lido,
         \A i \in DOMAIN at.queue : at.queue[i].lido,
         NEW to, IsState(to), to.balance = at.balance, to.queue = Append(at.queue, d)
  PROVE  Holding(to, d.key) = Holding(at, d.key) + d.amount
<1> DEFINE k == d.key
<1> HIDE DEF k
<1>1. at.queue \in Seq(QueuedDeposit) /\ d.amount \in Nat
      /\ \A j \in DOMAIN at.balance : at.balance[j] \in Nat
  BY DEF IsState, QueuedDeposit
<1>2. AmountIn(to.queue, k) = AmountIn(at.queue, k) + d.amount
<2>1. AmountIn(to.queue, k) = AmountIn(at.queue, k) + IF d.key = k THEN d.amount ELSE 0
  BY <1>1, QueuedIsCounted, AmountAppend
<2> QED
  BY <2>1 DEF k
<1>3. ComesWith(at.queue, d, to.queue, k)
  BY <1>1, ComingAppend
<1>4. AmountIn(at.queue, k) \in Nat /\ Coming(at.queue, k) \in Nat
  BY <1>1, KeyPendingType
<1>5. ValidTo(at.queue, k) # {} => MakesLidoValidator(at.queue, k)
<2>1. KeyPlaces(at.queue, k)
  BY <1>1, PlacesOfKey
<2>2. ASSUME ValidTo(at.queue, k) # {} PROVE Min(ValidTo(at.queue, k)) \in DOMAIN at.queue
  BY <2>1, <2>2 DEF KeyPlaces
<2> QED
  BY <2>2 DEF MakesLidoValidator
<1>6. MakesLidoValidator(to.queue, k)
  BY <1>3, <1>5 DEF ComesWith, k
<1>7. Coming(to.queue, k) = Coming(at.queue, k) + d.amount
  BY <1>3, <1>6 DEF ComesWith, k
<1>8. CASE k \in DOMAIN at.balance
<2>1. /\ Holding(to, k) = at.balance[k] + AmountIn(to.queue, k)
      /\ Holding(at, k) = at.balance[k] + AmountIn(at.queue, k) /\ at.balance[k] \in Nat
  BY <1>1, <1>8 DEF Holding
<2> DEFINE a == d.amount
           x == AmountIn(at.queue, k)
           y == at.balance[k]
<2>2. Holding(to, k) = y + (x + a) /\ Holding(at, k) = y + x /\ a \in Nat /\ x \in Nat /\ y \in Nat
  BY <1>1, <1>2, <1>4, <2>1
<2> HIDE DEF a, x, y
<2>3. Holding(to, k) = Holding(at, k) + a
  BY ONLY <2>2
<2> QED
  BY <2>3 DEF a, k
<1>9. CASE k \notin DOMAIN at.balance
<2>1. Holding(to, k) = Coming(to.queue, k) /\ Holding(at, k) = Coming(at.queue, k)
  BY <1>9 DEF Holding
<2> QED
  BY <1>7, <2>1 DEF k
<1> QED
  BY <1>8, <1>9 DEF k

\* The chain processes a deposit.
HeadApplied(at, to) ==
  LET d == Head(at.queue)
  IN /\ to.queue = Tail(at.queue)
     /\ to.balance = IF d.key \in DOMAIN at.balance THEN [at.balance EXCEPT ![d.key] = @ + d.amount]
                     ELSE IF ~d.valid THEN at.balance
                     ELSE [k \in DOMAIN at.balance \cup {d.key} |->
                             IF k \in DOMAIN at.balance THEN at.balance[k] ELSE d.amount]

LEMMA ProcessHolds ==
  ASSUME NEW at, IsState(at), at.queue # <<>>, Head(at.queue).lido,
         NEW to, IsState(to), HeadApplied(at, to), NEW k
  PROVE  Holding(to, k) = Holding(at, k)
<1> DEFINE d == Head(at.queue)
           s == at.queue
           t == to.queue
<1>1. s \in Seq(QueuedDeposit) /\ d \in QueuedDeposit /\ t = Tail(s) /\ d.amount \in Nat
      /\ \A j \in DOMAIN at.balance : at.balance[j] \in Nat
<2>1. s \in Seq(QueuedDeposit) /\ \A j \in DOMAIN at.balance : at.balance[j] \in Nat
  BY DEF IsState
<2>2. d \in QueuedDeposit
  BY <2>1
<2> QED
  BY <2>1, <2>2, QueuedIsCounted DEF HeadApplied
<1>2. to.balance = IF d.key \in DOMAIN at.balance THEN [at.balance EXCEPT ![d.key] = @ + d.amount]
                   ELSE IF ~d.valid THEN at.balance
                   ELSE [j \in DOMAIN at.balance \cup {d.key} |->
                           IF j \in DOMAIN at.balance THEN at.balance[j] ELSE d.amount]
  BY DEF HeadApplied
<1>3. AmountIn(s, k) = AmountIn(t, k) + IF d.key = k THEN d.amount ELSE 0
  BY <1>1, QueuedIsCounted, AmountTail
<1>4. /\ ~(d.key = k /\ d.valid) => Coming(s, k) = Coming(t, k)
      /\ d.key = k /\ d.valid /\ d.lido => Coming(s, k) = AmountIn(s, k)
  BY <1>1, ComingTail
<1>5. AmountIn(t, k) \in Nat
<2>1. t \in Seq(QueuedDeposit)
  BY DEF IsState
<2> QED
  BY <2>1, KeyPendingType
<1>6. d.lido
  OBVIOUS
<1>7. /\ Holding(at, k) = IF k \in DOMAIN at.balance THEN at.balance[k] + AmountIn(s, k) ELSE Coming(s, k)
      /\ Holding(to, k) = IF k \in DOMAIN to.balance THEN to.balance[k] + AmountIn(t, k) ELSE Coming(t, k)
  BY Zenon DEF Holding
<1> DEFINE a == d.amount
<1> HIDE DEF d, s, t, a
<1>8. CASE k = d.key /\ k \in DOMAIN at.balance
<2>1. k \in DOMAIN to.balance /\ to.balance[k] = at.balance[k] + a /\ at.balance[k] \in Nat /\ a \in Nat
  BY <1>1, <1>2, <1>8 DEF a
<2>2. AmountIn(s, k) = AmountIn(t, k) + a
  BY <1>3, <1>8 DEF a
<2> QED
  BY <1>5, <1>7, <1>8, <2>1, <2>2
<1>9. CASE k = d.key /\ k \notin DOMAIN at.balance /\ ~d.valid
<2>1. k \notin DOMAIN to.balance
  BY <1>2, <1>9
<2> QED
  BY <1>4, <1>7, <1>9, <2>1
<1>10. CASE k = d.key /\ k \notin DOMAIN at.balance /\ d.valid
<2>1. k \in DOMAIN to.balance /\ to.balance[k] = a /\ a \in Nat
  BY <1>1, <1>2, <1>10 DEF a
<2>2. Coming(s, k) = AmountIn(t, k) + a
  BY <1>3, <1>4, <1>6, <1>10 DEF a
<2> QED
  BY <1>5, <1>7, <1>10, <2>1, <2>2
<1>11. CASE k # d.key
<2>1. k \in DOMAIN to.balance <=> k \in DOMAIN at.balance
  BY <1>2, <1>11
<2>2. k \in DOMAIN at.balance => to.balance[k] = at.balance[k]
  BY <1>2, <1>11
<2>3. AmountIn(s, k) = AmountIn(t, k) /\ Coming(s, k) = Coming(t, k)
  BY <1>3, <1>4, <1>5, <1>11
<2> QED
  BY <1>7, <2>1, <2>2, <2>3
<1> QED
  BY <1>8, <1>9, <1>10, <1>11

-----------------------------------------------------------------------------
(* The chain keeps the invariant *)

\* Wealth falls by c at most, when what the holdings lose is in the vault, paid or deposited.
LEMMA WealthFalls ==
  ASSUME NEW at, IsState(at), NEW to, IsState(to), NEW K \in SUBSET Key,
         NEW e, NEW b \in Int, b < 0 => e \in K,
         \A k \in Key : Holding(to, k) >= Holding(at, k) - IF k = e THEN b ELSE 0,
         NEW c \in Int,
         (to.vault + to.paid - to.deposited) - (at.vault + at.paid - at.deposited) - b >= -c
  PROVE  Wealth(to, K) >= Wealth(at, K) - c
<1> DEFINE x == Holdings(at, K)
           y == Holdings(to, K)
           v == to.vault
           p == to.paid
           d == to.deposited
           w == at.vault
           q == at.paid
           f == at.deposited
<1>1. y >= x - b
  BY HoldingsFall
<1>2. x \in Int
  BY WealthType
<1>3. y \in Int
  BY WealthType
<1>4. /\ v \in Int /\ p \in Int /\ d \in Int /\ w \in Int /\ q \in Int /\ f \in Int
      /\ (v + p - d) - (w + q - f) - b >= -c
<2>1. v \in Int /\ p \in Int /\ d \in Int /\ w \in Int /\ q \in Int /\ f \in Int
  BY ONLY IsState(at), IsState(to) DEF IsState
<2> QED
  BY <2>1, Zenon
<1>5. Wealth(to, K) = y + v + p - d /\ Wealth(at, K) = x + w + q - f
  BY Zenon DEF Wealth
<1> HIDE DEF x, y, v, p, d, w, q, f
<1>6. y + v + p - d >= (x + w + q - f) - c
  BY ONLY <1>1, <1>2, <1>3, <1>4, b \in Int, c \in Int
<1> QED
  BY <1>5, <1>6

LEMMA NowIs ==
  /\ Now.block = block /\ Now.balance = balance /\ Now.queue = queue /\ Now.vault = vault
  /\ Now.inFrame = inFrame /\ Now.deposited = deposited /\ Now.paid = paid
BY DEF Now

\* An operation within a block loses by penalties only what the invariant allows.
LEMMA StaysWhole ==
  ASSUME RebaseInv, RebaseTypes', UNCHANGED <<block, samples>>, used \subseteq used',
         foreign => foreign',
         ~foreign' => /\ \A i \in DOMAIN queue' : queue'[i].lido
                      /\ \A K \in SUBSET Key :
                           used' \subseteq K => Wealth(Now', K) >= Wealth(Now, K) - (lost' - lost)
  PROVE  NothingVanishes'
<1>1. PICK at : at = Now
  OBVIOUS
<1>2. PICK to : to = Now'
  OBVIOUS
<1>3. IsState(at) /\ IsState(to) /\ lost \in Nat /\ lost' \in Nat /\ foreign \in BOOLEAN
  BY <1>1, <1>2 DEF RebaseInv, RebaseTypes
<1>4. SUFFICES ASSUME ~foreign'
               PROVE  /\ \A i \in DOMAIN queue' : queue'[i].lido
                      /\ \A prev \in samples', K \in SUBSET Key :
                           used' \subseteq K => Wealth(to, K) >= Wealth(prev, K) - lost'
  BY <1>2, Zenon DEF NothingVanishes
<1>5. /\ \A i \in DOMAIN queue' : queue'[i].lido
      /\ \A K \in SUBSET Key : used' \subseteq K => Wealth(to, K) >= Wealth(at, K) - (lost' - lost)
  BY <1>1, <1>2, <1>4
<1>6. \A prev \in samples, K \in SUBSET Key :
        used \subseteq K => Wealth(at, K) >= Wealth(prev, K) - lost
  BY <1>1, <1>3, <1>4 DEF RebaseInv, NothingVanishes
<1>7. ASSUME NEW prev \in samples', NEW K \in SUBSET Key, used' \subseteq K
      PROVE  Wealth(to, K) >= Wealth(prev, K) - lost'
<2> DEFINE x == Wealth(at, K)
           y == Wealth(to, K)
           z == Wealth(prev, K)
<2>1. prev \in samples /\ used \subseteq K /\ IsState(prev)
  BY <1>7 DEF RebaseInv, RebaseTypes
<2>2. x \in Int
  BY <1>3, WealthType
<2>3. y \in Int
  BY <1>3, WealthType
<2>4. z \in Int
  BY <2>1, WealthType
<2>5. y >= x - (lost' - lost)
  BY <1>5, <1>7
<2>6. x >= z - lost
  BY <1>6, <2>1
<2> DEFINE l == lost
           m == lost'
<2>7. l \in Int /\ m \in Int /\ y >= x - (m - l) /\ x >= z - l
  BY <1>3, <2>5, <2>6
<2> HIDE DEF x, y, z, l, m
<2>8. y >= z - m
  BY ONLY <2>2, <2>3, <2>4, <2>7
<2> QED
  BY <2>8 DEF y, z, m
<1> QED
  BY <1>5, <1>7

\* An operation that settles nothing leaves the blocks of the frame.
LEMMA StaysInFrame ==
  ASSUME RebaseInv, RebaseTypes', UNCHANGED <<block, samples, settled, paid>>,
         inFrame' - inFrame = deposited' - deposited
  PROVE  SamplesAreOfTheFrame'
<1>1. inFrame \in Int /\ inFrame' \in Int /\ deposited \in Int /\ deposited' \in Int
<2>1. PICK at : at = Now
  OBVIOUS
<2>2. PICK to : to = Now'
  OBVIOUS
<2>3. IsState(at) /\ IsState(to)
  BY <2>1, <2>2 DEF RebaseInv, RebaseTypes
<2>4. /\ at.inFrame = inFrame /\ at.deposited = deposited
      /\ to.inFrame = inFrame' /\ to.deposited = deposited'
  BY <2>1, <2>2 DEF Now
<2> QED
  BY <2>3, <2>4 DEF IsState
<1>2. ASSUME NEW prev \in samples
      PROVE  prev.block < block' /\ inFrame' - prev.inFrame = deposited' - prev.deposited
             /\ paid' - prev.paid = Withdrawn(prev)'
<2>1. /\ prev.block < block /\ inFrame - prev.inFrame = deposited - prev.deposited
      /\ paid - prev.paid = Withdrawn(prev) /\ IsState(prev)
  BY DEF RebaseInv, SamplesAreOfTheFrame, RebaseTypes
<2>2. Withdrawn(prev)' = Withdrawn(prev)
  BY DEF Withdrawn
<2> DEFINE x == prev.inFrame
           y == prev.deposited
<2>3. x \in Int /\ y \in Int /\ inFrame - x = deposited - y
  BY <2>1 DEF IsState
<2> HIDE DEF x, y
<2>4. inFrame' - x = deposited' - y
  BY <1>1, <2>3
<2> QED
  BY <2>1, <2>2, <2>4 DEF x, y
<1> QED
  BY <1>2 DEF SamplesAreOfTheFrame, RebaseInv

LEMMA QueueGrows ==
  ASSUME NEW s \in Seq(QueuedDeposit), NEW d \in QueuedDeposit
  PROVE  /\ Append(s, d) \in Seq(QueuedDeposit)
         /\ (\A i \in DOMAIN s : s[i].lido) /\ d.lido
              => \A i \in DOMAIN Append(s, d) : Append(s, d)[i].lido
OBVIOUS

\* A deposit of the protocol is wealth that it has deposited itself.
LEMMA DepositKeeps ==
  ASSUME RebaseInv, NEW k \in Key, Deposit(k)
  PROVE  RebaseInv'
<1>1. PICK at : at = Now
  OBVIOUS
<1>2. PICK to : to = Now'
  OBVIOUS
<1> DEFINE d == [key |-> k, amount |-> Amount, valid |-> TRUE, lido |-> TRUE]
<1>3. Amount \in Nat /\ Amount \in Int /\ IsState(at)
  BY <1>1, RebaseAssumption DEF RebaseInv, RebaseTypes
<1>4. /\ at.block = block /\ at.balance = balance /\ at.queue = queue /\ at.vault = vault
      /\ at.inFrame = inFrame /\ at.deposited = deposited /\ at.paid = paid
  BY <1>1, NowIs
<1>5. /\ to.block = block /\ to.balance = balance /\ to.queue = Append(queue, d) /\ to.vault = vault
      /\ to.inFrame = inFrame + Amount /\ to.deposited = deposited + Amount /\ to.paid = paid
  BY <1>2 DEF Now, Deposit, Operation, Enqueue
<1>6. d \in QueuedDeposit /\ d.key = k /\ d.amount = Amount /\ d.valid /\ d.lido
  BY <1>3 DEF QueuedDeposit
<1> HIDE DEF d
<1>7. IsState(to)
<2>1. Append(queue, d) \in Seq(QueuedDeposit)
  BY <1>3, <1>4, <1>6, QueueGrows DEF IsState
<2>2. inFrame + Amount \in Int /\ deposited + Amount \in Int
  BY <1>3, <1>4 DEF IsState
<2> QED
  BY <1>3, <1>4, <1>5, <2>1, <2>2, Zenon DEF IsState
<1>8. RebaseTypes'
<2>1. used' \in SUBSET Key /\ UNCHANGED <<settled, lost, foreign, samples>>
  BY DEF Deposit, Operation, RebaseInv, RebaseTypes
<2> QED
  BY <1>2, <1>7, <2>1 DEF RebaseInv, RebaseTypes
<1>9. SamplesAreOfTheFrame'
<2>1. UNCHANGED <<block, samples, settled, paid>>
      /\ inFrame' = inFrame + Amount /\ deposited' = deposited + Amount
  BY DEF Deposit, Operation
<2>2. inFrame \in Int /\ deposited \in Int
  BY <1>3, <1>4 DEF IsState
<2>3. inFrame' - inFrame = deposited' - deposited
  BY <1>3, <2>1, <2>2
<2> QED
  BY <1>8, <2>1, <2>3, StaysInFrame
<1>10. NothingVanishes'
<2>1. /\ UNCHANGED <<block, samples, lost, foreign>> /\ used' = used \cup {k}
      /\ queue' = Append(queue, d) /\ lost \in Nat
  BY DEF Deposit, Operation, Enqueue, RebaseInv, RebaseTypes, d
<2>2. ASSUME ~foreign'
      PROVE  /\ \A i \in DOMAIN queue' : queue'[i].lido
             /\ \A K \in SUBSET Key : used' \subseteq K => Wealth(to, K) >= Wealth(at, K) - (lost' - lost)
<3>1. \A i \in DOMAIN queue : queue[i].lido
  BY <2>1, <2>2 DEF RebaseInv, NothingVanishes
<3>2. \A i \in DOMAIN queue' : queue'[i].lido
  BY <1>3, <1>4, <1>6, <2>1, <3>1, QueueGrows DEF IsState
<3>3. ASSUME NEW K \in SUBSET Key, used' \subseteq K
      PROVE  Wealth(to, K) >= Wealth(at, K) - (lost' - lost)
<4> DEFINE b == -Amount
<4>1. b \in Int /\ k \in K
  BY <1>3, <2>1, <3>3
<4>2. \A j \in Key : Holding(to, j) >= Holding(at, j)
  BY <1>3, <1>4, <1>5, <1>6, <1>7, EnqueueHolds
<4>3. Holding(to, d.key) = Holding(at, d.key) + d.amount
  BY <1>3, <1>4, <1>5, <1>6, <1>7, <3>1, DepositHolds
<4>4. ASSUME NEW j \in Key PROVE Holding(to, j) >= Holding(at, j) - IF j = k THEN b ELSE 0
<5>1. Holding(at, j) \in Nat
  BY <1>3, HoldingType
<5>2. Holding(to, j) \in Nat
  BY <1>7, HoldingType
<5>3. CASE j = k
  BY <1>3, <1>6, <4>3, <5>1, <5>3
<5>4. CASE j # k
  BY <4>2, <5>1, <5>2, <5>4
<5> QED
  BY <5>3, <5>4
<4>5. lost' - lost = 0
  BY <2>1
<4>6. to.vault = at.vault /\ to.paid = at.paid /\ to.deposited = at.deposited + Amount
  BY <1>4, <1>5
<4>7. at.vault \in Int /\ at.paid \in Int /\ at.deposited \in Int
  BY <1>3 DEF IsState
<4>8. (to.vault + to.paid - to.deposited) - (at.vault + at.paid - at.deposited) - b >= -(lost' - lost)
  BY <1>3, <4>5, <4>6, <4>7
<4> HIDE DEF b
<4>9. lost' - lost \in Int /\ (b < 0 => k \in K)
  BY <4>1, <4>5
<4>10. \A j \in Key : Holding(to, j) >= Holding(at, j) - IF j = k THEN b ELSE 0
  BY <4>4
<4> QED
  BY <1>3, <1>7, <4>1, <4>8, <4>9, <4>10, WealthFalls
<3> QED
  BY <3>2, <3>3
<2> QED
  BY <1>1, <1>2, <1>8, <2>1, <2>2, StaysWhole
<1> QED
  BY <1>8, <1>9, <1>10 DEF RebaseInv

\* A stranger's deposit is a gift or counts for nothing; it may bar a key by its credentials.
LEMMA StrangerDepositsKeeps ==
  ASSUME RebaseInv, NEW k \in Key, NEW valid \in BOOLEAN, NEW lido \in BOOLEAN,
         StrangerDeposits(k, valid, lido)
  PROVE  RebaseInv'
<1>1. PICK at : at = Now
  OBVIOUS
<1>2. PICK to : to = Now'
  OBVIOUS
<1> DEFINE d == [key |-> k, amount |-> 1, valid |-> valid, lido |-> lido]
<1>3. IsState(at)
  BY <1>1 DEF RebaseInv, RebaseTypes
<1>4. /\ at.block = block /\ at.balance = balance /\ at.queue = queue /\ at.vault = vault
      /\ at.inFrame = inFrame /\ at.deposited = deposited /\ at.paid = paid
  BY <1>1, NowIs
<1>5. /\ to.block = block /\ to.balance = balance /\ to.queue = Append(queue, d) /\ to.vault = vault
      /\ to.inFrame = inFrame /\ to.deposited = deposited /\ to.paid = paid
  BY <1>2 DEF Now, StrangerDeposits, Operation, Enqueue
<1>6. d \in QueuedDeposit /\ d.lido = lido
  BY DEF QueuedDeposit
<1> HIDE DEF d
<1>7. IsState(to)
<2>1. Append(queue, d) \in Seq(QueuedDeposit)
  BY <1>3, <1>4, <1>6, QueueGrows DEF IsState
<2> QED
  BY <1>3, <1>4, <1>5, <2>1, Zenon DEF IsState
<1>8. RebaseTypes'
<2>1. used' \in SUBSET Key /\ foreign' \in BOOLEAN /\ UNCHANGED <<settled, lost, samples>>
  BY DEF StrangerDeposits, Operation, RebaseInv, RebaseTypes
<2> QED
  BY <1>2, <1>7, <2>1 DEF RebaseInv, RebaseTypes
<1>9. SamplesAreOfTheFrame'
<2>1. UNCHANGED <<block, samples, settled, paid, inFrame, deposited>>
  BY DEF StrangerDeposits, Operation
<2>2. inFrame \in Int /\ deposited \in Int
  BY <1>3, <1>4 DEF IsState
<2>3. inFrame' - inFrame = deposited' - deposited
  BY <2>1, <2>2
<2> QED
  BY <1>8, <2>1, <2>3, StaysInFrame
<1>10. NothingVanishes'
<2>1. /\ UNCHANGED <<block, samples, lost, used>> /\ foreign' = (foreign \/ ~lido)
      /\ queue' = Append(queue, d) /\ lost \in Nat
  BY DEF StrangerDeposits, Operation, Enqueue, RebaseInv, RebaseTypes, d
<2>2. ASSUME ~foreign'
      PROVE  /\ \A i \in DOMAIN queue' : queue'[i].lido
             /\ \A K \in SUBSET Key : used' \subseteq K => Wealth(to, K) >= Wealth(at, K) - (lost' - lost)
<3>1. (\A i \in DOMAIN queue : queue[i].lido) /\ d.lido
  BY <1>6, <2>1, <2>2 DEF RebaseInv, NothingVanishes
<3>2. \A i \in DOMAIN queue' : queue'[i].lido
  BY <1>3, <1>4, <1>6, <2>1, <3>1, QueueGrows DEF IsState
<3>3. ASSUME NEW K \in SUBSET Key, used' \subseteq K
      PROVE  Wealth(to, K) >= Wealth(at, K) - (lost' - lost)
<4>1. \A j \in Key : Holding(to, j) >= Holding(at, j)
  BY <1>3, <1>4, <1>5, <1>6, <1>7, EnqueueHolds
<4>2. ASSUME NEW j \in Key PROVE Holding(to, j) >= Holding(at, j) - IF j = k THEN 0 ELSE 0
<5>1. Holding(at, j) \in Nat
  BY <1>3, HoldingType
<5> QED
  BY <4>1, <5>1
<4>3. \A j \in Key : Holding(to, j) >= Holding(at, j) - IF j = k THEN 0 ELSE 0
  BY <4>2
<4>4. lost' - lost = 0 /\ lost' - lost \in Int
  BY <2>1
<4>5. at.vault \in Int /\ at.paid \in Int /\ at.deposited \in Int
  BY <1>3 DEF IsState
<4>6. (to.vault + to.paid - to.deposited) - (at.vault + at.paid - at.deposited) - 0 >= -(lost' - lost)
  BY <1>4, <1>5, <4>4, <4>5
<4> QED
  BY <1>3, <1>7, <4>3, <4>4, <4>6, WealthFalls
<3> QED
  BY <3>2, <3>3
<2>3. foreign => foreign'
  BY <2>1
<2> QED
  BY <1>1, <1>2, <1>8, <2>1, <2>2, <2>3, StaysWhole
<1> QED
  BY <1>8, <1>9, <1>10 DEF RebaseInv

LEMMA QueueShrinks ==
  ASSUME NEW s \in Seq(QueuedDeposit), s # <<>>
  PROVE  /\ Head(s) \in QueuedDeposit /\ Tail(s) \in Seq(QueuedDeposit)
         /\ (\A i \in DOMAIN s : s[i].lido)
              => Head(s).lido /\ \A i \in DOMAIN Tail(s) : Tail(s)[i].lido
<1>1. Len(s) \in Nat /\ Len(s) # 0 /\ DOMAIN s = 1 .. Len(s) /\ Head(s) = s[1]
  OBVIOUS
<1>2. DOMAIN Tail(s) = 1 .. (Len(s) - 1) /\ \A i \in 1 .. (Len(s) - 1) : Tail(s)[i] = s[i + 1]
  OBVIOUS
<1>3. \A i \in 1 .. (Len(s) - 1) : i + 1 \in DOMAIN s
  BY <1>1
<1>4. Head(s) \in QueuedDeposit /\ Tail(s) \in Seq(QueuedDeposit)
  OBVIOUS
<1>5. 1 \in DOMAIN s
  BY <1>1
<1> QED
  BY <1>1, <1>2, <1>3, <1>4, <1>5

\* A deposit that is processed moves from the queue to a balance.
LEMMA ProcessDepositKeeps ==
  ASSUME RebaseInv, ProcessDeposit
  PROVE  RebaseInv'
<1>1. PICK at : at = Now
  OBVIOUS
<1>2. PICK to : to = Now'
  OBVIOUS
<1> DEFINE d == Head(queue)
<1>3. IsState(at)
  BY <1>1 DEF RebaseInv, RebaseTypes
<1>4. /\ at.block = block /\ at.balance = balance /\ at.queue = queue /\ at.vault = vault
      /\ at.inFrame = inFrame /\ at.deposited = deposited /\ at.paid = paid
  BY <1>1, NowIs
<1>5. /\ to.block = block /\ to.balance = balance' /\ to.queue = Tail(queue) /\ to.vault = vault
      /\ to.inFrame = inFrame /\ to.deposited = deposited /\ to.paid = paid
  BY <1>2 DEF Now, ProcessDeposit, Operation
<1>6. /\ queue # <<>> /\ queue' = Tail(queue)
      /\ balance' = IF d.key \in DOMAIN balance THEN [balance EXCEPT ![d.key] = @ + d.amount]
                    ELSE IF ~d.valid THEN balance
                    ELSE [k \in DOMAIN balance \cup {d.key} |->
                            IF k \in DOMAIN balance THEN balance[k] ELSE d.amount]
  BY DEF ProcessDeposit
<1>7. HeadApplied(at, to)
  BY <1>4, <1>5, <1>6, Zenon DEF HeadApplied
<1>8. IsState(to)
<2>1. queue \in Seq(QueuedDeposit) /\ DOMAIN balance \subseteq Key /\ \A k \in DOMAIN balance : balance[k] \in Nat
  BY <1>3, <1>4 DEF IsState
<2>2. d \in QueuedDeposit /\ Tail(queue) \in Seq(QueuedDeposit)
  BY <1>6, <2>1, QueueShrinks
<2>3. d.key \in Key /\ d.amount \in Nat
  BY <2>2 DEF QueuedDeposit
<2> HIDE DEF d
<2>4. DOMAIN balance' \subseteq Key /\ \A k \in DOMAIN balance' : balance'[k] \in Nat
<3>1. CASE d.key \in DOMAIN balance
  BY <1>6, <2>1, <2>3, <3>1
<3>2. CASE d.key \notin DOMAIN balance /\ ~d.valid
  BY <1>6, <2>1, <2>3, <3>2
<3>3. CASE d.key \notin DOMAIN balance /\ d.valid
  BY <1>6, <2>1, <2>3, <3>3
<3> QED
  BY <3>1, <3>2, <3>3
<2> QED
  BY <1>3, <1>4, <1>5, <2>2, <2>4, Zenon DEF IsState
<1>9. RebaseTypes'
<2>1. UNCHANGED <<used, foreign, settled, lost, samples>>
  BY DEF ProcessDeposit, Operation
<2> QED
  BY <1>2, <1>8, <2>1 DEF RebaseInv, RebaseTypes
<1>10. SamplesAreOfTheFrame'
<2>1. UNCHANGED <<block, samples, settled, paid, inFrame, deposited>>
  BY DEF ProcessDeposit, Operation
<2>2. inFrame \in Int /\ deposited \in Int
  BY <1>3, <1>4 DEF IsState
<2>3. inFrame' - inFrame = deposited' - deposited
  BY <2>1, <2>2
<2> QED
  BY <1>9, <2>1, <2>3, StaysInFrame
<1>11. NothingVanishes'
<2>1. UNCHANGED <<block, samples, lost, used, foreign>> /\ lost \in Nat
  BY DEF ProcessDeposit, Operation, RebaseInv, RebaseTypes
<2>2. ASSUME ~foreign'
      PROVE  /\ \A i \in DOMAIN queue' : queue'[i].lido
             /\ \A K \in SUBSET Key : used' \subseteq K => Wealth(to, K) >= Wealth(at, K) - (lost' - lost)
<3>1. \A i \in DOMAIN queue : queue[i].lido
  BY <2>1, <2>2 DEF RebaseInv, NothingVanishes
<3>2. queue \in Seq(QueuedDeposit)
  BY <1>3, <1>4 DEF IsState
<3>3. (\A i \in DOMAIN queue' : queue'[i].lido) /\ d.lido
  BY <1>6, <3>1, <3>2, QueueShrinks
<3>4. ASSUME NEW K \in SUBSET Key, used' \subseteq K
      PROVE  Wealth(to, K) >= Wealth(at, K) - (lost' - lost)
<4> HIDE DEF d
<4>1. \A j \in Key : Holding(to, j) = Holding(at, j)
  BY <1>3, <1>4, <1>6, <1>7, <1>8, <3>3, ProcessHolds DEF d
<4>2. ASSUME NEW j \in Key PROVE Holding(to, j) >= Holding(at, j) - IF j = d.key THEN 0 ELSE 0
<5>1. Holding(at, j) \in Nat
  BY <1>3, HoldingType
<5> QED
  BY <4>1, <5>1
<4>3. \A j \in Key : Holding(to, j) >= Holding(at, j) - IF j = d.key THEN 0 ELSE 0
  BY <4>2
<4>4. lost' - lost = 0 /\ lost' - lost \in Int
  BY <2>1
<4>5. at.vault \in Int /\ at.paid \in Int /\ at.deposited \in Int
  BY <1>3 DEF IsState
<4>6. (to.vault + to.paid - to.deposited) - (at.vault + at.paid - at.deposited) - 0 >= -(lost' - lost)
  BY <1>4, <1>5, <4>4, <4>5
<4> QED
  BY <1>3, <1>8, <4>3, <4>4, <4>6, WealthFalls
<3> QED
  BY <3>3, <3>4
<2> QED
  BY <1>1, <1>2, <1>9, <2>1, <2>2, StaysWhole
<1> QED
  BY <1>9, <1>10, <1>11 DEF RebaseInv

\* One balance changes; what it loses goes to the vault or is a penalty.
LEMMA BalanceKeeps ==
  ASSUME RebaseInv, NEW k, NEW b \in Nat, NEW v \in Nat, NEW c \in Nat, b - v <= c,
         DOMAIN balance' = DOMAIN balance,
         \A j \in DOMAIN balance : /\ balance'[j] \in Nat
                                   /\ balance'[j] >= balance[j] - IF j = k THEN b ELSE 0,
         vault' = vault + v, lost' = lost + c,
         UNCHANGED <<block, samples, used, queue, inFrame, settled, deposited, paid, foreign>>
  PROVE  RebaseInv'
<1>1. PICK at : at = Now
  OBVIOUS
<1>2. PICK to : to = Now'
  OBVIOUS
<1>3. IsState(at)
  BY <1>1 DEF RebaseInv, RebaseTypes
<1>4. /\ at.block = block /\ at.balance = balance /\ at.queue = queue /\ at.vault = vault
      /\ at.inFrame = inFrame /\ at.deposited = deposited /\ at.paid = paid
  BY <1>1, NowIs
<1>5. /\ to.block = block /\ to.balance = balance' /\ to.queue = queue /\ to.vault = vault + v
      /\ to.inFrame = inFrame /\ to.deposited = deposited /\ to.paid = paid
  BY <1>2 DEF Now
<1>6. IsState(to)
<2>1. vault + v \in Nat
<3>1. vault \in Nat
  BY ONLY <1>3, <1>4 DEF IsState
<3> QED
  BY <3>1
<2>2. DOMAIN balance' \subseteq Key /\ \A j \in DOMAIN balance' : balance'[j] \in Nat
  BY <1>3, <1>4 DEF IsState
<2> QED
  BY <1>3, <1>4, <1>5, <2>1, <2>2, Zenon DEF IsState
<1>7. RebaseTypes'
<2>1. lost' \in Nat
  BY DEF RebaseInv, RebaseTypes
<2> QED
  BY <1>2, <1>6, <2>1 DEF RebaseInv, RebaseTypes
<1>8. SamplesAreOfTheFrame'
<2>1. inFrame \in Int /\ deposited \in Int
  BY <1>3, <1>4 DEF IsState
<2>2. inFrame' - inFrame = deposited' - deposited
  BY <2>1
<2> QED
  BY <1>7, <2>2, StaysInFrame
<1>9. NothingVanishes'
<2>1. lost \in Nat
  BY DEF RebaseInv, RebaseTypes
<2>2. ASSUME ~foreign'
      PROVE  /\ \A i \in DOMAIN queue' : queue'[i].lido
             /\ \A K \in SUBSET Key : used' \subseteq K => Wealth(to, K) >= Wealth(at, K) - (lost' - lost)
<3>1. \A i \in DOMAIN queue' : queue'[i].lido
  BY <2>2 DEF RebaseInv, NothingVanishes
<3>2. ASSUME NEW K \in SUBSET Key, used' \subseteq K
      PROVE  Wealth(to, K) >= Wealth(at, K) - (lost' - lost)
<4>1. ASSUME NEW j \in Key PROVE Holding(to, j) >= Holding(at, j) - IF j = k THEN b ELSE 0
<5>1. Holding(at, j) \in Nat
  BY <1>3, HoldingType
<5>2. AmountIn(queue, j) \in Nat
<6>1. queue \in Seq(QueuedDeposit)
  BY <1>3, <1>4 DEF IsState
<6> QED
  BY <6>1, KeyPendingType
<5>3. CASE j \in DOMAIN balance
<6>1. Holding(at, j) = balance[j] + AmountIn(queue, j)
  BY <1>4, <5>3, Zenon DEF Holding
<6>2. Holding(to, j) = balance'[j] + AmountIn(queue, j)
  BY <1>5, <5>3, Zenon DEF Holding
<6>3. balance[j] \in Nat
  BY <1>3, <1>4, <5>3 DEF IsState
<6> DEFINE x == balance[j]
           y == balance'[j]
           z == AmountIn(queue, j)
<6>4. y >= x - (IF j = k THEN b ELSE 0) /\ y \in Nat
  BY <5>3
<6>5. x \in Nat /\ z \in Nat
  BY <5>2, <6>3
<6> HIDE DEF x, y, z
<6>6. y + z >= (x + z) - IF j = k THEN b ELSE 0
<7>1. CASE j = k
  BY <6>4, <6>5, <7>1
<7>2. CASE j # k
  BY <6>4, <6>5, <7>2
<7> QED
  BY <7>1, <7>2
<6> QED
  BY <6>1, <6>2, <6>6 DEF x, y, z
<5>4. CASE j \notin DOMAIN balance
<6>1. Holding(at, j) = Coming(queue, j)
  BY <1>4, <5>4, Zenon DEF Holding
<6>2. Holding(to, j) = Coming(queue, j)
  BY <1>5, <5>4, Zenon DEF Holding
<6> QED
  BY <5>1, <6>1, <6>2
<5> QED
  BY <5>3, <5>4
<4>2. \A j \in Key : Holding(to, j) >= Holding(at, j) - IF j = k THEN b ELSE 0
  BY <4>1
<4>3. lost' - lost = c /\ lost' - lost \in Int
  BY <2>1
<4>4. at.vault \in Int /\ at.paid \in Int /\ at.deposited \in Int
  BY <1>3 DEF IsState
<4>5. (to.vault + to.paid - to.deposited) - (at.vault + at.paid - at.deposited) - b >= -(lost' - lost)
<5> DEFINE x == at.vault
           y == at.paid
           z == at.deposited
<5>1. to.vault = x + v /\ to.paid = y /\ to.deposited = z
  BY <1>4, <1>5
<5>2. x \in Int /\ y \in Int /\ z \in Int
  BY <4>4
<5> HIDE DEF x, y, z
<5>3. ((x + v) + y - z) - (x + y - z) - b >= -c
  BY ONLY <5>2, b - v <= c, b \in Nat, v \in Nat, c \in Nat
<5> QED
  BY <4>3, <5>1, <5>3 DEF x, y, z
<4>6. b \in Int /\ ~(b < 0)
  OBVIOUS
<4> QED
  BY <1>3, <1>6, <4>2, <4>3, <4>5, <4>6, WealthFalls
<3> QED
  BY <3>1, <3>2
<2> QED
  BY <1>1, <1>2, <1>7, <2>2, StaysWhole
<1> QED
  BY <1>7, <1>8, <1>9 DEF RebaseInv

\* A reward.
LEMMA EarnKeeps ==
  ASSUME RebaseInv, NEW k \in DOMAIN balance, Earn(k)
  PROVE  RebaseInv'
<1>1. \A j \in DOMAIN balance : balance[j] \in Nat
  BY NowIs DEF RebaseInv, RebaseTypes, IsState
<1>2. /\ DOMAIN balance' = DOMAIN balance
      /\ \A j \in DOMAIN balance : /\ balance'[j] \in Nat
                                   /\ balance'[j] >= balance[j] - IF j = k THEN 0 ELSE 0
  BY <1>1 DEF Earn
<1>3. vault' = vault + 0 /\ lost' = lost + 0
  BY NowIs DEF Earn, RebaseInv, RebaseTypes, IsState
<1>4. UNCHANGED <<block, samples, used, queue, inFrame, settled, deposited, paid, foreign>>
  BY DEF Earn, Operation
<1> QED
  BY <1>2, <1>3, <1>4, BalanceKeeps

\* A penalty is lost.
LEMMA PenaliseKeeps ==
  ASSUME RebaseInv, NEW k \in DOMAIN balance, Penalise(k)
  PROVE  RebaseInv'
<1>1. \A j \in DOMAIN balance : balance[j] \in Nat
  BY NowIs DEF RebaseInv, RebaseTypes, IsState
<1>2. /\ DOMAIN balance' = DOMAIN balance
      /\ \A j \in DOMAIN balance : /\ balance'[j] \in Nat
                                   /\ balance'[j] >= balance[j] - IF j = k THEN 1 ELSE 0
  BY <1>1 DEF Penalise
<1>3. vault' = vault + 0 /\ lost' = lost + 1
  BY NowIs DEF Penalise, RebaseInv, RebaseTypes, IsState
<1>4. UNCHANGED <<block, samples, used, queue, inFrame, settled, deposited, paid, foreign>>
  BY DEF Penalise, Operation
<1> QED
  BY <1>2, <1>3, <1>4, BalanceKeeps

\* A withdrawal moves from a balance to the vault.
LEMMA WithdrawKeeps ==
  ASSUME RebaseInv, NEW k \in DOMAIN balance, NEW a \in 1 .. Amount, Withdraw(k, a)
  PROVE  RebaseInv'
<1>0. a \in Nat
  BY RebaseAssumption
<1>1. \A j \in DOMAIN balance : balance[j] \in Nat
  BY NowIs DEF RebaseInv, RebaseTypes, IsState
<1>2. /\ DOMAIN balance' = DOMAIN balance
      /\ \A j \in DOMAIN balance : /\ balance'[j] \in Nat
                                   /\ balance'[j] >= balance[j] - IF j = k THEN a ELSE 0
  BY <1>0, <1>1 DEF Withdraw
<1>3. vault' = vault + a /\ lost' = lost + 0
  BY NowIs DEF Withdraw, RebaseInv, RebaseTypes, IsState
<1>4. UNCHANGED <<block, samples, used, queue, inFrame, settled, deposited, paid, foreign>>
  BY DEF Withdraw, Operation
<1> QED
  BY <1>0, <1>2, <1>3, <1>4, BalanceKeeps

\* The report of the frame before takes its withdrawals from the vault, later than any block looked at.
LEMMA SettleKeeps ==
  ASSUME RebaseInv, NEW a \in 0 .. Amount, Settle(a)
  PROVE  RebaseInv'
<1>1. PICK at : at = Now
  OBVIOUS
<1>2. PICK to : to = Now'
  OBVIOUS
<1> DEFINE s == [block |-> block, withdrawn |-> a]
<1>3. IsState(at) /\ a \in Nat
  BY <1>1, RebaseAssumption DEF RebaseInv, RebaseTypes
<1>4. /\ at.block = block /\ at.balance = balance /\ at.queue = queue /\ at.vault = vault
      /\ at.inFrame = inFrame /\ at.deposited = deposited /\ at.paid = paid
  BY <1>1, NowIs
<1>5. /\ to.block = block /\ to.balance = balance /\ to.queue = queue /\ to.vault = vault - a
      /\ to.inFrame = inFrame /\ to.deposited = deposited /\ to.paid = paid + a
  BY <1>2 DEF Now, Settle, Operation
<1>6. /\ a <= vault /\ settled' = settled \cup {s} /\ paid' = paid + a
      /\ \A e \in settled : e.block # block
      /\ UNCHANGED <<block, samples, used, balance, queue, inFrame, deposited, lost, foreign>>
<2>1. \A e \in settled : e.block \div FrameBlocks < block \div FrameBlocks
  BY DEF Settle
<2>2. block \div FrameBlocks \in Int
<3>1. block \in Nat /\ FrameBlocks \in Nat \ {0}
  BY <1>3, <1>4, RebaseAssumption DEF IsState
<3> QED
  BY <3>1
<2>3. ASSUME NEW e \in settled PROVE e.block # block
<3> DEFINE x == block \div FrameBlocks
<3>1. x \in Int /\ ~(x < x)
  BY <2>2
<3>2. e.block = block => x < x
  BY <2>1
<3> QED
  BY <3>1, <3>2
<2> QED
  BY <2>3 DEF Settle, Operation
<1>7. IsState(to)
<2>1. vault \in Nat /\ paid \in Int
  BY <1>3, <1>4 DEF IsState
<2>2. vault - a \in Nat /\ paid + a \in Int
  BY <1>3, <1>6, <2>1
<2> QED
  BY <1>3, <1>4, <1>5, <2>2, Zenon DEF IsState
<1>8. s.block = block /\ s.withdrawn = a /\ block \in Nat
  BY <1>3, <1>4 DEF IsState
<1> HIDE DEF s
<1>9. /\ IsFiniteSet(settled) /\ (\A e \in settled : e.block \in Nat /\ e.withdrawn \in Nat)
      /\ IsFiniteSet(settled') /\ \A e \in settled' : e.block \in Nat /\ e.withdrawn \in Nat
<2>1. IsFiniteSet(settled) /\ \A e \in settled : e.block \in Nat /\ e.withdrawn \in Nat
  BY DEF RebaseInv, RebaseTypes
<2>2. IsFiniteSet(settled \cup {s})
  BY <2>1, FS_AddElement
<2> QED
  BY <1>3, <1>6, <1>8, <2>1, <2>2
<1>10. RebaseTypes'
  BY <1>2, <1>6, <1>7, <1>9 DEF RebaseInv, RebaseTypes
<1>11. SamplesAreOfTheFrame'
<2>1. \A e \in settled' : e.block <= block'
<3>1. block <= block /\ block' = block
  BY <1>6, <1>8
<3>2. \A e \in settled : e.block <= block
  BY DEF RebaseInv, SamplesAreOfTheFrame
<3> QED
  BY <1>6, <1>8, <3>1, <3>2
<2>2. ASSUME NEW prev \in samples
      PROVE  /\ prev.block < block' /\ inFrame' - prev.inFrame = deposited' - prev.deposited
             /\ paid' - prev.paid = Withdrawn(prev)'
<3>1. /\ prev.block < block /\ inFrame - prev.inFrame = deposited - prev.deposited
      /\ paid - prev.paid = Withdrawn(prev) /\ IsState(prev)
  BY DEF RebaseInv, SamplesAreOfTheFrame, RebaseTypes
<3> DEFINE f == [e \in settled |-> e.withdrawn]
           g == [e \in settled' |-> e.withdrawn]
           S == {e \in settled : e.block > prev.block}
           T == {e \in settled' : e.block > prev.block}
<3>2. prev.block \in Nat
  BY <3>1 DEF IsState
<3>3. s \notin S /\ T = S \cup {s}
<4>1. s \notin settled
  BY <1>6, <1>8
<4>2. s.block > prev.block
  BY <1>8, <3>1, <3>2
<4> QED
  BY <1>6, <4>1, <4>2
<3>4. IsFiniteSet(T) /\ S \in SUBSET settled /\ T \in SUBSET settled' /\ IsFiniteSet(S)
  BY <1>9, FS_Subset
<3>5. (\A e \in S : f[e] \in Int /\ g[e] = f[e]) /\ (\A e \in T : g[e] \in Int) /\ g[s] = a
<4>1. \A e \in settled : f[e] = e.withdrawn
  OBVIOUS
<4>2. \A e \in settled' : g[e] = e.withdrawn
  OBVIOUS
<4> HIDE DEF f, g, S, T
<4> QED
  BY <1>6, <1>8, <1>9, <3>3, <3>4, <4>1, <4>2
<3>6. Withdrawn(prev) = SumFunctionOnSet(f, S)
  BY Zenon DEF Withdrawn
<3>7. Withdrawn(prev)' = SumFunctionOnSet(g, T)
  BY Zenon DEF Withdrawn
<3> HIDE DEF f, g, S, T
<3>8. SumFunctionOnSet(g, S) = SumFunctionOnSet(f, S)
  BY <3>4, <3>5, SumSame
<3>9. SumFunctionOnSet(g, T) = g[s] + SumFunctionOnSet(g, T \ {s})
<4>1. \A e \in T : SumFunctionOnSet(g, T) = g[e] + SumFunctionOnSet(g, T \ {e})
  BY ONLY <3>4, <3>5, SumFacts
<4> QED
  BY <3>3, <4>1
<3>10. T \ {s} = S
  BY <3>3
<3>11. SumFunctionOnSet(f, S) \in Int
  BY ONLY <3>4, <3>5, SumFacts
<3> DEFINE w == Withdrawn(prev)
           p == prev.paid
<3>12. Withdrawn(prev)' = a + w /\ w \in Int
  BY <3>5, <3>6, <3>7, <3>8, <3>9, <3>10, <3>11
<3>13. p \in Int /\ paid \in Int /\ paid - p = w
  BY <1>3, <1>4, <3>1 DEF IsState
<3>14. prev.block < block' /\ inFrame' - prev.inFrame = deposited' - prev.deposited
  BY <1>6, <3>1
<3>15. PICK u : u = Withdrawn(prev)'
  OBVIOUS
<3>16. u = a + w
  BY <3>12, <3>15
<3> HIDE DEF w, p
<3>17. (paid + a) - p = u
  BY <1>3, <3>12, <3>13, <3>16
<3> QED
  BY <1>6, <3>14, <3>15, <3>17 DEF p
<2> QED
  BY <1>6, <2>1, <2>2 DEF SamplesAreOfTheFrame
<1>12. NothingVanishes'
<2>1. lost \in Nat
  BY DEF RebaseInv, RebaseTypes
<2>2. ASSUME ~foreign'
      PROVE  /\ \A i \in DOMAIN queue' : queue'[i].lido
             /\ \A K \in SUBSET Key : used' \subseteq K => Wealth(to, K) >= Wealth(at, K) - (lost' - lost)
<3>1. \A i \in DOMAIN queue' : queue'[i].lido
  BY <1>6, <2>2 DEF RebaseInv, NothingVanishes
<3>2. ASSUME NEW K \in SUBSET Key, used' \subseteq K
      PROVE  Wealth(to, K) >= Wealth(at, K) - (lost' - lost)
<4>1. \A j \in Key : Holding(to, j) = Holding(at, j)
  BY <1>4, <1>5, Zenon DEF Holding
<4>2. ASSUME NEW j \in Key PROVE Holding(to, j) >= Holding(at, j) - IF j = a THEN 0 ELSE 0
<5>1. Holding(at, j) \in Nat
  BY <1>3, HoldingType
<5> QED
  BY <4>1, <5>1
<4>3. \A j \in Key : Holding(to, j) >= Holding(at, j) - IF j = a THEN 0 ELSE 0
  BY <4>2
<4>4. lost' - lost = 0 /\ lost' - lost \in Int
  BY <1>6, <2>1
<4>5. at.vault \in Int /\ at.paid \in Int /\ at.deposited \in Int
  BY <1>3 DEF IsState
<4>6. (to.vault + to.paid - to.deposited) - (at.vault + at.paid - at.deposited) - 0 >= -(lost' - lost)
  BY <1>3, <1>4, <1>5, <4>4, <4>5
<4> QED
  BY <1>3, <1>7, <4>3, <4>4, <4>6, WealthFalls
<3> QED
  BY <3>1, <3>2
<2> QED
  BY <1>1, <1>2, <1>6, <1>10, <2>2, StaysWhole
<1> QED
  BY <1>10, <1>11, <1>12 DEF RebaseInv

\* A block more: it is looked at later, or a frame begins and no earlier block is.
LEMMA NextBlockKeeps ==
  ASSUME RebaseInv, NEW sampled \in BOOLEAN, NextBlock(sampled)
  PROVE  RebaseInv'
<1>1. PICK at : at = Now
  OBVIOUS
<1>2. PICK to : to = Now'
  OBVIOUS
<1>3. IsState(at) /\ lost \in Nat
  BY <1>1 DEF RebaseInv, RebaseTypes
<1>4. /\ at.block = block /\ at.balance = balance /\ at.queue = queue /\ at.vault = vault
      /\ at.inFrame = inFrame /\ at.deposited = deposited /\ at.paid = paid
  BY <1>1, NowIs
<1>5. /\ to.block = block + 1 /\ to.balance = balance /\ to.queue = queue /\ to.vault = vault
      /\ to.inFrame = inFrame' /\ to.deposited = deposited /\ to.paid = paid
  BY <1>2 DEF Now, NextBlock
<1>6. /\ block' = block + 1 /\ UNCHANGED <<used, balance, queue, vault, settled, deposited, paid, foreign>>
      /\ samples' \in SUBSET (samples \cup {at}) /\ (samples' # {} => inFrame' = inFrame)
      /\ inFrame' \in {0, inFrame} /\ lost' = IF samples' = {} THEN 0 ELSE lost
<2>1. block' = block + 1 /\ UNCHANGED <<used, balance, queue, vault, settled, deposited, paid, foreign>>
      /\ lost' = IF samples' = {} THEN 0 ELSE lost
  BY DEF NextBlock
<2>2. CASE (block + 1) % FrameBlocks = 0
<3>1. samples' = {} /\ inFrame' = 0
  BY <2>2 DEF NextBlock
<3> QED
  BY <2>1, <3>1
<2>3. CASE (block + 1) % FrameBlocks # 0
<3>1. samples' = (IF sampled THEN samples \cup {at} ELSE samples) /\ inFrame' = inFrame
  BY <1>1, <2>3 DEF NextBlock
<3> QED
  BY <2>1, <3>1
<2> QED
  BY <2>2, <2>3
<1>7. block \in Nat /\ inFrame \in Int /\ deposited \in Int /\ paid \in Int /\ vault \in Nat
  BY <1>3, <1>4 DEF IsState
<1>8. IsState(to)
<2>1. block + 1 \in Nat /\ inFrame' \in Int
  BY <1>6, <1>7
<2> QED
  BY <1>3, <1>4, <1>5, <2>1, Zenon DEF IsState
<1>9. RebaseTypes'
<2>1. \A prev \in samples' : IsState(prev)
  BY <1>3, <1>6 DEF RebaseInv, RebaseTypes
<2>2. lost' \in Nat
  BY <1>3, <1>6
<2> QED
  BY <1>2, <1>6, <1>8, <2>1, <2>2 DEF RebaseInv, RebaseTypes
<1>10. SamplesAreOfTheFrame'
<2>1. \A e \in settled : e.block <= block /\ e.block \in Nat
  BY DEF RebaseInv, SamplesAreOfTheFrame, RebaseTypes
<2>2. \A e \in settled' : e.block <= block'
  BY <1>6, <1>7, <2>1
<2>3. ASSUME NEW prev \in samples'
      PROVE  /\ prev.block < block' /\ inFrame' - prev.inFrame = deposited' - prev.deposited
             /\ paid' - prev.paid = Withdrawn(prev)'
<3>1. Withdrawn(prev)' = Withdrawn(prev)
  BY <1>6 DEF Withdrawn
<3>2. inFrame' = inFrame
  BY <1>6
<3>3. CASE prev \in samples
<4>1. /\ prev.block < block /\ inFrame - prev.inFrame = deposited - prev.deposited
      /\ paid - prev.paid = Withdrawn(prev) /\ prev.block \in Nat
  BY <3>3 DEF RebaseInv, SamplesAreOfTheFrame, RebaseTypes, IsState
<4> QED
  BY <1>6, <1>7, <3>1, <3>2, <4>1
<3>4. CASE prev = at
<4>1. {e \in settled : e.block > prev.block} = {}
  BY <1>4, <1>7, <2>1, <3>4
<4>2. Withdrawn(prev) = 0
<5> DEFINE f == [e \in settled |-> e.withdrawn]
<5>1. Withdrawn(prev) = SumFunctionOnSet(f, {})
  BY <4>1, Zenon DEF Withdrawn
<5> HIDE DEF f
<5>2. IsFiniteSet({}) /\ \A x \in {} : f[x] \in Int
  BY FS_EmptySet
<5>3. SumFunctionOnSet(f, {}) = 0
  BY <5>2, SumFacts
<5> QED
  BY <5>1, <5>3
<4>3. paid' = at.paid /\ inFrame' = at.inFrame /\ deposited' = at.deposited
      /\ at.block = block /\ block < block' /\ prev = at
  BY <1>4, <1>6, <1>7, <3>2, <3>4
<4> QED
  BY <1>3, <3>1, <4>2, <4>3 DEF IsState
<3> QED
  BY <1>6, <3>3, <3>4
<2> QED
  BY <2>2, <2>3 DEF SamplesAreOfTheFrame
<1>11. NothingVanishes'
<2>1. ASSUME NEW K \in SUBSET Key PROVE Wealth(to, K) = Wealth(at, K)
<3>1. \A k \in Key : Holding(to, k) = Holding(at, k)
  BY <1>4, <1>5, Zenon DEF Holding
<3>2. [k \in Key |-> Holding(to, k)] = [k \in Key |-> Holding(at, k)]
  BY <3>1
<3>3. Holdings(to, K) = Holdings(at, K)
  BY <3>2, Zenon DEF Holdings
<3> QED
  BY <1>4, <1>5, <3>3 DEF Wealth
<2>2. ASSUME ~foreign', NEW prev \in samples', NEW K \in SUBSET Key, used' \subseteq K
      PROVE  Wealth(to, K) >= Wealth(prev, K) - lost'
<3>1. lost' = lost /\ used \subseteq K /\ ~foreign
  BY <1>6, <2>2
<3>2. Wealth(at, K) \in Int
  BY <1>3, WealthType
<3>3. CASE prev \in samples
  BY <1>1, <2>1, <3>1, <3>3 DEF RebaseInv, NothingVanishes
<3>4. CASE prev = at
  BY <1>3, <2>1, <3>1, <3>2, <3>4
<3> QED
  BY <1>6, <3>3, <3>4
<2>3. ~foreign' => \A i \in DOMAIN queue' : queue'[i].lido
  BY <1>6 DEF RebaseInv, NothingVanishes
<2>4. ~foreign' => \A prev \in samples', K \in SUBSET Key :
                     used' \subseteq K => Wealth(to, K) >= Wealth(prev, K) - lost'
  BY <2>2
<2> QED
  BY <1>2, <2>3, <2>4, Zenon DEF NothingVanishes
<1> QED
  BY <1>9, <1>10, <1>11 DEF RebaseInv

LEMMA RebaseBegins == RebaseInit => RebaseInv
<1> SUFFICES ASSUME RebaseInit PROVE RebaseInv
  OBVIOUS
<1>1. /\ block = 0 /\ used = {} /\ balance = <<>> /\ queue = <<>>
      /\ vault = 0 /\ inFrame = 0 /\ settled = {} /\ samples = {}
      /\ deposited = 0 /\ paid = 0 /\ lost = 0 /\ foreign = FALSE
  BY DEF RebaseInit
<1>2. DOMAIN balance = {} /\ queue \in Seq(QueuedDeposit) /\ DOMAIN queue = {}
  BY <1>1
<1>3. PICK at : at = Now
  OBVIOUS
<1>4. /\ at.block = 0 /\ at.balance = balance /\ at.queue = queue /\ at.vault = 0
      /\ at.inFrame = 0 /\ at.deposited = 0 /\ at.paid = 0
  BY <1>1, <1>3, NowIs
<1>5. IsState(at)
  BY <1>2, <1>4 DEF IsState
<1>6. RebaseTypes
  BY <1>1, <1>3, <1>5, FS_EmptySet DEF RebaseTypes
<1>7. SamplesAreOfTheFrame /\ NothingVanishes
  BY <1>1, <1>2 DEF SamplesAreOfTheFrame, NothingVanishes
<1> QED
  BY <1>6, <1>7 DEF RebaseInv

LEMMA RebaseStays ==
  ASSUME RebaseInv, [RebaseNext]_rebaseVars
  PROVE  RebaseInv'
<1>1. ASSUME NEW k \in Key, Deposit(k) PROVE RebaseInv'
  BY <1>1, DepositKeeps
<1>2. ASSUME NEW k \in Key, NEW valid \in BOOLEAN, NEW lido \in BOOLEAN,
             StrangerDeposits(k, valid, lido)
      PROVE  RebaseInv'
  BY <1>2, StrangerDepositsKeeps
<1>3. CASE ProcessDeposit
  BY <1>3, ProcessDepositKeeps
<1>4. ASSUME NEW k \in DOMAIN balance, Earn(k) PROVE RebaseInv'
  BY <1>4, EarnKeeps
<1>5. ASSUME NEW k \in DOMAIN balance, Penalise(k) PROVE RebaseInv'
  BY <1>5, PenaliseKeeps
<1>6. ASSUME NEW k \in DOMAIN balance, NEW a \in 1 .. Amount, Withdraw(k, a) PROVE RebaseInv'
  BY <1>6, WithdrawKeeps
<1>7. ASSUME NEW a \in 0 .. Amount, Settle(a) PROVE RebaseInv'
  BY <1>7, SettleKeeps
<1>8. ASSUME NEW sampled \in BOOLEAN, NextBlock(sampled) PROVE RebaseInv'
  BY <1>8, NextBlockKeeps
<1>9. CASE UNCHANGED rebaseVars
<2>1. UNCHANGED <<block, used, balance, queue, vault, inFrame, settled, deposited, paid, lost,
                  foreign, samples>>
  BY <1>9 DEF rebaseVars, ether
<2> QED
  BY <2>1 DEF RebaseInv, RebaseTypes, SamplesAreOfTheFrame, NothingVanishes, Now, Withdrawn
<1> QED
  BY <1>1, <1>2, <1>3, <1>4, <1>5, <1>6, <1>7, <1>8, <1>9 DEF RebaseNext

\* What the invariant says of the reports.
LEMMA PendingIsComplete == RebaseInv => ReportedBalanceIsComplete
<1> SUFFICES ASSUME RebaseInv PROVE ReportedBalanceIsComplete
  OBVIOUS
<1>1. PICK at : at = Now
  OBVIOUS
<1>2. IsState(at) /\ used \in SUBSET Key
  BY <1>1 DEF RebaseInv, RebaseTypes
<1>3. Landing(at, used) = Pending(at, used)
  BY <1>2, PendingIsLanding
<1> QED
  BY <1>1, <1>3 DEF ReportedBalanceIsComplete

\* The rebase since an earlier block is the difference of wealth.
LEMMA RebaseIsOfWealth ==
  ASSUME RebaseInv, NEW prev \in samples, NEW at, at = Now
  PROVE  RebaseSince(prev) = Wealth(at, used) - Wealth(prev, used)
<1>1. IsState(at) /\ used \in SUBSET Key /\ IsState(prev)
  BY DEF RebaseInv, RebaseTypes
<1>2. /\ at.block = block /\ at.balance = balance /\ at.queue = queue /\ at.vault = vault
      /\ at.inFrame = inFrame /\ at.deposited = deposited /\ at.paid = paid
  BY NowIs
<1> DEFINE c1 == ClBalance(at, used)
           p1 == Pending(at, used)
           c0 == ClBalance(prev, used)
           p0 == Pending(prev, used)
           v1 == at.vault
           v0 == prev.vault
           i1 == at.inFrame
           i0 == prev.inFrame
           d1 == at.deposited
           d0 == prev.deposited
           y1 == at.paid
           y0 == prev.paid
           w == Withdrawn(prev)
<1>3. RebaseSince(prev) = (c1 + v1) - (c0 + v0) - ((i1 - i0) + p0 - p1) + w
  BY <1>2, Zenon DEF RebaseSince, InjectedCapital
<1>4. i1 - i0 = d1 - d0 /\ y1 - y0 = w
  BY <1>2 DEF RebaseInv, SamplesAreOfTheFrame
<1>5. c1 + p1 = Holdings(at, used) /\ c1 \in Int /\ p1 \in Int
<2>1. /\ Pending(at, used) \in Int /\ ClBalance(at, used) \in Int
      /\ ClBalance(at, used) + Pending(at, used) = SumFunctionOnSet([k \in Key |-> Holding(at, k)], used)
  BY <1>1, HoldingsOfKeys
<2> QED
  BY <2>1 DEF Holdings
<1>6. c0 + p0 = Holdings(prev, used) /\ c0 \in Int /\ p0 \in Int
<2>1. /\ Pending(prev, used) \in Int /\ ClBalance(prev, used) \in Int
      /\ ClBalance(prev, used) + Pending(prev, used) = SumFunctionOnSet([k \in Key |-> Holding(prev, k)], used)
  BY <1>1, HoldingsOfKeys
<2> QED
  BY <2>1 DEF Holdings
<1>7. /\ v1 \in Int /\ v0 \in Int /\ i1 \in Int /\ i0 \in Int
      /\ d1 \in Int /\ d0 \in Int /\ y1 \in Int /\ y0 \in Int
  BY ONLY <1>1 DEF IsState
<1>8. Wealth(at, used) = (c1 + p1) + v1 + y1 - d1 /\ Wealth(prev, used) = (c0 + p0) + v0 + y0 - d0
  BY <1>5, <1>6, Zenon DEF Wealth
<1> HIDE DEF c1, p1, c0, p0, v1, v0, i1, i0, d1, d0, y1, y0, w
<1>9. (c1 + v1) - (c0 + v0) - ((i1 - i0) + p0 - p1) + w
        = ((c1 + p1) + v1 + y1 - d1) - ((c0 + p0) + v0 + y0 - d0)
<2>1. c1 \in Int /\ p1 \in Int /\ c0 \in Int /\ p0 \in Int
  BY <1>5, <1>6
<2> QED
  BY ONLY <1>4, <1>7, <2>1
<1> QED
  BY <1>3, <1>8, <1>9

LEMMA RebaseIsRewards == RebaseInv => RebaseIsOfRewards
<1> SUFFICES ASSUME RebaseInv PROVE RebaseIsOfRewards
  OBVIOUS
<1>1. PICK at : at = Now
  OBVIOUS
<1>2. IsState(at) /\ used \in SUBSET Key /\ \A prev \in samples : IsState(prev)
  BY <1>1 DEF RebaseInv, RebaseTypes
<1>3. ASSUME NEW prev \in samples
      PROVE  RebaseSince(prev) =
               (ClBalance(at, used) + Landing(at, used) + at.vault + at.paid - at.deposited)
                 - (ClBalance(prev, used) + Landing(prev, used) + prev.vault + prev.paid - prev.deposited)
<2>1. Landing(at, used) = Pending(at, used)
  BY <1>2, PendingIsLanding
<2>2. Landing(prev, used) = Pending(prev, used)
  BY <1>2, PendingIsLanding
<2>3. ClBalance(at, used) + Pending(at, used) = Holdings(at, used)
  BY <1>2, HoldingsOfKeys DEF Holdings
<2>4. ClBalance(prev, used) + Pending(prev, used) = Holdings(prev, used)
  BY <1>2, HoldingsOfKeys DEF Holdings
<2>5. RebaseSince(prev) = Wealth(at, used) - Wealth(prev, used)
  BY <1>1, RebaseIsOfWealth
<2> QED
  BY <2>1, <2>2, <2>3, <2>4, <2>5, Zenon DEF Wealth
<1>4. RebaseIsExact
  BY <1>1, <1>3, Zenon DEF RebaseIsExact
<1>5. NoFalseAlarm
<2>1. SUFFICES ASSUME samples # {}, lost = 0, ~foreign, IsAbnormalClRebase(0) PROVE FALSE
  BY DEF NoFalseAlarm
<2>2. PICK prev \in samples : RebaseSince(prev) < 0
  BY <2>1 DEF IsAbnormalClRebase, IsNegativeSpecificClRebase
<2>3. RebaseSince(prev) = Wealth(at, used) - Wealth(prev, used)
  BY <1>1, RebaseIsOfWealth
<2> DEFINE x == Wealth(at, used)
           y == Wealth(prev, used)
<2>4. x \in Int
  BY <1>2, WealthType
<2>5. y \in Int
  BY <1>2, WealthType
<2>6. x >= y - lost
  BY <1>1, <1>2, <2>1 DEF RebaseInv, NothingVanishes
<2> HIDE DEF x, y
<2>7. x - y < 0 /\ x >= y - 0
  BY <2>1, <2>2, <2>3, <2>6 DEF x, y
<2> QED
  BY ONLY <2>4, <2>5, <2>7
<1> QED
  BY <1>4, <1>5 DEF RebaseIsOfRewards

\* accounting.py:244-268: whatever is deposited to Lido's keys, by whom and in which order, the
\* pending balance of a report is what playing the queue adds to Lido's validators.
THEOREM NoEtherIsInvisible == RebaseSpec => []ReportedBalanceIsComplete
<1>1. RebaseInv /\ [RebaseNext]_rebaseVars => RebaseInv'
  BY RebaseStays
<1> QED
  BY <1>1, RebaseBegins, PendingIsComplete, PTL DEF RebaseSpec

\* abnormal_cl_rebase.py:42-229: the rebase between two blocks of a frame is the difference of
\* what validators and vault gained by then; without penalties it is never negative.
THEOREM RebaseCountsRewardsOnly == RebaseSpec => []RebaseIsOfRewards
<1>1. RebaseInv /\ [RebaseNext]_rebaseVars => RebaseInv'
  BY RebaseStays
<1> QED
  BY <1>1, RebaseBegins, RebaseIsRewards, PTL DEF RebaseSpec

-----------------------------------------------------------------------------
(* The slashing reserve *)

\* What a number is worth at least, times the ratio.
Share(x) == x * RatioBP

\* The first slot of an epoch has ended.
Began(e) == e * EpochSlots < now

ReserveTypes ==
  /\ now \in Nat /\ stake \in Nat /\ losses \in Nat
  /\ slashedAt \in Nat \cup {-1} /\ free \in Nat \cup {-1}
  /\ reserve \in [slot : Nat \cup {-1}, amount : Nat, losses : Nat]

\* Balances of the past: of every epoch that began, each worth the one now and the loss since.
PastIsKnown ==
  /\ DOMAIN past = {e \in Nat : Began(e)} /\ DOMAIN lossesBy = DOMAIN past
  /\ \A e \in DOMAIN past :
       /\ past[e] \in Nat /\ lossesBy[e] \in Nat /\ lossesBy[e] <= losses
       /\ stake + losses <= past[e] + lossesBy[e]

\* A report that has seen the slashing covers all there is and was since.
SeenInReport == slashedAt # -1 /\ slashedAt <= reserve.slot

ReserveInv ==
  /\ ReserveTypes /\ PastIsKnown
  /\ slashedAt <= now /\ reserve.slot < now /\ reserve.losses <= losses
  /\ slashedAt # -1 => EpochOf(slashedAt) <= free - LeftShift
  /\ SeenInReport =>
       /\ EpochOf(reserve.slot) <= free + RightShift =>
            reserve.amount * TotalBP >= Share(stake + losses - reserve.losses)
       /\ InWindow(EpochOf(reserve.slot)) =>
            Began(free - LeftShift) /\ reserve.amount = CalcReserve(past[free - LeftShift])

\* A quotient, as its bounds.
LEMMA Quotient ==
  ASSUME NEW a \in Nat, NEW b \in Nat \ {0}
  PROVE  /\ a \div b \in Nat
         /\ (a \div b) * b <= a /\ a < (a \div b) * b + b
  BY SMT

LEMMA Epochs ==
  ASSUME NEW s \in Nat
  PROVE  /\ EpochOf(s) \in Nat
         /\ EpochOf(s) * EpochSlots <= s /\ s < EpochOf(s) * EpochSlots + EpochSlots
  BY Quotient, ReserveAssumption DEF EpochOf

\* Epochs follow slots.
LEMMA LaterEpoch ==
  ASSUME NEW s \in Nat, NEW t \in Nat, s <= t
  PROVE  EpochOf(s) <= EpochOf(t)
<1> DEFINE a == EpochOf(s)
           b == EpochOf(t)
<1>1. /\ a \in Nat /\ a * EpochSlots <= s
      /\ b \in Nat /\ t < b * EpochSlots + EpochSlots
  BY Epochs
<1>2. EpochSlots \in Nat \ {0}
  BY ReserveAssumption
<1>3. b < a => b * EpochSlots + EpochSlots <= a * EpochSlots
  BY <1>1, <1>2, Multiples
<1>4. a * EpochSlots \in Int /\ b * EpochSlots \in Int
  BY <1>1, <1>2, Multiples
<1> HIDE DEF a, b
<1>5. ~(b < a)
  BY <1>1, <1>2, <1>3, <1>4
<1> QED
  BY <1>1, <1>5 DEF a, b

\* The reserve covers the share of whatever is no larger.
LEMMA ReserveCovers ==
  ASSUME NEW b \in Nat, NEW s \in Nat, s <= b
  PROVE  CalcReserve(b) \in Nat /\ CalcReserve(b) * TotalBP >= Share(s)
<1>1. TotalBP \in Nat \ {0} /\ RatioBP \in Nat
  BY ReserveAssumption
<1>2. b * RatioBP \in Nat /\ s * RatioBP \in Nat /\ s * RatioBP <= b * RatioBP
<2>1. (b - s) \in Nat /\ (b - s) * RatioBP \in Nat /\ (b - s) * RatioBP = b * RatioBP - s * RatioBP
  BY <1>1
<2>2. b * RatioBP \in Nat /\ s * RatioBP \in Nat
  BY <1>1
<2> QED
  BY <2>1, <2>2
<1> DEFINE x == b * RatioBP
           y == s * RatioBP
           q == (x + TotalBP - 1) \div TotalBP
<1>3. x + TotalBP - 1 \in Nat
  BY <1>1, <1>2
<1>4. q \in Nat /\ x + TotalBP - 1 < q * TotalBP + TotalBP
  BY <1>1, <1>3, Quotient
<1>5. CalcReserve(b) = q /\ Share(s) = y
  BY DEF CalcReserve, Share
<1>6. q * TotalBP \in Nat
  BY <1>1, <1>4
<1> HIDE DEF x, y, q
<1>7. q * TotalBP >= y
  BY <1>1, <1>2, <1>4, <1>6 DEF x, y
<1> QED
  BY <1>4, <1>5, <1>7

\* What the chain does between reports: the validator's balance, and what it loses.
LEMMA InvOfLoss ==
  ASSUME ReserveInv, NEW s \in Nat, NEW m \in Nat, stake' = s, losses' = m, losses <= m,
         s + m <= stake + losses,
         UNCHANGED <<now, slashedAt, free, past, reserve, lossesBy>>
  PROVE  ReserveInv'
<1>1. ReserveTypes'
  BY DEF ReserveInv, ReserveTypes
<1>2. PastIsKnown'
<2>1. \A e \in DOMAIN past : /\ lossesBy[e] \in Nat /\ past[e] \in Nat /\ lossesBy[e] <= m
                             /\ s + m <= past[e] + lossesBy[e]
<3> SUFFICES ASSUME NEW e \in DOMAIN past
             PROVE  /\ lossesBy[e] \in Nat /\ past[e] \in Nat /\ lossesBy[e] <= m
                    /\ s + m <= past[e] + lossesBy[e]
  OBVIOUS
<3>1. /\ past[e] \in Nat /\ lossesBy[e] \in Nat /\ lossesBy[e] <= losses
      /\ stake + losses <= past[e] + lossesBy[e]
  BY DEF ReserveInv, PastIsKnown
<3>2. PICK a \in Nat, b \in Nat : a = past[e] /\ b = lossesBy[e]
  BY <3>1
<3> QED
  BY <3>1, <3>2 DEF ReserveInv, ReserveTypes
<2> QED
  BY <2>1 DEF ReserveInv, PastIsKnown, Began
<1>3. reserve.losses <= m
  BY DEF ReserveInv, ReserveTypes
<1>4. ASSUME SeenInReport, EpochOf(reserve.slot) <= free + RightShift
      PROVE  reserve.amount * TotalBP >= Share(s + m - reserve.losses)
<2>1. PICK x \in Nat, r \in Nat, y \in Nat :
        x = reserve.amount /\ r = reserve.losses /\ y = stake + losses
  BY DEF ReserveInv, ReserveTypes
<2>2. x * TotalBP >= Share(y - r) /\ x * TotalBP \in Int
<3>1. reserve.amount * TotalBP >= Share(stake + losses - reserve.losses)
  BY <1>4 DEF ReserveInv
<3>2. x * TotalBP \in Int
  BY <2>1, ReserveAssumption
<3>3. stake + losses - reserve.losses = y - r /\ reserve.amount = x
<4>1. reserve.losses \in Nat /\ stake \in Nat /\ losses \in Nat
  BY DEF ReserveInv, ReserveTypes
<4> QED
  BY <2>1, <4>1
<3> QED
  BY <3>1, <3>2, <3>3, Zenon
<2> DEFINE d == y - (s + m)
<2>3. d \in Nat /\ RatioBP \in Nat
  BY <2>1, ReserveAssumption
<2>4. d * RatioBP \in Nat /\ d * RatioBP = (y - r) * RatioBP - (s + m - r) * RatioBP
  BY <2>1, <2>3
<2>5. (y - r) * RatioBP \in Int /\ (s + m - r) * RatioBP \in Int
  BY <2>1, <2>3
<2> HIDE DEF d
<2>6. x * TotalBP >= (s + m - r) * RatioBP
  BY <2>2, <2>4, <2>5 DEF Share
<2> QED
  BY <2>1, <2>6 DEF Share
<1>5. (SeenInReport' <=> SeenInReport)
  BY DEF SeenInReport
<1> QED
  BY <1>1, <1>2, <1>3, <1>4, <1>5 DEF ReserveInv, InWindow, EpochOf, Began, CalcReserve, Share

LEMMA ReserveExit ==
  ASSUME ReserveInv, NEW exits \in ExitQueues, ExitVault(exits)
  PROVE  ReserveInv'
<1>1. slashedAt = -1
<2>1. slashedAt # -1 => EpochOf(slashedAt) \in Nat
  BY Epochs DEF ReserveInv, ReserveTypes
<2> QED
  BY <2>1, ReserveAssumption DEF ExitVault, ReserveInv
<1>2. EpochOf(now) \in Nat /\ exits \in Nat
  BY Epochs, ReserveAssumption DEF ReserveInv, ReserveTypes
<1>3. ReserveTypes'
  BY <1>2 DEF ReserveInv, ReserveTypes, ExitVault
<1>4. PastIsKnown'
  BY DEF ReserveInv, PastIsKnown, ExitVault, Began
<1> QED
  BY <1>1, <1>3, <1>4 DEF ReserveInv, ExitVault, SeenInReport

LEMMA ReserveSlash ==
  ASSUME ReserveInv, NEW exits \in ExitQueues, SlashVault(exits)
  PROVE  ReserveInv'
<1> DEFINE a == IF free = -1 THEN EpochOf(now) + exits ELSE free
           b == EpochOf(now) + SlashingsVector
<1>1. EpochOf(now) \in Nat /\ exits \in Nat /\ free \in Nat \cup {-1} /\ now \in Nat
  BY Epochs, ReserveAssumption DEF ReserveInv, ReserveTypes
<1>2. a \in Int /\ b \in Nat /\ LeftShift \in Nat /\ EpochOf(now) <= b - LeftShift
  BY <1>1, ReserveAssumption
<1>3. free' = Max({a, b}) /\ slashedAt' = now /\ UNCHANGED <<now, past, reserve, lossesBy>>
  BY DEF SlashVault
<1>4. free' \in Nat /\ EpochOf(now) <= free' - LeftShift
<2> HIDE DEF a, b
<2>1. Max({a, b}) \in Int /\ b <= Max({a, b})
<3>1. a \in Int /\ b \in Int
  BY <1>2
<3> QED
  BY <3>1, MaxOfTwo
<2> QED
  BY <1>1, <1>2, <1>3, <2>1
<1>5. /\ stake' \in Nat /\ losses' \in Nat /\ stake' + losses' = stake + losses
      /\ stake \in Nat /\ losses \in Nat /\ losses <= losses'
  BY DEF SlashVault, Lose, ReserveInv, ReserveTypes
<1>6. ReserveTypes'
  BY <1>1, <1>3, <1>4, <1>5 DEF ReserveInv, ReserveTypes
<1>7. PastIsKnown' /\ reserve.losses <= losses'
<2>1. \A e \in DOMAIN past : /\ past[e] \in Nat /\ lossesBy[e] \in Nat /\ lossesBy[e] <= losses'
                             /\ stake' + losses' <= past[e] + lossesBy[e]
<3> SUFFICES ASSUME NEW e \in DOMAIN past
             PROVE  /\ past[e] \in Nat /\ lossesBy[e] \in Nat /\ lossesBy[e] <= losses'
                    /\ stake' + losses' <= past[e] + lossesBy[e]
  OBVIOUS
<3>1. /\ past[e] \in Nat /\ lossesBy[e] \in Nat /\ lossesBy[e] <= losses
      /\ stake + losses <= past[e] + lossesBy[e]
  BY DEF ReserveInv, PastIsKnown
<3> QED
  BY <1>5, <3>1
<2>2. reserve.losses <= losses /\ reserve.losses \in Nat
  BY DEF ReserveInv, ReserveTypes
<2>3. reserve.losses <= losses'
  BY <1>5, <2>2
<2> QED
  BY <1>3, <2>1, <2>3 DEF ReserveInv, PastIsKnown, Began
<1>8. ~SeenInReport'
  BY <1>1, <1>3 DEF ReserveInv, ReserveTypes, SeenInReport
<1>9. EpochOf(slashedAt)' = EpochOf(now)
  BY <1>3 DEF EpochOf
<1> HIDE DEF a, b
<1> QED
  BY <1>1, <1>3, <1>4, <1>6, <1>7, <1>8, <1>9 DEF ReserveInv, ReserveTypes

LEMMA ReservePenalty == ASSUME ReserveInv, LosePenalty PROVE ReserveInv'
<1>1. /\ stake' \in Nat /\ losses' \in Nat /\ losses <= losses' /\ stake' + losses' <= stake + losses
  BY DEF LosePenalty, Lose, ReserveInv, ReserveTypes
<1> QED
  BY <1>1, InvOfLoss DEF LosePenalty

LEMMA ReserveSweep == ASSUME ReserveInv, SweepVault PROVE ReserveInv'
<1>1. stake' = 0 /\ stake \in Nat /\ losses' = losses /\ losses \in Nat
  BY DEF SweepVault, ReserveInv, ReserveTypes
<1> QED
  BY <1>1, InvOfLoss DEF SweepVault

\* What a report holds when it is made in the last slot of an epoch.
LEMMA ReserveOfReport ==
  ASSUME ReserveInv, (now + 1) % EpochSlots = 0
  PROVE  /\ now % EpochSlots # 0 /\ SlashingReserve \in Nat
         /\ slashedAt # -1 =>
              /\ EpochOf(now) <= free + RightShift => SlashingReserve * TotalBP >= Share(stake)
              /\ InWindow(EpochOf(now)) =>
                   Began(free - LeftShift) /\ SlashingReserve = CalcReserve(past[free - LeftShift])
<1>0. /\ now \in Nat /\ stake \in Nat /\ free \in Int /\ EpochOf(now) \in Nat
      /\ LeftShift \in Nat /\ RightShift \in Nat
  BY Epochs, ReserveAssumption DEF ReserveInv, ReserveTypes
<1>1. now % EpochSlots # 0
  BY <1>0, ReserveAssumption
<1>2. EpochOf(now) * EpochSlots < now
<2>1. /\ EpochOf(now) * EpochSlots <= now
      /\ EpochOf(now) * EpochSlots = now => now % EpochSlots = 0
<3> DEFINE q == now \div EpochSlots
<3>1. EpochSlots \in Nat \ {0} /\ now = q * EpochSlots + (now % EpochSlots) /\ q \in Int
  BY <1>0, ReserveAssumption
<3>2. q * EpochSlots \in Int /\ now % EpochSlots \in 0 .. EpochSlots - 1
  BY <1>0, <3>1
<3>3. EpochOf(now) = q
  BY DEF EpochOf
<3> HIDE DEF q
<3> QED
  BY <1>0, <3>1, <3>2, <3>3
<2>2. EpochOf(now) * EpochSlots \in Int
  BY <1>0, ReserveAssumption
<2> QED
  BY <1>0, <1>1, <2>1, <2>2
<1>3. CalcReserve(stake) \in Nat /\ CalcReserve(stake) * TotalBP >= Share(stake)
  BY <1>0, ReserveCovers
<1>4. ASSUME slashedAt # -1, InWindow(EpochOf(now))
      PROVE  /\ Began(free - LeftShift)
             /\ CalcReserve(past[free - LeftShift]) \in Nat
             /\ CalcReserve(past[free - LeftShift]) * TotalBP >= Share(stake)
<2> DEFINE e == free - LeftShift
<2>1. e \in Nat /\ e <= EpochOf(now)
<3>1. EpochOf(slashedAt) \in Nat /\ EpochOf(slashedAt) <= e
  BY <1>4, Epochs DEF ReserveInv, ReserveTypes
<3>2. e <= EpochOf(now) /\ e \in Int
  BY <1>0, <1>4 DEF InWindow
<3> HIDE DEF e
<3> QED
  BY <3>1, <3>2
<2>2. e * EpochSlots <= EpochOf(now) * EpochSlots /\ e * EpochSlots \in Int
      /\ EpochOf(now) * EpochSlots \in Int
<3>1. EpochSlots \in Nat \ {0}
  BY ReserveAssumption
<3> HIDE DEF e
<3> QED
  BY <1>0, <2>1, <3>1, Multiples
<2>3. Began(e)
<3> HIDE DEF e
<3> QED
  BY <1>0, <1>2, <2>2 DEF Began
<2>4. past[e] \in Nat /\ stake <= past[e]
<3>1. e \in DOMAIN past
  BY <2>1, <2>3, Zenon DEF ReserveInv, PastIsKnown
<3>2. /\ past[e] \in Nat /\ lossesBy[e] \in Nat /\ lossesBy[e] <= losses
      /\ stake + losses <= past[e] + lossesBy[e]
  BY <3>1, Zenon DEF ReserveInv, PastIsKnown
<3>3. losses \in Nat
  BY DEF ReserveInv, ReserveTypes
<3>4. PICK a \in Nat, b \in Nat : a = past[e] /\ b = lossesBy[e]
  BY <3>2
<3> HIDE DEF e
<3> QED
  BY <1>0, <3>2, <3>3, <3>4
<2>5. CalcReserve(past[e]) \in Nat /\ CalcReserve(past[e]) * TotalBP >= Share(stake)
<3> HIDE DEF e
<3> QED
  BY <1>0, <2>4, ReserveCovers
<2> QED
  BY <2>3, <2>5
<1>5. CASE slashedAt = -1
  BY <1>1, <1>5 DEF SlashingReserve
<1>6. CASE slashedAt # -1 /\ InWindow(EpochOf(now))
<2>1. ~(EpochOf(now) < free - LeftShift)
  BY <1>0, <1>6 DEF InWindow
<2>2. SlashingReserve = CalcReserve(past[free - LeftShift])
  BY <1>6, <2>1 DEF SlashingReserve
<2> QED
  BY <1>1, <1>4, <1>6, <2>2
<1>7. CASE slashedAt # -1 /\ ~InWindow(EpochOf(now)) /\ EpochOf(now) < free - LeftShift
<2>1. SlashingReserve = CalcReserve(stake)
  BY <1>7 DEF SlashingReserve
<2> QED
  BY <1>1, <1>3, <1>7, <2>1
<1>8. CASE slashedAt # -1 /\ ~InWindow(EpochOf(now)) /\ ~(EpochOf(now) < free - LeftShift)
<2>1. SlashingReserve = 0
  BY <1>8 DEF SlashingReserve
<2>2. ~(EpochOf(now) <= free + RightShift)
  BY <1>0, <1>8 DEF InWindow
<2> QED
  BY <1>1, <1>8, <2>1, <2>2
<1> QED
  BY <1>5, <1>6, <1>7, <1>8

\* The balance at the end of the first slot of an epoch is remembered.
LEMMA PastGrows ==
  ASSUME ReserveInv, NEW reported \in BOOLEAN, NextReserveSlot(reported)
  PROVE  /\ PastIsKnown'
         /\ \A e \in Int : Began(e) => Began(e)'
         /\ \A e \in Nat : Began(e) => past'[e] = past[e]
<1>0. /\ now \in Nat /\ now' = now + 1 /\ stake' = stake /\ stake \in Nat
      /\ losses' = losses /\ losses \in Nat
  BY DEF ReserveInv, ReserveTypes, NextReserveSlot
<1>1. EpochSlots \in Nat \ {0}
  BY ReserveAssumption
<1>2. \A e \in Int : e * EpochSlots \in Int
  BY <1>1
<1>3. \A e \in Int : Began(e)' <=> Began(e) \/ e * EpochSlots = now
<2> SUFFICES ASSUME NEW e \in Int PROVE Began(e)' <=> Began(e) \/ e * EpochSlots = now
  OBVIOUS
<2>1. e * EpochSlots \in Int
  BY <1>2
<2> QED
  BY <1>0, <2>1 DEF Began
<1>4. CASE now % EpochSlots # 0
<2>1. past' = past /\ lossesBy' = lossesBy
  BY <1>4 DEF NextReserveSlot, Kept
<2>2. \A e \in Nat : e * EpochSlots # now
<3> SUFFICES ASSUME NEW e \in Nat, e * EpochSlots = now PROVE FALSE
  OBVIOUS
<3>1. (e * EpochSlots) % EpochSlots = 0
  BY <1>1
<3> QED
  BY <1>4, <3>1
<2>3. \A e \in Nat : Began(e)' <=> Began(e)
  BY <1>3, <2>2
<2> QED
  BY <1>0, <1>3, <2>1, <2>3, Zenon DEF ReserveInv, PastIsKnown
<1>5. CASE now % EpochSlots = 0
<2> DEFINE n == EpochOf(now)
<2>1. /\ past' = [e \in 0 .. n |-> IF e = n THEN stake ELSE past[e]]
      /\ lossesBy' = [e \in 0 .. n |-> IF e = n THEN losses ELSE lossesBy[e]]
  BY <1>5 DEF NextReserveSlot, Kept
<2>2. n \in Nat /\ n * EpochSlots = now
<3> DEFINE q == now \div EpochSlots
<3>1. now = q * EpochSlots + (now % EpochSlots)
  BY <1>0, <1>1
<3>2. q \in Nat /\ n = q
  BY <1>0, Epochs DEF EpochOf
<3>3. q * EpochSlots \in Nat
  BY <1>1, <3>2
<3> HIDE DEF q, n
<3> QED
  BY <1>0, <1>5, <3>1, <3>2, <3>3
<2> HIDE DEF n
<2>3. \A e \in Nat : (Began(e) <=> e < n) /\ (Began(e)' <=> e <= n)
<3> SUFFICES ASSUME NEW e \in Nat PROVE (Began(e) <=> e < n) /\ (Began(e)' <=> e <= n)
  OBVIOUS
<3>1. /\ e * EpochSlots \in Int /\ e < n => e * EpochSlots + EpochSlots <= n * EpochSlots
      /\ n < e => n * EpochSlots + EpochSlots <= e * EpochSlots
  BY <1>1, <2>2, Multiples
<3>2. (Began(e) <=> e < n)
  BY <1>0, <1>1, <2>2, <3>1 DEF Began
<3>3. e * EpochSlots = now <=> e = n
  BY <1>0, <1>1, <2>2, <3>1
<3> QED
  BY <1>3, <2>2, <3>2, <3>3
<2>4. DOMAIN past' = 0 .. n /\ DOMAIN lossesBy' = 0 .. n /\ DOMAIN past = 0 .. n - 1
<3>1. DOMAIN past = {e \in Nat : Began(e)}
  BY DEF ReserveInv, PastIsKnown
<3>2. DOMAIN past = 0 .. n - 1
  BY <2>2, <2>3, <3>1
<3> QED
  BY <2>1, <3>2
<2>5. \A e \in 0 .. n : /\ past'[e] \in Nat /\ lossesBy'[e] \in Nat /\ lossesBy'[e] <= losses
                        /\ stake + losses <= past'[e] + lossesBy'[e]
<3> SUFFICES ASSUME NEW e \in 0 .. n
             PROVE  /\ past'[e] \in Nat /\ lossesBy'[e] \in Nat /\ lossesBy'[e] <= losses
                    /\ stake + losses <= past'[e] + lossesBy'[e]
  OBVIOUS
<3>1. CASE e = n
  BY <1>0, <2>1, <3>1
<3>2. CASE e # n
<4>1. past'[e] = past[e] /\ lossesBy'[e] = lossesBy[e] /\ e \in DOMAIN past
  BY <2>1, <2>2, <2>4, <3>2
<4>2. /\ past[e] \in Nat /\ lossesBy[e] \in Nat /\ lossesBy[e] <= losses
      /\ stake + losses <= past[e] + lossesBy[e]
  BY <4>1 DEF ReserveInv, PastIsKnown
<4> QED
  BY <4>1, <4>2
<3> QED
  BY <3>1, <3>2
<2>6. DOMAIN past' = {e \in Nat : Began(e)'}
  BY <2>2, <2>3, <2>4
<2>7. PastIsKnown'
<3>1. \A e \in DOMAIN past' : /\ past'[e] \in Nat /\ lossesBy'[e] \in Nat /\ lossesBy'[e] <= losses'
                              /\ stake' + losses' <= past'[e] + lossesBy'[e]
  BY <1>0, <2>4, <2>5
<3> QED
  BY <2>4, <2>6, <3>1 DEF PastIsKnown, Began
<2>8. \A e \in Nat : Began(e) => past'[e] = past[e]
  BY <2>1, <2>2, <2>3
<2> QED
  BY <1>3, <2>7, <2>8
<1> QED
  BY <1>4, <1>5

LEMMA ReserveSlot ==
  ASSUME ReserveInv, NEW reported \in BOOLEAN, NextReserveSlot(reported)
  PROVE  /\ ReserveInv'
         /\ SeenInReport /\ InWindow(EpochOf(reserve.slot)) /\ InWindow(EpochOf(reserve'.slot))
              => reserve'.amount = reserve.amount
<1>0. /\ now \in Nat /\ now' = now + 1 /\ stake \in Nat /\ losses \in Nat
      /\ slashedAt \in Nat \cup {-1} /\ free \in Int /\ LeftShift \in Nat
      /\ UNCHANGED <<slashedAt, free, stake, losses>>
  BY ReserveAssumption DEF ReserveInv, ReserveTypes, NextReserveSlot
<1>1. /\ PastIsKnown'
      /\ \A e \in Int : Began(e) => Began(e)'
      /\ \A e \in Nat : Began(e) => past'[e] = past[e]
  BY PastGrows
<1>2. slashedAt # -1 => free - LeftShift \in Nat
<2>1. slashedAt # -1 => EpochOf(slashedAt) \in Nat /\ EpochOf(slashedAt) <= free - LeftShift
  BY Epochs, <1>0 DEF ReserveInv
<2> QED
  BY <1>0, <2>1
<1>3. ASSUME slashedAt # -1, Began(free - LeftShift)
      PROVE  Began(free - LeftShift)' /\ past'[free - LeftShift] = past[free - LeftShift]
<2>1. Began(free - LeftShift)' <=> (free - LeftShift) * EpochSlots < now'
  BY <1>0 DEF Began
<2>2. (free - LeftShift) * EpochSlots \in Int
  BY <1>0, ReserveAssumption
<2>3. (free - LeftShift) * EpochSlots < now
  BY <1>3 DEF Began
<2>4. Began(free - LeftShift)'
  BY <1>0, <2>1, <2>2, <2>3
<2> QED
  BY <1>1, <1>2, <1>3, <2>4
<1>4. CASE reported
<2>1. /\ (now + 1) % EpochSlots = 0
      /\ reserve' = [slot |-> now, amount |-> SlashingReserve, losses |-> losses]
  BY <1>4 DEF NextReserveSlot
<2>2. /\ SlashingReserve \in Nat
      /\ slashedAt # -1 =>
           /\ EpochOf(now) <= free + RightShift => SlashingReserve * TotalBP >= Share(stake)
           /\ InWindow(EpochOf(now)) =>
                Began(free - LeftShift) /\ SlashingReserve = CalcReserve(past[free - LeftShift])
  BY <2>1, ReserveOfReport
<2>3. ReserveTypes'
  BY <1>0, <2>1, <2>2 DEF ReserveInv, ReserveTypes
<2>4. slashedAt' <= now' /\ reserve'.slot < now' /\ reserve'.slot = now /\ reserve'.losses <= losses'
  BY <1>0, <2>1 DEF ReserveInv
<2>5. slashedAt' # -1 => EpochOf(slashedAt') <= free' - LeftShift
  BY <1>0 DEF ReserveInv
<2>6. ASSUME slashedAt # -1
      PROVE  /\ EpochOf(now) <= free + RightShift =>
                  reserve'.amount * TotalBP >= Share(stake + losses - reserve'.losses)
             /\ InWindow(EpochOf(now)) =>
                  Began(free - LeftShift)' /\ reserve'.amount = CalcReserve(past'[free - LeftShift])
<3>1. stake + losses - reserve'.losses = stake
  BY <1>0, <2>1
<3> QED
  BY <1>3, <2>1, <2>2, <2>6, <3>1
<2>7. ReserveInv'
  BY <1>0, <1>1, <2>3, <2>4, <2>5, <2>6
     DEF ReserveInv, SeenInReport, InWindow, EpochOf, Began, CalcReserve, Share
<2>8. SeenInReport /\ InWindow(EpochOf(reserve.slot)) /\ InWindow(EpochOf(reserve'.slot))
        => reserve'.amount = reserve.amount
  BY <2>1, <2>2 DEF ReserveInv, SeenInReport
<2> QED
  BY <2>7, <2>8
<1>5. CASE ~reported
<2>1. reserve' = reserve
  BY <1>5 DEF NextReserveSlot
<2>2. ReserveTypes'
  BY <1>0, <2>1 DEF ReserveInv, ReserveTypes
<2>3. slashedAt' <= now' /\ reserve'.slot < now' /\ reserve'.losses <= losses'
  BY <1>0, <2>1 DEF ReserveInv, ReserveTypes
<2>4. ASSUME SeenInReport, InWindow(EpochOf(reserve.slot))
      PROVE  Began(free - LeftShift)' /\ reserve.amount = CalcReserve(past'[free - LeftShift])
  BY <1>3, <2>4 DEF ReserveInv, SeenInReport
<2>5. SeenInReport /\ EpochOf(reserve.slot) <= free + RightShift =>
        reserve.amount * TotalBP >= Share(stake + losses - reserve.losses)
  BY DEF ReserveInv
<2>6. slashedAt # -1 => EpochOf(slashedAt) <= free - LeftShift
  BY DEF ReserveInv
<2>7. ReserveInv'
  BY <1>0, <1>1, <2>1, <2>2, <2>3, <2>4, <2>5, <2>6
     DEF ReserveInv, SeenInReport, InWindow, EpochOf, Began, CalcReserve, Share
<2> QED
  BY <2>1, <2>7
<1> QED
  BY <1>4, <1>5

LEMMA ReserveStart == ReserveInit => ReserveInv
<1> SUFFICES ASSUME ReserveInit PROVE ReserveInv
  OBVIOUS
<1>1. ReserveTypes
  BY ReserveAssumption DEF ReserveInit, ReserveTypes
<1>2. \A e \in Nat : ~Began(e)
<2> SUFFICES ASSUME NEW e \in Nat PROVE ~Began(e)
  OBVIOUS
<2>1. e * EpochSlots \in Nat
  BY ReserveAssumption
<2> QED
  BY <2>1 DEF Began, ReserveInit
<1>3. DOMAIN past = {} /\ DOMAIN lossesBy = {}
  BY DEF ReserveInit
<1>4. PastIsKnown
  BY <1>2, <1>3 DEF PastIsKnown
<1> QED
  BY <1>1, <1>4 DEF ReserveInit, ReserveInv, SeenInReport

LEMMA ReserveStep == ReserveInv /\ [ReserveNext]_reserveVars => ReserveInv'
<1> SUFFICES ASSUME ReserveInv, [ReserveNext]_reserveVars PROVE ReserveInv'
  OBVIOUS
<1>1. CASE UNCHANGED reserveVars
  BY <1>1 DEF reserveVars, ReserveInv, ReserveTypes, PastIsKnown, SeenInReport, InWindow, Began
<1> QED
  BY <1>1, ReserveExit, ReserveSlash, ReservePenalty, ReserveSweep, ReserveSlot DEF ReserveNext

LEMMA ReserveInvariant == ReserveSpec => []ReserveInv
  BY ReserveStart, ReserveStep, PTL DEF ReserveSpec

LEMMA CoversPenalties == ReserveInv => ReserveCoversPenalties
<1> SUFFICES ASSUME ReserveInv, slashedAt # -1, slashedAt <= reserve.slot,
                    EpochOf(reserve.slot) <= free + RightShift
             PROVE  /\ reserve.amount * TotalBP >= (stake + losses - reserve.losses) * RatioBP
                    /\ InWindow(EpochOf(reserve.slot)) =>
                         reserve.amount * TotalBP >=
                           (stake + losses - lossesBy[free - LeftShift]) * RatioBP
  BY DEF ReserveCoversPenalties
<1>1. reserve.amount * TotalBP >= Share(stake + losses - reserve.losses)
  BY DEF ReserveInv, SeenInReport
<1>2. ASSUME InWindow(EpochOf(reserve.slot))
      PROVE  reserve.amount * TotalBP >= Share(stake + losses - lossesBy[free - LeftShift])
<2> DEFINE e == free - LeftShift
<2>1. Began(e) /\ reserve.amount = CalcReserve(past[e])
  BY <1>2 DEF ReserveInv, SeenInReport
<2>2. e \in Nat
<3>1. EpochOf(slashedAt) \in Nat /\ EpochOf(slashedAt) <= e
  BY Epochs DEF ReserveInv, ReserveTypes
<3>2. e \in Int
  BY ReserveAssumption DEF ReserveInv, ReserveTypes
<3> HIDE DEF e
<3> QED
  BY <3>1, <3>2
<2> HIDE DEF e
<2>3. e \in DOMAIN past
  BY <2>1, <2>2, Zenon DEF ReserveInv, PastIsKnown
<2>4. /\ past[e] \in Nat /\ lossesBy[e] \in Nat /\ lossesBy[e] <= losses
      /\ stake + losses <= past[e] + lossesBy[e]
  BY <2>3, Zenon DEF ReserveInv, PastIsKnown
<2>5. PICK a \in Nat, b \in Nat : a = past[e] /\ b = lossesBy[e]
  BY <2>4
<2>6. stake + losses - b \in Nat /\ stake + losses - b <= a
  BY <2>4, <2>5 DEF ReserveInv, ReserveTypes
<2>7. CalcReserve(a) * TotalBP >= Share(stake + losses - b)
  BY <2>6, ReserveCovers
<2> QED
  BY <2>1, <2>5, <2>7 DEF e
<1> QED
  BY <1>1, <1>2 DEF Share

\* staking_vaults.py:314-365: in every state the last report that saw the slashing reserves
\* the vault's share of all that the validator still has and has lost since that report; the
\* reports within the window around the withdrawable epoch reserve the same, and cover all
\* that it has lost since the window began.
THEOREM ReserveIsEnough == ReserveSpec => ReserveHolds
<1>1. ReserveInv /\ [ReserveNext]_reserveVars => ReserveStays
<2> SUFFICES ASSUME ReserveInv, [ReserveNext]_reserveVars, SeenInReport,
                    InWindow(EpochOf(reserve.slot)), InWindow(EpochOf(reserve'.slot))
             PROVE  reserve'.amount = reserve.amount
  BY DEF SeenInReport, ReserveStays
<2>1. reserve' = reserve \/ \E reported \in BOOLEAN : NextReserveSlot(reported)
  BY DEF ReserveNext, reserveVars, ExitVault, SlashVault, LosePenalty, SweepVault
<2> QED
  BY <2>1, ReserveSlot
<1> QED
  BY <1>1, CoversPenalties, ReserveInvariant, PTL DEF ReserveSpec, ReserveHolds

-----------------------------------------------------------------------------
(* The border of bunker mode *)

FrameStart(f) == INITIAL_EPOCH + f * EPOCHS_PER_FRAME

\* A product divided by one of its factors, and the number before it.
LEMMA DivOfProduct ==
  ASSUME NEW a \in Int, NEW b \in Nat \ {0}
  PROVE  (a * b) \div b = a /\ (a * b - 1) \div b = a - 1
<1>1. (a * b) \div b = a
  OBVIOUS
<1>2. (a * b - 1) \div b = a - 1
<2> DEFINE q == (a * b - 1) \div b
<2>1. q \in Int /\ b * q <= a * b - 1 /\ a * b - 1 < b * q + b
  OBVIOUS
<2> HIDE DEF q
<2>2. ~(q >= a)
<3> SUFFICES ASSUME q >= a PROVE FALSE
  OBVIOUS
<3>1. (q - a) * b >= 0 /\ (q - a) * b = b * q - a * b
  BY <2>1
<3> QED
  BY <2>1, <3>1
<2>3. ~(q <= a - 2)
<3> SUFFICES ASSUME q <= a - 2 PROVE FALSE
  OBVIOUS
<3>1. (a - 2 - q) * b >= 0 /\ (a - 2 - q) * b = a * b - 2 * b - b * q
  BY <2>1
<3> QED
  BY <2>1, <3>1
<2>4. q = a - 1
  BY <2>1, <2>2, <2>3
<2> QED
  BY <2>4 DEF q
<1> QED
  BY <1>1, <1>2

LEMMA FrameOfEpoch ==
  ASSUME NEW e \in Int
  PROVE  /\ get_frame_by_epoch(e) \in Int
         /\ FrameStart(get_frame_by_epoch(e)) <= e /\ e < FrameStart(get_frame_by_epoch(e) + 1)
         /\ round_epoch_by_frame(e) = FrameStart(get_frame_by_epoch(e))
<1> DEFINE f == get_frame_by_epoch(e)
           E == EPOCHS_PER_FRAME
<1>1. E \in Nat \ {0} /\ INITIAL_EPOCH \in Nat
  BY ConverterAssumption
<1>2. f \in Int /\ E * f <= e - INITIAL_EPOCH /\ e - INITIAL_EPOCH < E * f + E
<2> DEFINE d == e - INITIAL_EPOCH
<2>1. d \in Int
  BY <1>1
<2>2. f = d \div E
  BY DEF get_frame_by_epoch
<2> HIDE DEF d, f
<2>3. f \in Int /\ E * f <= d /\ d < E * f + E
  BY <1>1, <2>1, <2>2
<2> QED
  BY <2>3 DEF d
<1>3. round_epoch_by_frame(e) = f * E + INITIAL_EPOCH
  BY DEF round_epoch_by_frame
<1> HIDE DEF f
<1>4. f * E = E * f /\ (f + 1) * E = E * f + E /\ E * f \in Int
  BY <1>1, <1>2
<1>5. FrameStart(f) = INITIAL_EPOCH + f * E /\ FrameStart(f + 1) = INITIAL_EPOCH + (f + 1) * E
  BY DEF FrameStart
<1>6. /\ FrameStart(f) <= e /\ e < FrameStart(f + 1)
      /\ round_epoch_by_frame(e) = FrameStart(f)
<2> DEFINE x == E * f
<2>1. /\ x \in Int /\ x <= e - INITIAL_EPOCH /\ e - INITIAL_EPOCH < x + E
      /\ FrameStart(f) = INITIAL_EPOCH + x /\ FrameStart(f + 1) = INITIAL_EPOCH + (x + E)
      /\ round_epoch_by_frame(e) = x + INITIAL_EPOCH
  BY <1>2, <1>3, <1>4, <1>5
<2> HIDE DEF x
<2> QED
  BY <1>1, <2>1
<1> QED
  BY <1>2, <1>6 DEF f

LEMMA StartsGrow ==
  ASSUME NEW f \in Int, NEW g \in Int
  PROVE  /\ FrameStart(f) \in Int
         /\ f <= g => FrameStart(f) <= FrameStart(g)
         /\ f < g => FrameStart(f + 1) <= FrameStart(g)
<1>1. EPOCHS_PER_FRAME \in Nat \ {0} /\ INITIAL_EPOCH \in Nat
  BY ConverterAssumption
<1>2. ASSUME NEW a \in Int, NEW b \in Int, a <= b PROVE FrameStart(a) <= FrameStart(b)
<2>1. (b - a) * EPOCHS_PER_FRAME >= 0
      /\ (b - a) * EPOCHS_PER_FRAME = b * EPOCHS_PER_FRAME - a * EPOCHS_PER_FRAME
  BY <1>1, <1>2
<2>2. a * EPOCHS_PER_FRAME \in Int /\ b * EPOCHS_PER_FRAME \in Int
  BY <1>1
<2>3. a * EPOCHS_PER_FRAME <= b * EPOCHS_PER_FRAME
  BY <2>1, <2>2
<2> QED
  BY <1>1, <2>2, <2>3 DEF FrameStart
<1>3. FrameStart(f) \in Int
  BY <1>1 DEF FrameStart
<1> QED
  BY <1>2, <1>3

\* Frames of epochs keep their order.
LEMMA FramesGrow ==
  ASSUME NEW a \in Int, NEW b \in Int, a <= b
  PROVE  /\ get_frame_by_epoch(a) <= get_frame_by_epoch(b)
         /\ round_epoch_by_frame(a) <= round_epoch_by_frame(b)
<1> DEFINE f == get_frame_by_epoch(a)
           g == get_frame_by_epoch(b)
<1>1. /\ f \in Int /\ FrameStart(f) <= a /\ round_epoch_by_frame(a) = FrameStart(f)
      /\ g \in Int /\ b < FrameStart(g + 1) /\ round_epoch_by_frame(b) = FrameStart(g)
  BY FrameOfEpoch
<1> HIDE DEF f, g
<1>2. f <= g
<2>1. g < f => FrameStart(g + 1) <= FrameStart(f)
  BY <1>1, StartsGrow
<2>2. FrameStart(g + 1) \in Int /\ FrameStart(f) \in Int
  BY <1>1, StartsGrow
<2> QED
  BY <1>1, <2>1, <2>2
<1>3. FrameStart(f) <= FrameStart(g)
  BY <1>1, <1>2, StartsGrow
<1> QED
  BY <1>1, <1>2, <1>3 DEF f, g

\* The first and the last epoch of a frame, found by its slots.
LEMMA EpochsOfFrame ==
  ASSUME NEW f \in Int
  PROVE  /\ get_epoch_by_slot(get_frame_first_slot(f)) = FrameStart(f)
         /\ get_epoch_by_slot(get_frame_last_slot(f)) = FrameStart(f + 1) - 1
         /\ get_frame_by_epoch(FrameStart(f)) = f
<1>1. SLOTS_PER_EPOCH \in Nat \ {0} /\ EPOCHS_PER_FRAME \in Nat \ {0} /\ INITIAL_EPOCH \in Nat
  BY ConverterAssumption
<1>2. FrameStart(f) \in Int /\ FrameStart(f + 1) \in Int
  BY StartsGrow
<1>3. /\ get_frame_first_slot(f) = FrameStart(f) * SLOTS_PER_EPOCH
      /\ get_frame_last_slot(f) = FrameStart(f + 1) * SLOTS_PER_EPOCH - 1
  BY DEF get_frame_first_slot, get_frame_last_slot, FrameStart
<1>4. FrameStart(f) - INITIAL_EPOCH = f * EPOCHS_PER_FRAME
  BY <1>1 DEF FrameStart
<1>5. (f * EPOCHS_PER_FRAME) \div EPOCHS_PER_FRAME = f
  BY <1>1, DivOfProduct
<1>6. get_frame_by_epoch(FrameStart(f)) = f
  BY <1>4, <1>5 DEF get_frame_by_epoch
<1> QED
  BY <1>1, <1>2, <1>3, <1>6, DivOfProduct DEF get_epoch_by_slot

\* What the binary search makes of frames lo to hi when slashings are seen from f on.
Nearest(f, lo, hi) == IF f <= lo THEN lo ELSE IF hi <= f THEN hi ELSE f

Searches(found, lo, hi) ==
  found = [p \in (lo .. hi) \X (lo .. hi) |->
             LET mid == (p[1] + p[2]) \div 2
             IN IF p[1] >= p[2] THEN p[1]
                ELSE IF SlashingsInFrame(mid) THEN found[<<p[1], mid>>]
                ELSE found[<<mid + 1, p[2]>>]]

\* Half way is in the range, and either half is shorter.
LEMMA Halves ==
  ASSUME NEW a \in Int, NEW b \in Int, a < b
  PROVE  (a + b) \div 2 \in Int /\ a <= (a + b) \div 2 /\ (a + b) \div 2 < b
  OBVIOUS

LEMMA SearchExists ==
  ASSUME NEW lo \in Int, NEW hi \in Int, NEW f \in Int,
         \A g \in lo .. hi : SlashingsInFrame(g) <=> f <= g
  PROVE  \E found : Searches(found, lo, hi)
<1> DEFINE R == (lo .. hi) \X (lo .. hi)
           at(a, b) == IF a >= b THEN a ELSE Nearest(f, a, b)
           h == [p \in R |-> at(p[1], p[2])]
<1>1. ASSUME NEW p \in R
      PROVE  h[p] = LET mid == (p[1] + p[2]) \div 2
                    IN IF p[1] >= p[2] THEN p[1]
                       ELSE IF SlashingsInFrame(mid) THEN h[<<p[1], mid>>]
                       ELSE h[<<mid + 1, p[2]>>]
<2> DEFINE a == p[1]
           b == p[2]
           m == (a + b) \div 2
<2>1. a \in lo .. hi /\ b \in lo .. hi /\ a \in Int /\ b \in Int
  OBVIOUS
<2>2. h[p] = at(a, b)
  OBVIOUS
<2>3. CASE a >= b
  BY <2>2, <2>3
<2>4. CASE ~(a >= b)
<3>1. m \in Int /\ a <= m /\ m < b
  BY <2>1, <2>4, Halves
<3> HIDE DEF m
<3>2. m \in lo .. hi /\ m + 1 \in lo .. hi
  BY <2>1, <3>1
<3>3. <<a, m>> \in R /\ <<m + 1, b>> \in R
  BY <2>1, <3>2
<3>4. h[<<a, m>>] = at(a, m) /\ h[<<m + 1, b>>] = at(m + 1, b)
  BY <3>3
<3> HIDE DEF h, a, b
<3>5. CASE f <= m
<4>1. at(a, b) = at(a, m)
  BY <2>1, <2>4, <3>1, <3>5 DEF Nearest
<4> QED
  BY <2>2, <2>4, <3>2, <3>4, <3>5, <4>1 DEF a, b, m
<3>6. CASE ~(f <= m)
<4>1. at(a, b) = at(m + 1, b)
  BY <2>1, <2>4, <3>1, <3>6 DEF Nearest
<4> QED
  BY <2>2, <2>4, <3>2, <3>4, <3>6, <4>1 DEF a, b, m
<3> QED
  BY <3>5, <3>6
<2> QED
  BY <2>3, <2>4
<1>2. h = [p \in R |-> h[p]]
  OBVIOUS
<1> HIDE DEF h
<1>3. Searches(h, lo, hi)
  BY <1>1, <1>2, Zenon DEF Searches
<1> QED
  BY <1>3

\* The binary search finds the first frame in which slashings are seen.
LEMMA SearchFinds ==
  ASSUME NEW lo \in Int, NEW hi \in Int, lo < hi, NEW f \in Int,
         \A g \in lo .. hi : SlashingsInFrame(g) <=> f <= g
  PROVE  FirstFrame(lo, hi) = Nearest(f, lo, hi)
<1> DEFINE found == CHOOSE found : Searches(found, lo, hi)
           at(a, b) == IF a >= b THEN a ELSE Nearest(f, a, b)
<1>1. Searches(found, lo, hi)
<2>1. \E x : Searches(x, lo, hi)
  BY SearchExists
<2> QED
  BY <2>1, Zenon
<1>2. FirstFrame(lo, hi) = found[<<lo, hi>>]
<2>1. ~(lo >= hi)
  OBVIOUS
<2> QED
  BY <2>1, Zenon DEF FirstFrame, Searches
<1> HIDE DEF found
<1> DEFINE Bad == {n \in Nat : \E a, b \in lo .. hi : b - a = n /\ found[<<a, b>>] # at(a, b)}
<1>3. Bad = {}
<2>1. SUFFICES ASSUME Bad # {} PROVE FALSE
  OBVIOUS
<2>2. PICK n \in Bad : \A k \in Bad : n <= k
<3>1. Bad \in SUBSET Nat
  OBVIOUS
<3> HIDE DEF Bad
<3> QED
  BY <2>1, <3>1, LeastNat
<2>3. PICK a \in lo .. hi, b \in lo .. hi : b - a = n /\ found[<<a, b>>] # at(a, b)
  BY <2>2
<2>4. a \in Int /\ b \in Int /\ n \in Nat
  BY <2>2
<2> DEFINE m == (a + b) \div 2
<2>5. found[<<a, b>>] = IF a >= b THEN a ELSE IF SlashingsInFrame(m) THEN found[<<a, m>>]
                        ELSE found[<<m + 1, b>>]
<3>1. <<a, b>> \in (lo .. hi) \X (lo .. hi) /\ <<a, b>>[1] = a /\ <<a, b>>[2] = b
  OBVIOUS
<3> HIDE DEF m
<3> QED
  BY <1>1, <3>1 DEF Searches, m
<2>6. CASE a >= b
  BY <2>3, <2>5, <2>6
<2>7. CASE ~(a >= b)
<3>1. m \in Int /\ a <= m /\ m < b
  BY <2>4, <2>7, Halves
<3> HIDE DEF m
<3>2. m \in lo .. hi /\ m + 1 \in lo .. hi
  BY <2>4, <3>1
<3>3. ASSUME NEW x \in lo .. hi, NEW y \in lo .. hi, x <= y, y - x < n
      PROVE  found[<<x, y>>] = at(x, y)
<4>1. y - x \in Nat /\ ~(n <= y - x)
  BY <2>4, <3>3
<4>2. y - x \notin Bad
<5> HIDE DEF Bad
<5> QED
  BY <2>2, <4>1
<4> HIDE DEF at
<4> QED
  BY <4>1, <4>2
<3>4. found[<<a, m>>] = at(a, m) /\ found[<<m + 1, b>>] = at(m + 1, b)
<4>1. a <= m /\ m - a < n /\ m + 1 <= b /\ b - (m + 1) < n
  BY <2>3, <2>4, <3>1
<4> HIDE DEF at
<4> QED
  BY <2>3, <3>2, <3>3, <4>1
<3> HIDE DEF Bad
<3>5. CASE f <= m
<4>1. at(a, b) = at(a, m)
  BY <2>4, <2>7, <3>1, <3>5 DEF Nearest
<4> HIDE DEF at
<4> QED
  BY <2>3, <2>5, <2>7, <3>2, <3>4, <3>5, <4>1
<3>6. CASE ~(f <= m)
<4>1. at(a, b) = at(m + 1, b)
  BY <2>4, <2>7, <3>1, <3>6 DEF Nearest
<4> HIDE DEF at
<4> QED
  BY <2>3, <2>5, <2>7, <3>2, <3>4, <3>6, <4>1
<3> QED
  BY <3>5, <3>6
<2> QED
  BY <2>6, <2>7
<1>4. found[<<lo, hi>>] = at(lo, hi)
<2>1. hi - lo \in Nat /\ lo \in lo .. hi /\ hi \in lo .. hi
<3> HIDE DEF Bad
<3> QED
  OBVIOUS
<2>2. hi - lo \notin Bad
<3> HIDE DEF Bad
<3> QED
  BY <1>3
<2> QED
  BY <2>1, <2>2
<1> QED
  BY <1>2, <1>4

-----------------------------------------------------------------------------

SlashTypes ==
  /\ epoch \in Nat /\ INITIAL_EPOCH <= epoch /\ epoch <= MaxEpoch
  /\ exit \in [Validator -> Nat] /\ withdrawable \in [Validator -> Nat]
  /\ slashedIn \in [Validator -> Nat] /\ slashed \in [Validator -> BOOLEAN]
  /\ lastReport \in Nat /\ finalized \in Nat /\ bunkerSince \in Nat

\* The withdrawable epoch of a validator comes from its exit or from its slashing.
SlashingShows(v) ==
  /\ exit[v] # FarFuture => slashed[v] \/ withdrawable[v] = exit[v] + Withdrawability
  /\ slashed[v] =>
       /\ exit[v] # FarFuture
       /\ Activation[v] <= slashedIn[v] /\ INITIAL_EPOCH <= slashedIn[v] /\ slashedIn[v] <= epoch
       /\ slashedIn[v] + Vector <= withdrawable[v]
       /\ \/ withdrawable[v] = slashedIn[v] + Vector
          \/ withdrawable[v] = exit[v] + Withdrawability

SlashInv == SlashTypes /\ \A v \in Validator : SlashingShows(v)

LEMMA SlashConstants ==
  /\ INITIAL_EPOCH \in Nat /\ Vector \in Nat \ {0} /\ Withdrawability \in Nat \ {0}
  /\ Shift \in Nat /\ MaxNegativeRebase \in Nat /\ MaxEpoch \in Nat /\ INITIAL_EPOCH <= MaxEpoch
  /\ FarFuture \in Nat /\ FarFuture = MaxEpoch + 10 * Vector
  /\ Queues \subseteq Nat /\ \A exits \in Queues : exits + 1 < 10 * Vector
  /\ Activation \in [Validator -> Nat]
  BY ConverterAssumption, SlashingsAssumption, HorizonAssumption DEF FarFuture

\* What is known of the slashings that are not over yet.
LEMMA OpenSlashings ==
  ASSUME SlashInv, NEW v \in Incomplete
  PROVE  /\ v \in Validator /\ slashedIn[v] \in Nat /\ Activation[v] \in Nat
         /\ Activation[v] <= slashedIn[v] /\ INITIAL_EPOCH <= slashedIn[v] /\ slashedIn[v] <= epoch
         /\ PredictedSlashing(v) \in Nat /\ slashedIn[v] <= PredictedSlashing(v)
         /\ Undetectable(v) \/ PredictedSlashing(v) = slashedIn[v]
<1>1. v \in Validator /\ slashed[v]
  BY DEF Incomplete, Validator
<1>2. /\ slashedIn[v] \in Nat /\ withdrawable[v] \in Nat /\ exit[v] \in Nat /\ Activation[v] \in Nat
  BY <1>1, SlashConstants DEF SlashInv, SlashTypes
<1>3. /\ Activation[v] <= slashedIn[v] /\ INITIAL_EPOCH <= slashedIn[v] /\ slashedIn[v] <= epoch
      /\ slashedIn[v] + Vector <= withdrawable[v]
      /\ \/ withdrawable[v] = slashedIn[v] + Vector
         \/ withdrawable[v] = exit[v] + Withdrawability
  BY <1>1 DEF SlashInv, SlashingShows
<1>4. PredictedSlashing(v) = withdrawable[v] - Vector
      /\ (Undetectable(v) <=> withdrawable[v] - exit[v] = Withdrawability)
  BY DEF PredictedSlashing, Undetectable
<1>5. Vector \in Nat /\ Withdrawability \in Nat
  BY SlashConstants
<1> QED
  BY <1>1, <1>2, <1>3, <1>4, <1>5

\* The epoch the border goes back to is in a frame without an open slashing before it, or so
\* far back that the border does not move.
LEMMA EarliestIsEarly ==
  ASSUME SlashInv, Incomplete # {}
  PROVE  /\ EarliestSlashing \in Nat /\ EarliestSlashing >= INITIAL_EPOCH
         /\ \/ round_epoch_by_frame(EarliestSlashing) <= finalized
            \/ \A v \in Incomplete :
                 round_epoch_by_frame(EarliestSlashing) <= round_epoch_by_frame(slashedIn[v])
<1> DEFINE Pred == {PredictedSlashing(v) : v \in Incomplete}
           P == Min(Pred)
<1>0. epoch \in Nat /\ finalized \in Nat /\ INITIAL_EPOCH \in Nat
  BY SlashConstants DEF SlashInv, SlashTypes
<1>1. PICK u \in Incomplete : P = PredictedSlashing(u)
<2>1. Pred \in SUBSET Nat /\ Pred # {}
  BY OpenSlashings
<2> HIDE DEF Pred
<2>2. P \in Pred
  BY <2>1, MinNat
<2> QED
  BY <2>2 DEF Pred
<1>2. \A v \in Incomplete : P <= PredictedSlashing(v)
<2>1. Pred \in SUBSET Nat /\ Pred # {}
  BY OpenSlashings
<2>2. \A v \in Incomplete : PredictedSlashing(v) \in Pred
  OBVIOUS
<2> HIDE DEF Pred
<2> QED
  BY <2>1, <2>2, MinNat
<1> HIDE DEF Pred, P
<1>3. P \in Nat /\ slashedIn[u] <= P /\ slashedIn[u] \in Nat
  BY <1>1, OpenSlashings
<1>4. CASE \A v \in Incomplete : ~Undetectable(v) /\ PredictedSlashing(v) # 0
<2>1. EarliestSlashing = P
  BY <1>4, Zenon DEF EarliestSlashing, Pred, P
<2>2. P = slashedIn[u] /\ P >= INITIAL_EPOCH
  BY <1>0, <1>1, <1>3, <1>4, OpenSlashings
<2>3. ASSUME NEW v \in Incomplete PROVE round_epoch_by_frame(P) <= round_epoch_by_frame(slashedIn[v])
<3>1. P <= slashedIn[v] /\ slashedIn[v] \in Int /\ P \in Int
  BY <1>2, <1>3, <1>4, OpenSlashings
<3> QED
  BY <3>1, FramesGrow
<2> QED
  BY <1>3, <2>1, <2>2, <2>3
<1>5. CASE \E v \in Incomplete : Undetectable(v) \/ PredictedSlashing(v) = 0
<2> DEFINE Acts == {Activation[v] : v \in Incomplete}
           A == Min(Acts)
           start == Max({finalized, A})
           end == Min({epoch, P})
           s == get_frame_by_epoch(start)
           n == get_frame_by_epoch(end)
           r == FirstFrame(s, n)
           Times == {slashedIn[v] : v \in Incomplete}
           t == Min(Times)
           F == get_frame_by_epoch(t)
<2>1. EarliestSlashing = get_epoch_by_slot(get_frame_first_slot(r))
<3>1. EarliestSlashing = SearchedSlashing
  BY <1>5, Zenon DEF EarliestSlashing
<3> QED
  BY <3>1, Zenon DEF SearchedSlashing, Pred, P
<2>2. A \in Nat /\ \A v \in Incomplete : A <= Activation[v]
<3>1. Acts \in SUBSET Nat /\ Acts # {} /\ \A v \in Incomplete : Activation[v] \in Acts
  BY OpenSlashings
<3> HIDE DEF Acts
<3> QED
  BY <3>1, MinNat
<2>3. /\ t \in Nat /\ \A v \in Incomplete : t <= slashedIn[v]
      /\ \E v \in Incomplete : t = slashedIn[v]
<3>1. Times \in SUBSET Nat /\ Times # {} /\ \A v \in Incomplete : slashedIn[v] \in Times
  BY OpenSlashings
<3>2. \A x \in Times : \E v \in Incomplete : x = slashedIn[v]
  OBVIOUS
<3> HIDE DEF Times
<3> QED
  BY <3>1, <3>2, MinNat
<2> HIDE DEF A, t
<2>4. /\ start \in Int /\ end \in Int /\ t <= end /\ INITIAL_EPOCH <= t
      /\ start = finalized \/ start <= t
<3>1. PICK v \in Incomplete : t = slashedIn[v]
  BY <2>3
<3>2. A <= Activation[v] /\ Activation[v] <= t /\ t <= epoch /\ INITIAL_EPOCH <= t /\ Activation[v] \in Nat
  BY <2>2, <3>1, OpenSlashings
<3>3. t <= P
  BY <1>1, <1>3, <2>3
<3>4. start \in Int /\ (start = finalized \/ start = A)
  BY <1>0, <2>2, MaxOfTwo
<3>5. end \in Int /\ (end = epoch \/ end = P)
<4>1. epoch \in Int /\ P \in Int
  BY <1>0, <1>3
<4> QED
  BY <4>1, MinOfTwo, Zenon
<3> HIDE DEF start, end
<3> QED
  BY <2>2, <2>3, <3>2, <3>3, <3>4, <3>5
<2> HIDE DEF start, end
<2>5. s \in Int /\ n \in Int /\ F \in Int /\ F <= n
  BY <2>3, <2>4, FrameOfEpoch, FramesGrow
<2>6. ASSUME NEW g \in Int PROVE SlashingsInFrame(g) <=> F <= g
<3>1. get_epoch_by_slot(get_frame_last_slot(g)) = FrameStart(g + 1) - 1 /\ FrameStart(g + 1) \in Int
  BY EpochsOfFrame, StartsGrow
<3>2. SlashingsInFrame(g) <=> t <= FrameStart(g + 1) - 1
<4>1. SlashingsInFrame(g) <=> \E v \in Incomplete : slashedIn[v] <= FrameStart(g + 1) - 1
  BY <3>1, Zenon DEF SlashingsInFrame
<4>2. \A v \in Incomplete : slashedIn[v] \in Nat
  BY OpenSlashings
<4> DEFINE m == FrameStart(g + 1) - 1
<4>3. m \in Int
  BY <3>1
<4>4. SlashingsInFrame(g) <=> \E v \in Incomplete : slashedIn[v] <= m
  BY <4>1
<4> HIDE DEF m
<4>5. SlashingsInFrame(g) <=> t <= m
  BY ONLY <2>3, <4>2, <4>3, <4>4
<4> QED
  BY <4>5 DEF m
<3>3. FrameStart(F) <= t /\ t < FrameStart(F + 1) /\ FrameStart(F) \in Int /\ FrameStart(F + 1) \in Int
<4>1. t \in Int
  BY <2>3
<4>2. F \in Int /\ FrameStart(F) <= t /\ t < FrameStart(F + 1)
  BY ONLY <4>1, FrameOfEpoch
<4> HIDE DEF F
<4>3. F + 1 \in Int
  BY <4>2
<4>4. FrameStart(F) \in Int /\ FrameStart(F + 1) \in Int
  BY ONLY <4>2, <4>3, StartsGrow
<4> QED
  BY <4>2, <4>4
<3>4. F <= g => FrameStart(F + 1) <= FrameStart(g + 1)
<4>1. F <= g => F + 1 <= g + 1
  BY <2>5
<4> QED
  BY <2>5, <4>1, StartsGrow
<3>5. ~(F <= g) => FrameStart(g + 1) <= FrameStart(F)
<4>1. ~(F <= g) => g < F
  BY <2>5
<4> QED
  BY <2>5, <4>1, StartsGrow
<3> HIDE DEF F
<3> QED
  BY <2>3, <3>1, <3>2, <3>3, <3>4, <3>5
<2> HIDE DEF s, n, F
<2>7. r = F \/ (r = s /\ F <= s)
<3>1. CASE s >= n
<4>1. r = s
  BY <3>1, Zenon DEF FirstFrame
<4> QED
  BY <2>5, <3>1, <4>1
<3>2. CASE ~(s >= n)
<4>1. s < n
  BY <2>5, <3>2
<4>2. \A g \in s .. n : SlashingsInFrame(g) <=> F <= g
  BY <2>5, <2>6
<4>3. r = Nearest(F, s, n)
  BY <2>5, <4>1, <4>2, SearchFinds
<4> QED
  BY <2>5, <4>1, <4>3 DEF Nearest
<3> QED
  BY <3>1, <3>2
<2> HIDE DEF r
<2>8. r \in Int /\ F <= r
  BY <2>5, <2>7
<2>9. /\ EarliestSlashing = FrameStart(r) /\ round_epoch_by_frame(FrameStart(r)) = FrameStart(r)
      /\ FrameStart(r) \in Int
<3>1. get_epoch_by_slot(get_frame_first_slot(r)) = FrameStart(r) /\ get_frame_by_epoch(FrameStart(r)) = r
      /\ FrameStart(r) \in Int
  BY <2>8, EpochsOfFrame, StartsGrow
<3>2. round_epoch_by_frame(FrameStart(r)) = FrameStart(r)
  BY <3>1, FrameOfEpoch
<3> QED
  BY <2>1, <3>1, <3>2
<2>10. EarliestSlashing \in Nat /\ EarliestSlashing >= INITIAL_EPOCH
<3>1. get_frame_by_epoch(INITIAL_EPOCH) <= F
  BY <1>0, <2>3, <2>4, FramesGrow DEF F
<3>2. get_frame_by_epoch(INITIAL_EPOCH) = 0 /\ FrameStart(0) = INITIAL_EPOCH
<4>1. FrameStart(0) = INITIAL_EPOCH
  BY <1>0, ConverterAssumption DEF FrameStart
<4>2. get_frame_by_epoch(FrameStart(0)) = 0
  BY EpochsOfFrame
<4> QED
  BY <4>1, <4>2
<3>3. 0 <= r
  BY <2>5, <2>8, <3>1, <3>2
<3>4. FrameStart(0) <= FrameStart(r)
  BY <2>8, <3>3, StartsGrow
<3> QED
  BY <1>0, <2>9, <3>2, <3>4
<2>11. CASE r = F
<3>1. FrameStart(F) = round_epoch_by_frame(t)
  BY <2>3, FrameOfEpoch DEF F
<3>2. ASSUME NEW v \in Incomplete PROVE round_epoch_by_frame(t) <= round_epoch_by_frame(slashedIn[v])
<4>1. t <= slashedIn[v] /\ slashedIn[v] \in Int /\ t \in Int
  BY <2>3, OpenSlashings
<4> QED
  BY <4>1, FramesGrow
<3> QED
  BY <2>9, <2>10, <2>11, <3>1, <3>2
<2>12. CASE r # F
<3>1. r = s /\ ~(s <= F)
  BY <2>5, <2>7, <2>12
<3>2. start = finalized
<4>1. start <= t => s <= F
  BY <2>3, <2>4, FramesGrow DEF s, F
<4> QED
  BY <2>4, <3>1, <4>1
<3>3. FrameStart(s) <= start
  BY <2>4, FrameOfEpoch DEF s
<3> QED
  BY <2>9, <2>10, <3>1, <3>2, <3>3
<2> QED
  BY <2>11, <2>12
<1> QED
  BY <1>4, <1>5

\* The border of a report in bunker mode.
LEMMA BorderType ==
  ASSUME SlashInv
  PROVE  /\ AssociatedSlashingsBorder \in Int /\ SafeBorder(TRUE) \in Int /\ SafeBorder(FALSE) \in Int
         /\ SafeBorder(TRUE) <= AssociatedSlashingsBorder
<1>1. /\ epoch \in Nat /\ lastReport \in Nat /\ bunkerSince \in Nat /\ INITIAL_EPOCH \in Nat
      /\ Shift \in Nat /\ MaxNegativeRebase \in Nat
  BY SlashConstants DEF SlashInv, SlashTypes
<1>2. DefaultBorder \in Int
  BY <1>1 DEF DefaultBorder
<1>3. NegativeRebaseBorder \in Int
<2>1. BunkerStart \in Nat
  BY <1>1 DEF BunkerStart
<2>2. epoch - MaxNegativeRebase \in Int /\ BunkerStart - Shift \in Int
  BY <1>1, <2>1
<2> QED
  BY <2>2, MaxOfTwo DEF NegativeRebaseBorder
<1>4. AssociatedSlashingsBorder \in Int
<2>1. EarliestSlashing \in Int
<3>1. CASE Incomplete = {}
  BY <3>1 DEF EarliestSlashing
<3>2. CASE Incomplete # {}
  BY <3>2, EarliestIsEarly
<3> QED
  BY <3>1, <3>2
<2>2. round_epoch_by_frame(EarliestSlashing) \in Int
  BY <2>1, FrameOfEpoch, StartsGrow
<2> QED
  BY <1>1, <1>2, <2>2 DEF AssociatedSlashingsBorder
<1>5. SafeBorder(FALSE) = DefaultBorder
      /\ SafeBorder(TRUE) = Min({NegativeRebaseBorder, AssociatedSlashingsBorder})
  BY DEF SafeBorder
<1> QED
  BY <1>2, <1>3, <1>4, <1>5, MinOfTwo

LEMMA SlashInitInv == SlashingsInit => SlashInv
<1> SUFFICES ASSUME SlashingsInit PROVE SlashInv
  OBVIOUS
<1>1. /\ epoch = INITIAL_EPOCH /\ exit = [v \in Validator |-> FarFuture]
      /\ withdrawable = [v \in Validator |-> FarFuture] /\ slashedIn = [v \in Validator |-> FarFuture]
      /\ slashed = [v \in Validator |-> FALSE]
      /\ lastReport = 0 /\ finalized = 0 /\ bunkerSince = FarFuture
  BY DEF SlashingsInit
<1>2. SlashTypes
  BY <1>1, SlashConstants DEF SlashTypes
<1>3. ASSUME NEW v \in Validator PROVE SlashingShows(v)
  BY <1>1 DEF SlashingShows
<1> QED
  BY <1>2, <1>3 DEF SlashInv

\* An exit epoch is before the far future.
LEMMA ExitIsNear ==
  ASSUME SlashInv, NEW v \in Validator, NEW exits \in Queues
  PROVE  /\ ExitEpoch(v, exits) \in Nat /\ ExitEpoch(v, exits) # FarFuture
         /\ exit[v] # FarFuture => ExitEpoch(v, exits) = exit[v]
<1>1. epoch \in Nat /\ epoch <= MaxEpoch /\ exit[v] \in Nat
  BY DEF SlashInv, SlashTypes
<1>2. exits \in Nat /\ exits + 1 < 10 * Vector /\ MaxEpoch \in Nat /\ FarFuture = MaxEpoch + 10 * Vector
      /\ Vector \in Nat
  BY SlashConstants
<1>3. epoch + 1 + exits < FarFuture /\ epoch + 1 + exits \in Nat
  BY <1>1, <1>2
<1> HIDE DEF FarFuture
<1> QED
  BY <1>1, <1>3 DEF ExitEpoch

LEMMA ExitStep ==
  ASSUME SlashInv, NEW v \in Leaving, NEW exits \in Queues, Exit(v, exits)
  PROVE  SlashInv'
<1> DEFINE x == ExitEpoch(v, exits)
<1>1. v \in Validator
  BY SlashingsAssumption
<1>2. x \in Nat /\ x # FarFuture
  BY <1>1, ExitIsNear
<1>3. /\ exit[v] = FarFuture
      /\ exit' = [exit EXCEPT ![v] = x] /\ withdrawable' = [withdrawable EXCEPT ![v] = x + Withdrawability]
      /\ epoch' = epoch /\ slashed' = slashed /\ slashedIn' = slashedIn /\ lastReport' = lastReport
      /\ bunkerSince' = bunkerSince /\ finalized' = finalized
  BY DEF Exit
<1> HIDE DEF x
<1>4. SlashTypes
  BY DEF SlashInv
<1>5. SlashTypes'
  BY <1>1, <1>2, <1>3, <1>4, SlashConstants DEF SlashTypes
<1>6. ASSUME NEW u \in Validator PROVE SlashingShows(u)'
<2>1. SlashingShows(u)
  BY DEF SlashInv
<2>2. CASE u = v
<3>1. ~slashed[v]
  BY <1>3, <2>1, <2>2 DEF SlashingShows
<3>2. exit'[u] = x /\ withdrawable'[u] = x + Withdrawability
  BY <1>1, <1>3, <1>4, <2>2 DEF SlashTypes
<3> QED
  BY <1>3, <2>2, <3>1, <3>2 DEF SlashingShows
<2>3. CASE u # v
<3>1. exit'[u] = exit[u] /\ withdrawable'[u] = withdrawable[u]
  BY <1>3, <1>4, <2>3 DEF SlashTypes
<3> QED
  BY <1>3, <2>1, <3>1 DEF SlashingShows
<2> QED
  BY <2>2, <2>3
<1> QED
  BY <1>5, <1>6 DEF SlashInv

LEMMA SlashStep ==
  ASSUME SlashInv, NEW v \in Validator, NEW exits \in Queues, Slash(v, exits)
  PROVE  SlashInv'
<1> DEFINE x == ExitEpoch(v, exits)
           w == IF exit[v] = FarFuture THEN x + Withdrawability ELSE withdrawable[v]
           z == Max({epoch + Vector, w})
<1>1. x \in Nat /\ x # FarFuture /\ (exit[v] # FarFuture => x = exit[v])
  BY ExitIsNear
<1>2. SlashTypes /\ SlashingShows(v)
  BY DEF SlashInv
<1>3. /\ ~slashed[v] /\ Activation[v] <= epoch /\ exit' = [exit EXCEPT ![v] = x]
      /\ slashed' = [slashed EXCEPT ![v] = TRUE] /\ slashedIn' = [slashedIn EXCEPT ![v] = epoch]
      /\ epoch' = epoch /\ lastReport' = lastReport
      /\ bunkerSince' = bunkerSince /\ finalized' = finalized
  BY DEF Slash
<1>4. exit'[v] = x
  BY <1>2, <1>3 DEF SlashTypes
<1>5. withdrawable' = [withdrawable EXCEPT ![v] = z]
  BY <1>4 DEF Slash
<1>6. w = x + Withdrawability
  BY <1>1, <1>2, <1>3 DEF SlashingShows
<1>7. w \in Nat /\ epoch + Vector \in Nat
  BY <1>1, <1>2, <1>6, SlashConstants DEF SlashTypes
<1>8. z \in Nat /\ epoch + Vector <= z /\ (z = epoch + Vector \/ z = x + Withdrawability)
<2>1. /\ z \in Int /\ z >= epoch + Vector /\ (z = epoch + Vector \/ z = w)
<3>1. w \in Int /\ epoch + Vector \in Int
  BY <1>7
<3> HIDE DEF w
<3> QED
  BY <3>1, MaxOfTwo
<2> HIDE DEF z, w
<2> QED
  BY <1>6, <1>7, <2>1
<1> HIDE DEF x, w, z
<1>9. SlashTypes'
  BY <1>1, <1>2, <1>3, <1>5, <1>8 DEF SlashTypes
<1>10. ASSUME NEW u \in Validator PROVE SlashingShows(u)'
<2>1. SlashingShows(u)
  BY DEF SlashInv
<2>2. CASE u = v
<3>1. /\ exit'[u] = x /\ withdrawable'[u] = z /\ slashed'[u] = TRUE /\ slashedIn'[u] = epoch
  BY <1>2, <1>3, <1>5, <2>2 DEF SlashTypes
<3>2. INITIAL_EPOCH <= epoch /\ epoch <= epoch
  BY <1>2 DEF SlashTypes
<3> QED
  BY <1>1, <1>3, <1>8, <2>2, <3>1, <3>2 DEF SlashingShows
<2>3. CASE u # v
<3>1. /\ exit'[u] = exit[u] /\ withdrawable'[u] = withdrawable[u]
      /\ slashed'[u] = slashed[u] /\ slashedIn'[u] = slashedIn[u]
  BY <1>2, <1>3, <1>5, <2>3 DEF SlashTypes
<3> QED
  BY <1>3, <2>1, <3>1 DEF SlashingShows
<2> QED
  BY <2>2, <2>3
<1> QED
  BY <1>9, <1>10 DEF SlashInv

LEMMA NextEpochStep == ASSUME SlashInv, NextEpoch PROVE SlashInv'
<1>1. /\ epoch < MaxEpoch /\ epoch' = epoch + 1 /\ exit' = exit /\ withdrawable' = withdrawable
      /\ slashed' = slashed /\ slashedIn' = slashedIn /\ lastReport' = lastReport
      /\ bunkerSince' = bunkerSince /\ finalized' = finalized
  BY DEF NextEpoch
<1>2. SlashTypes
  BY DEF SlashInv
<1>3. SlashTypes'
  BY <1>1, <1>2, SlashConstants DEF SlashTypes
<1>4. ASSUME NEW u \in Validator PROVE SlashingShows(u)'
<2>1. SlashingShows(u) /\ slashedIn[u] \in Nat /\ epoch \in Nat
  BY <1>2 DEF SlashInv, SlashTypes
<2> QED
  BY <1>1, <2>1 DEF SlashingShows
<1> QED
  BY <1>3, <1>4 DEF SlashInv

\* What a report finalizes.
LEMMA ReportFinalizes ==
  ASSUME SlashInv, NEW rebase \in Rebases, NEW abnormal \in BOOLEAN, NEW funded \in BOOLEAN,
         Report(rebase, abnormal, funded)
  PROVE  /\ finalized' \in Nat /\ bunker' = IsBunkerMode(rebase, abnormal)
         /\ finalized' > finalized /\ bunker' => finalized' = SafeBorder(TRUE)
<1>1. finalized \in Nat
  BY DEF SlashInv, SlashTypes
<1>2. bunker' = IsBunkerMode(rebase, abnormal) /\ finalized' = Finalizable(bunker', funded)
      /\ bunker' \in BOOLEAN
  BY DEF Report, IsBunkerMode
<1>3. SafeBorder(bunker') \in Int /\ (bunker' => SafeBorder(bunker') = SafeBorder(TRUE))
<2>1. bunker' = TRUE \/ bunker' = FALSE
  BY <1>2
<2> QED
  BY <2>1, BorderType, Zenon
<1>4. finalized' = IF funded THEN Max({finalized, SafeBorder(bunker')}) ELSE finalized
  BY <1>2 DEF Finalizable
<1>5. CASE ~funded
<2>1. finalized' = finalized
  BY <1>4, <1>5
<2>2. ~(finalized' > finalized)
  BY ONLY <2>1, <1>1
<2> QED
  BY <1>1, <1>2, <2>1, <2>2
<1>6. CASE funded
<2> DEFINE sb == SafeBorder(bunker')
<2> DEFINE m == Max({finalized, sb})
<2>1. finalized' = m
  BY <1>4, <1>6
<2>2. finalized \in Int /\ sb \in Int
  BY <1>1, <1>3
<2>3. bunker' => sb = SafeBorder(TRUE)
  BY <1>3
<2> HIDE DEF sb
<2>4. m \in Int /\ m >= finalized /\ (m = finalized \/ m = sb)
  BY <2>2, MaxOfTwo
<2> HIDE DEF m
<2>5. finalized' \in Nat /\ (finalized' > finalized => finalized' = sb)
  BY ONLY <1>1, <2>1, <2>4
<2> QED
  BY ONLY <1>2, <2>3, <2>5
<1> QED
  BY <1>5, <1>6

LEMMA ReportStep ==
  ASSUME SlashInv, NEW rebase \in Rebases, NEW abnormal \in BOOLEAN, NEW funded \in BOOLEAN,
         Report(rebase, abnormal, funded)
  PROVE  SlashInv'
<1>1. /\ epoch' = epoch /\ exit' = exit /\ withdrawable' = withdrawable
      /\ slashed' = slashed /\ slashedIn' = slashedIn /\ lastReport' = epoch
      /\ bunkerSince' \in {FarFuture, lastReport, bunkerSince}
  BY DEF Report, beacon
<1>2. finalized' \in Nat
  BY ReportFinalizes
<1>3. SlashTypes
  BY DEF SlashInv
<1>4. SlashTypes'
  BY <1>1, <1>2, <1>3, SlashConstants DEF SlashTypes
<1>5. ASSUME NEW u \in Validator PROVE SlashingShows(u)'
  BY <1>1 DEF SlashInv, SlashingShows
<1> QED
  BY <1>4, <1>5 DEF SlashInv

LEMMA SlashInvariant == SlashingsSpec => []SlashInv
<1>1. SlashInv /\ [SlashingsNext]_slashVars => SlashInv'
<2> SUFFICES ASSUME SlashInv, [SlashingsNext]_slashVars PROVE SlashInv'
  OBVIOUS
<2>1. ASSUME NEW v \in Leaving, NEW exits \in Queues, Exit(v, exits) PROVE SlashInv'
  BY <2>1, ExitStep
<2>2. ASSUME NEW v \in Validator, NEW exits \in Queues, Slash(v, exits) PROVE SlashInv'
  BY <2>2, SlashStep
<2>3. ASSUME NEW rebase \in Rebases, NEW abnormal \in BOOLEAN, NEW funded \in BOOLEAN,
             Report(rebase, abnormal, funded)
      PROVE  SlashInv'
  BY <2>3, ReportStep
<2>4. CASE NextEpoch
  BY <2>4, NextEpochStep
<2>5. CASE UNCHANGED slashVars
  BY <2>5 DEF slashVars, beacon, SlashInv, SlashTypes, SlashingShows
<2> QED
  BY <2>1, <2>2, <2>3, <2>4, <2>5 DEF SlashingsNext
<1> QED
  BY <1>1, SlashInitInv, PTL DEF SlashingsSpec

\* safe_border.py:110-124, 150-207: in bunker mode no withdrawal request is finalized that was made in
\* the frame of a slashing still open, or later, though the search sees slashings of whole frames
\* only and no epoch of them: unless the chain of reports begins with epoch 0, which is taken
\* for no slashing at all.
THEOREM SlashingsSpareNobody ==
  ASSUME INITIAL_EPOCH # 0
  PROVE  SlashingsSpec => SlashingsAreSocialized
<1>1. SlashInv /\ [SlashingsNext]_slashVars =>
        (finalized' > finalized /\ bunker' =>
           \A v \in Incomplete : finalized' + Shift <= round_epoch_by_frame(slashedIn[v]))
<2> SUFFICES ASSUME SlashInv, [SlashingsNext]_slashVars, finalized' > finalized, bunker',
                    NEW v \in Incomplete
             PROVE  finalized' + Shift <= round_epoch_by_frame(slashedIn[v])
  OBVIOUS
<2>1. finalized \in Nat /\ Shift \in Nat /\ INITIAL_EPOCH \in Nat
  BY SlashConstants DEF SlashInv, SlashTypes
<2>2. PICK rebase \in Rebases, abnormal \in BOOLEAN, funded \in BOOLEAN :
        Report(rebase, abnormal, funded)
<3>1. finalized' # finalized
  BY <2>1
<3> QED
  BY <3>1 DEF SlashingsNext, slashVars, Exit, Slash, NextEpoch
<2>3. finalized' \in Nat /\ finalized' = SafeBorder(TRUE) /\ SafeBorder(TRUE) <= AssociatedSlashingsBorder
      /\ AssociatedSlashingsBorder \in Int
  BY <2>2, ReportFinalizes, BorderType
<2>4. EarliestSlashing \in Nat /\ EarliestSlashing >= INITIAL_EPOCH
      /\ \/ round_epoch_by_frame(EarliestSlashing) <= finalized
         \/ round_epoch_by_frame(EarliestSlashing) <= round_epoch_by_frame(slashedIn[v])
  BY EarliestIsEarly
<2>5. AssociatedSlashingsBorder = round_epoch_by_frame(EarliestSlashing) - Shift
<3>1. EarliestSlashing # 0
  BY <2>1, <2>4
<3> QED
  BY <3>1 DEF AssociatedSlashingsBorder
<2>6. /\ round_epoch_by_frame(EarliestSlashing) \in Int
      /\ round_epoch_by_frame(slashedIn[v]) \in Int
<3>1. EarliestSlashing \in Int /\ slashedIn[v] \in Int
  BY <2>4, OpenSlashings
<3> QED
  BY <3>1, FrameOfEpoch, StartsGrow
<2> DEFINE found == round_epoch_by_frame(EarliestSlashing)
<2> DEFINE open == round_epoch_by_frame(slashedIn[v])
<2> DEFINE border == AssociatedSlashingsBorder
<2> DEFINE safe == SafeBorder(TRUE)
<2>7. /\ finalized \in Nat /\ finalized' \in Nat /\ Shift \in Nat /\ finalized' > finalized
      /\ found \in Int /\ open \in Int /\ border \in Int
      /\ finalized' = safe /\ safe <= border /\ border = found - Shift
      /\ found <= finalized \/ found <= open
  BY <2>1, <2>3, <2>4, <2>5, <2>6
<2> HIDE DEF found, border, safe, open
<2>8. finalized' + Shift <= open
  BY ONLY <2>7
<2> QED
  BY <2>8 DEF open
<1> QED
  BY <1>1, SlashInvariant, PTL DEF SlashingsSpec, SlashingsAreSocialized

-----------------------------------------------------------------------------
(* Midterm penalties *)

LEMMA TimesGrows ==
  ASSUME NEW a \in Int, NEW b \in Int, NEW n \in Nat, a <= b
  PROVE  a * n \in Int /\ b * n \in Int /\ a * n <= b * n
<1>1. b - a \in Nat /\ (b - a) * n \in Nat /\ (b - a) * n = b * n - a * n
  OBVIOUS
<1>2. a * n \in Int /\ b * n \in Int
  OBVIOUS
<1> QED
  BY <1>1, <1>2

LEMMA QuotientGrows ==
  ASSUME NEW a \in Nat, NEW b \in Nat, a <= b, NEW n \in Nat \ {0}
  PROVE  a \div n <= b \div n
<1> DEFINE p == a \div n
           q == b \div n
<1>1. /\ p \in Nat /\ p * n <= a
      /\ q \in Nat /\ b < q * n + n
  BY Quotient
<1> HIDE DEF p, q
<1>2. q < p => q * n + n <= p * n
  BY <1>1, Multiples
<1>3. p * n \in Int /\ q * n \in Int
  BY <1>1
<1>4. p <= q
  BY <1>1, <1>2, <1>3
<1> QED
  BY <1>4 DEF p, q

\* A penalty is no more than the balance, and grows with the slashings.
LEMMA PenaltyFacts ==
  ASSUME NEW v \in Validator, NEW s \in Nat, NEW t \in Nat, s <= t, NEW total \in Nat \ {0}
  PROVE  /\ Penalty(v, s, total) \in Nat /\ Penalty(v, t, total) \in Nat
         /\ Penalty(v, s, total) <= Penalty(v, t, total)
         /\ Penalty(v, t, total) <= Unit * Increments[v]
<1>1. Unit \in Nat /\ Increments[v] \in Nat
  BY SlashingsAssumption
<1> DEFINE m == Min({3 * s, total})
           n == Min({3 * t, total})
           p == (m * Unit) \div total
           q == (n * Unit) \div total
<1>2. m \in Nat /\ n \in Nat /\ m <= n /\ n <= total
<2>1. 3 * s \in Int /\ 3 * t \in Int /\ total \in Int /\ 3 * s >= 0 /\ 3 * t >= 3 * s
  OBVIOUS
<2>2. /\ m \in Int /\ m <= 3 * s /\ m <= total /\ (m = 3 * s \/ m = total)
      /\ n \in Int /\ n <= 3 * t /\ n <= total /\ (n = 3 * t \/ n = total)
  BY <2>1, MinOfTwo
<2> HIDE DEF m, n
<2> QED
  BY <2>1, <2>2
<1> HIDE DEF m, n
<1>3. m * Unit \in Nat /\ n * Unit \in Nat /\ m * Unit <= n * Unit
  BY <1>1, <1>2, TimesGrows
<1>4. p \in Nat /\ q \in Nat /\ p <= q
  BY <1>3, Quotient, QuotientGrows
<1>5. q <= Unit
<2>1. n * Unit <= total * Unit
  BY <1>1, <1>2, TimesGrows
<2>2. total * Unit = Unit * total /\ Unit * total \in Nat
  BY <1>1
<2>3. q <= (Unit * total) \div total
  BY <1>3, <2>1, <2>2, QuotientGrows
<2> QED
  BY <1>1, <2>3, DivOfProduct
<1> HIDE DEF p, q
<1>6. /\ p * Increments[v] \in Nat /\ q * Increments[v] \in Nat
      /\ p * Increments[v] <= q * Increments[v]
      /\ q * Increments[v] <= Unit * Increments[v]
  BY <1>1, <1>4, <1>5, TimesGrows
<1>7. /\ Penalty(v, s, total) = p * Increments[v]
      /\ Penalty(v, t, total) = q * Increments[v]
  BY DEF Penalty, p, q, m, n
<1> QED
  BY <1>6, <1>7

LEMMA BalanceType ==
  ASSUME NEW e
  PROVE  TotalBalance(e) \in Nat \ {0}
<1> DEFINE sum == SumOf(Increments, ActiveAt(e))
<1>1. IsFiniteSet(ActiveAt(e)) /\ \A v \in ActiveAt(e) : Increments[v] \in Nat
  BY SlashingsAssumption, FS_Subset DEF ActiveAt
<1>2. sum \in Nat
  BY <1>1, SumFacts DEF SumOf
<1>3. TotalBalance(e) = Max({1, sum})
  BY DEF TotalBalance
<1> HIDE DEF sum
<1> DEFINE max == Max({1, sum})
<1>4. max \in Int /\ max >= 1
<2>1. 1 \in Int /\ sum \in Int
  BY <1>2
<2> QED
  BY <2>1, MaxOfTwo
<1> HIDE DEF max
<1>5. max \in Nat \ {0}
  BY <1>4
<1> QED
  BY <1>3, <1>5 DEF max

-----------------------------------------------------------------------------
(* The ring of slashings *)

RingOK == slashings \in [0 .. Vector - 1 -> Nat]

\* Epochs in a row as many as the ring has buckets use all of them.
LEMMA AllBuckets ==
  ASSUME NEW r \in Nat, NEW j \in 0 .. Vector - 1
  PROVE  \E i \in r + 1 .. r + Vector : i % Vector = j
<1>1. Vector \in Nat \ {0}
  BY SlashConstants
<1> DEFINE q == r \div Vector
<1>2. q \in Nat /\ q * Vector <= r /\ r < q * Vector + Vector
  BY <1>1, Quotient
<1> HIDE DEF q
<1>3. ASSUME NEW k \in Nat PROVE (k * Vector + j) % Vector = j
<2> DEFINE x == k * Vector + j
           d == x \div Vector
<2>1. x \in Nat /\ k * Vector \in Nat
  BY <1>1
<2>2. /\ d \in Nat /\ d * Vector <= x /\ x < d * Vector + Vector
  BY <1>1, <2>1, Quotient
<2>3. x % Vector = x - d * Vector
<3> HIDE DEF x
<3>1. x = Vector * (x \div Vector) + (x % Vector)
  BY <1>1, <2>1
<3>2. Vector * d = d * Vector
  BY <1>1, <2>2
<3>3. x % Vector \in Int
  BY <1>1, <2>1
<3> DEFINE y == x % Vector
           z == d * Vector
<3>4. z \in Int
  BY <1>1, <2>2
<3>5. x = z + y
  BY <3>1, <3>2
<3> HIDE DEF d, y, z
<3>6. y = x - z
  BY <2>1, <3>3, <3>4, <3>5 DEF y
<3> QED
  BY <3>6 DEF y, z
<2> HIDE DEF d
<2>4. /\ k < d => k * Vector + Vector <= d * Vector
      /\ d < k => d * Vector + Vector <= k * Vector
  BY <1>1, <2>2, Multiples
<2>5. d * Vector \in Int
  BY <1>1, <2>2
<2>6. d = k
  BY <1>1, <2>1, <2>2, <2>4, <2>5
<2> QED
  BY <2>1, <2>3, <2>6
<1>4. CASE q * Vector + j > r
<2>1. q * Vector \in Nat
  BY <1>1, <1>2
<2>2. q * Vector + j \in r + 1 .. r + Vector
  BY <1>1, <1>2, <1>4, <2>1
<2> QED
  BY <1>2, <1>3, <2>2
<1>5. CASE ~(q * Vector + j > r)
<2>1. q * Vector \in Nat /\ (q + 1) * Vector = q * Vector + Vector
  BY <1>1, <1>2
<2>2. (q + 1) * Vector + j \in r + 1 .. r + Vector
  BY <1>1, <1>2, <1>5, <2>1
<2>3. q + 1 \in Nat
  BY <1>2
<2> QED
  BY <1>3, <2>2, <2>3
<1> QED
  BY <1>4, <1>5

\* A set of buckets, and the rest.
LEMMA SumOfSubset ==
  ASSUME NEW S, IsFiniteSet(S), NEW T \in SUBSET S, NEW f, \A x \in S : f[x] \in Nat
  PROVE  /\ SumOf(f, S) = SumOf(f, T) + SumOf(f, S \ T)
         /\ SumOf(f, S) \in Nat /\ SumOf(f, T) \in Nat /\ SumOf(f, S \ T) \in Nat
         /\ SumOf(f, T) <= SumOf(f, S)
         /\ (\A x \in T : f[x] = 0) => SumOf(f, T) = 0
<1>1. IsFiniteSet(T) /\ IsFiniteSet(S \ T)
  BY FS_Subset, FS_Difference
<1>2. /\ \A x \in T : f[x] \in Nat /\ f[x] \in Int
      /\ \A x \in S \ T : f[x] \in Nat /\ f[x] \in Int
  OBVIOUS
<1>3. SumOf(f, S) \in Nat /\ SumOf(f, T) \in Nat /\ SumOf(f, S \ T) \in Nat
  BY <1>1, <1>2, SumFacts DEF SumOf
<1>4. SumFunctionOnSet(f, T) + SumFunctionOnSet(f, S \ T) = SumFunctionOnSet(f, S)
<2>1. /\ S \ T \in SUBSET S /\ T \cap (S \ T) = {}
      /\ \A x \in S : f[x] = IF x \in T THEN f[x] ELSE IF x \in S \ T THEN f[x] ELSE 0
  OBVIOUS
<2> QED
  BY <1>2, <2>1, SumOfParts
<1>5. (\A x \in T : f[x] = 0) => SumOf(f, T) = 0
  BY <1>1, <1>2, SumOfNats DEF SumOf
<1>6. SumOf(f, T) + SumOf(f, S \ T) = SumOf(f, S)
  BY <1>4 DEF SumOf
<1> QED
  BY <1>3, <1>5, <1>6

\* What a prediction leaves of a ring of slashings.
Overwritten(midterm, ref) == {i % Vector : i \in (ref + 1) .. (midterm - 1)}
CutOf(ring, midterm, ref) ==
  IF midterm - ref > Vector THEN 0 ELSE SumOf(ring, (0 .. Vector - 1) \ Overwritten(midterm, ref))

LEMMA CutIs ==
  ASSUME RingOK, NEW midterm, NEW ref
  PROVE  CutSlashings(midterm, ref) = CutOf(slashings, midterm, ref)
BY DEF CutSlashings, CutOf, RingOK, Overwritten

LEMMA CutShrinks ==
  ASSUME NEW ring \in [0 .. Vector - 1 -> Nat], NEW less \in [0 .. Vector - 1 -> Nat],
         \A i \in 0 .. Vector - 1 : less[i] <= ring[i],
         NEW midterm, NEW ref
  PROVE  /\ CutOf(ring, midterm, ref) \in Nat /\ CutOf(less, midterm, ref) \in Nat
         /\ CutOf(less, midterm, ref) <= CutOf(ring, midterm, ref)
<1> DEFINE S == (0 .. Vector - 1) \ Overwritten(midterm, ref)
<1>1. IsFiniteSet(S)
<2>1. IsFiniteSet(0 .. Vector - 1)
  BY SlashConstants, FS_Interval
<2> QED
  BY <2>1, FS_Difference
<1>2. \A i \in S : ring[i] \in Nat /\ less[i] \in Nat /\ ring[i] \in Int /\ less[i] \in Int
                   /\ less[i] <= ring[i]
  OBVIOUS
<1>3. /\ CutOf(ring, midterm, ref) = IF midterm - ref > Vector THEN 0 ELSE SumOf(ring, S)
      /\ CutOf(less, midterm, ref) = IF midterm - ref > Vector THEN 0 ELSE SumOf(less, S)
  BY DEF CutOf
<1> HIDE DEF S
<1>4. SumOf(ring, S) \in Nat /\ SumOf(less, S) \in Nat
  BY <1>1, <1>2, SumFacts DEF SumOf
<1>5. SumOf(less, S) <= SumOf(ring, S)
  BY <1>1, <1>2, SumGrows DEF SumOf
<1> QED
  BY <1>3, <1>4, <1>5

\* At the midterm epoch a ring without new slashings holds what was left of it, or less.
LEMMA CutIsAll ==
  ASSUME NEW ring \in [0 .. Vector - 1 -> Nat], NEW ref \in Nat, NEW midterm \in Int,
         \A i \in ref + 1 .. midterm : ring[i % Vector] = 0
  PROVE  /\ SumOf(ring, 0 .. Vector - 1) \in Nat
         /\ SumOf(ring, 0 .. Vector - 1) <= CutOf(ring, midterm, ref)
<1> DEFINE all == 0 .. Vector - 1
<1>1. IsFiniteSet(all) /\ \A i \in all : ring[i] \in Nat
<2>1. IsFiniteSet(all)
  BY SlashConstants, FS_Interval
<2> QED
  BY <2>1
<1>2. Vector \in Nat \ {0}
  BY SlashConstants
<1>3. CASE midterm - ref > Vector
<2>1. \A j \in all : ring[j] = 0
<3> SUFFICES ASSUME NEW j \in 0 .. Vector - 1 PROVE ring[j] = 0
  OBVIOUS
<3>1. PICK i \in ref + 1 .. ref + Vector : i % Vector = j
  BY AllBuckets
<3>2. i \in ref + 1 .. midterm
  BY <1>2, <1>3
<3> QED
  BY <3>1, <3>2
<2> HIDE DEF all
<2>2. all \in SUBSET all
  OBVIOUS
<2>3. SumOf(ring, all) = 0
  BY <1>1, <2>1, <2>2, SumOfSubset
<2>4. CutOf(ring, midterm, ref) = 0
  BY <1>3 DEF CutOf
<2> QED
  BY <2>3, <2>4 DEF all
<1>4. CASE ~(midterm - ref > Vector)
<2> DEFINE gone == all \cap Overwritten(midterm, ref)
<2>1. \A j \in gone : ring[j] = 0
<3> SUFFICES ASSUME NEW j \in Overwritten(midterm, ref) PROVE ring[j] = 0
  OBVIOUS
<3>1. PICK i \in ref + 1 .. midterm - 1 : i % Vector = j
  BY DEF Overwritten
<3>2. i \in ref + 1 .. midterm
  OBVIOUS
<3> QED
  BY <3>1, <3>2
<2>2. gone \in SUBSET all /\ all \ gone = all \ Overwritten(midterm, ref)
  OBVIOUS
<2>3. CutOf(ring, midterm, ref) = SumOf(ring, all \ gone)
  BY <1>4, <2>2 DEF CutOf
<2> HIDE DEF all, gone
<2>4. /\ SumOf(ring, all) = SumOf(ring, gone) + SumOf(ring, all \ gone)
      /\ SumOf(ring, all \ gone) \in Nat /\ SumOf(ring, gone) = 0
  BY <1>1, <2>1, <2>2, SumOfSubset
<2> QED
  BY <2>3, <2>4 DEF all
<1> QED
  BY <1>3, <1>4

-----------------------------------------------------------------------------
(* What a report predicts *)

\* As long as nobody is slashed, the validators whose midterm was ahead of the last report.
Expected == {v \in Lido : slashed[v] /\ MidtermEpoch(v) > lastReport}
ExpectedIn(frame) == {v \in Expected : get_frame_by_epoch(MidtermEpoch(v)) = frame}
ExpectedBefore(e, frame) == {v \in ExpectedIn(frame) : MidtermEpoch(v) < e}

PenaltyAhead(v) ==
  Penalty(v, CutSlashings(MidtermEpoch(v), lastReport), TotalBalance(epoch))

\* What was predicted is no less than what is still ahead, and what was taken in the frame is
\* no more than was predicted for it.
PredictionHolds ==
  /\ lastReport <= epoch
  /\ \A i \in lastReport + 1 .. epoch : slashings[i % Vector] = 0
  /\ foreseen \in [Expected -> Nat]
  /\ \A v \in Expected : epoch <= MidtermEpoch(v) => PenaltyAhead(v) <= foreseen[v]
  /\ IF epoch = lastReport THEN get_frame_by_epoch(epoch + 1) # get_frame_by_epoch(epoch)
     ELSE taken <= SumOf(foreseen, ExpectedBefore(epoch, get_frame_by_epoch(epoch)))
  /\ cover \in Int /\ \A frame \in Int : SumOf(foreseen, ExpectedIn(frame)) <= cover

MidtermInv == RingOK /\ taken \in Nat /\ (quiet => PredictionHolds)

LEMMA LidoIsFinite == IsFiniteSet(Lido) /\ Lido \in SUBSET Validator
BY SlashingsAssumption, FS_Subset DEF Validator

LEMMA MidtermType ==
  ASSUME SlashInv, NEW v \in Validator
  PROVE  MidtermEpoch(v) \in Int
<1>1. withdrawable[v] \in Int /\ Vector \div 2 \in Int
  BY SlashConstants DEF SlashInv, SlashTypes
<1> QED
  BY <1>1 DEF MidtermEpoch

\* At its midterm epoch the chain takes no more from a validator than was predicted.
LEMMA MidtermIsForeseen ==
  ASSUME SlashInv, MidtermInv, quiet, NEW v \in Expected, MidtermEpoch(v) = epoch
  PROVE  ChainPenalty(v) \in Nat /\ ChainPenalty(v) <= foreseen[v]
<1>1. PredictionHolds /\ RingOK
  BY DEF MidtermInv
<1>2. PenaltyAhead(v) <= foreseen[v] /\ foreseen[v] \in Nat
<2>1. epoch \in Nat /\ foreseen \in [Expected -> Nat]
  BY <1>1 DEF PredictionHolds, SlashInv, SlashTypes
<2>2. epoch <= MidtermEpoch(v)
  BY <2>1
<2> QED
  BY <1>1, <2>1, <2>2 DEF PredictionHolds
<1> DEFINE all == SumOf(slashings, 0 .. Vector - 1)
           cut == CutOf(slashings, epoch, lastReport)
           total == TotalBalance(epoch)
<1>3. all \in Nat /\ all <= cut
<2>1. slashings \in [0 .. Vector - 1 -> Nat] /\ lastReport \in Nat /\ epoch \in Int
      /\ \A i \in lastReport + 1 .. epoch : slashings[i % Vector] = 0
  BY <1>1 DEF PredictionHolds, RingOK, SlashInv, SlashTypes
<2> QED
  BY <2>1, CutIsAll
<1>4. cut \in Nat
<2>1. slashings \in [0 .. Vector - 1 -> Nat] /\ \A i \in 0 .. Vector - 1 : slashings[i] <= slashings[i]
  BY <1>1 DEF RingOK
<2> QED
  BY <2>1, CutShrinks
<1>5. total \in Nat \ {0}
  BY BalanceType
<1>6. ChainPenalty(v) = Penalty(v, all, total)
  BY <1>1 DEF ChainPenalty, RingOK
<1>7. PenaltyAhead(v) = Penalty(v, cut, total)
<2>1. CutSlashings(epoch, lastReport) = cut
  BY <1>1, CutIs
<2> QED
  BY <2>1 DEF PenaltyAhead
<1>8. v \in Validator
  BY DEF Expected, Validator
<1> HIDE DEF all, cut, total
<1>9. /\ Penalty(v, all, total) \in Nat /\ Penalty(v, cut, total) \in Nat
      /\ Penalty(v, all, total) <= Penalty(v, cut, total)
  BY <1>3, <1>4, <1>5, <1>8, PenaltyFacts
<1> QED
  BY <1>2, <1>6, <1>7, <1>9

LEMMA DueType ==
  ASSUME SlashInv, RingOK
  PROVE  Due \in Nat
<1> DEFINE f == [v \in Lido |-> ChainPenalty(v)]
           S == {v \in Lido : slashed[v] /\ MidtermEpoch(v) = epoch}
           all == SumOf(slashings, DOMAIN slashings)
           total == TotalBalance(epoch)
<1>1. all \in Nat
<2>1. IsFiniteSet(0 .. Vector - 1) /\ DOMAIN slashings = 0 .. Vector - 1
  BY SlashConstants, FS_Interval DEF RingOK
<2>2. \A i \in 0 .. Vector - 1 : slashings[i] \in Nat
  BY DEF RingOK
<2> QED
  BY <2>1, <2>2, SumFacts DEF SumOf
<1>2. total \in Nat \ {0}
  BY BalanceType
<1>3. ASSUME NEW v \in Lido PROVE f[v] \in Nat
<2>1. v \in Validator /\ f[v] = Penalty(v, all, total)
  BY DEF ChainPenalty, Validator
<2> HIDE DEF f, all, total
<2>2. all <= all
  BY <1>1
<2>3. Penalty(v, all, total) \in Nat
  BY <1>1, <1>2, <2>1, <2>2, PenaltyFacts
<2> QED
  BY <2>1, <2>3
<1>4. Due = SumOf(f, S)
  BY DEF Due
<1>5. IsFiniteSet(S) /\ \A v \in S : v \in Lido
  BY LidoIsFinite, FS_Subset
<1> HIDE DEF f, S
<1> QED
  BY <1>3, <1>4, <1>5, SumFacts DEF SumOf

\* With the penalties of this epoch, too, no more is taken in the frame than was predicted.
LEMMA DueIsForeseen ==
  ASSUME SlashInv, MidtermInv, quiet, epoch # lastReport
  PROVE  /\ IsFiniteSet(ExpectedIn(get_frame_by_epoch(epoch)))
         /\ taken + Due <= SumOf(foreseen, ExpectedBefore(epoch + 1, get_frame_by_epoch(epoch)))
<1> DEFINE frame == get_frame_by_epoch(epoch)
           S == {v \in Lido : slashed[v] /\ MidtermEpoch(v) = epoch}
           A == ExpectedBefore(epoch, frame)
           B == ExpectedBefore(epoch + 1, frame)
           f == [v \in Lido |-> ChainPenalty(v)]
<1>1. epoch \in Nat /\ lastReport \in Nat /\ epoch > lastReport /\ PredictionHolds /\ taken \in Nat
      /\ RingOK
  BY DEF MidtermInv, PredictionHolds, SlashInv, SlashTypes
<1>2. ASSUME NEW v \in S PROVE v \in Expected /\ v \in B /\ v \notin A
  BY <1>1 DEF Expected, ExpectedBefore, ExpectedIn
<1>3. ASSUME NEW v \in B, v \notin A PROVE v \in S
<2>1. MidtermEpoch(v) \in Int
  BY MidtermType DEF ExpectedBefore, ExpectedIn, Expected, Validator
<2> QED
  BY <1>1, <1>3, <2>1 DEF ExpectedBefore, ExpectedIn, Expected
<1>4. A \in SUBSET B
<2>1. ASSUME NEW v \in A PROVE v \in B
<3>1. MidtermEpoch(v) \in Int
  BY MidtermType DEF ExpectedBefore, ExpectedIn, Expected, Validator
<3> QED
  BY <1>1, <3>1 DEF ExpectedBefore, ExpectedIn, Expected
<2> QED
  BY <2>1
<1>5. B \ A = S
  BY <1>2, <1>3
<1>6. /\ IsFiniteSet(B) /\ IsFiniteSet(S) /\ IsFiniteSet(ExpectedIn(frame))
      /\ \A v \in B : foreseen[v] \in Nat
<2>1. B \in SUBSET Lido /\ S \in SUBSET Lido /\ ExpectedIn(frame) \in SUBSET Lido
  BY DEF ExpectedBefore, ExpectedIn, Expected
<2>2. \A v \in B : v \in Expected
  BY DEF ExpectedBefore, ExpectedIn
<2>3. foreseen \in [Expected -> Nat]
  BY <1>1 DEF PredictionHolds
<2> QED
  BY <2>1, <2>2, <2>3, LidoIsFinite, FS_Subset
<1>7. \A v \in S : f[v] \in Int /\ foreseen[v] \in Int /\ f[v] <= foreseen[v]
<2> SUFFICES ASSUME NEW v \in S
             PROVE  f[v] \in Int /\ foreseen[v] \in Int /\ f[v] <= foreseen[v]
  OBVIOUS
<2>1. ChainPenalty(v) \in Nat /\ ChainPenalty(v) <= foreseen[v]
  BY <1>2, MidtermIsForeseen
<2>2. f[v] = ChainPenalty(v)
  OBVIOUS
<2>3. foreseen[v] \in Nat
  BY <1>2, <1>6
<2> QED
  BY <2>1, <2>2, <2>3
<1>8. Due = SumOf(f, S)
  BY DEF Due
<1>9. taken <= SumOf(foreseen, A)
  BY <1>1 DEF PredictionHolds
<1> HIDE DEF f, S, A, B
<1>10. SumOf(f, S) <= SumOf(foreseen, S) /\ SumOf(f, S) \in Int
  BY <1>6, <1>7, SumGrows DEF SumOf
<1>11. /\ SumOf(foreseen, B) = SumOf(foreseen, A) + SumOf(foreseen, S)
       /\ SumOf(foreseen, A) \in Nat /\ SumOf(foreseen, S) \in Nat
  BY <1>4, <1>5, <1>6, SumOfSubset
<1>12. taken + Due <= SumOf(foreseen, B)
  BY <1>1, <1>8, <1>9, <1>10, <1>11
<1> QED
  BY <1>6, <1>12 DEF B, frame

\* midterm_slashing_penalty.py: the invariant is what the properties ask for.
LEMMA ForeseenIsEnough ==
  SlashInv /\ MidtermInv => PenaltiesAreForeseen
<1> SUFFICES ASSUME SlashInv, MidtermInv PROVE PenaltiesAreForeseen
  OBVIOUS
<1>1. PenaltiesAreNotUnderestimated
<2> SUFFICES ASSUME NEW v \in DOMAIN foreseen, quiet, epoch = MidtermEpoch(v)
             PROVE  foreseen[v] >= ChainPenalty(v)
  BY DEF PenaltiesAreNotUnderestimated
<2>1. v \in Expected /\ foreseen[v] \in Nat
  BY DEF MidtermInv, PredictionHolds
<2>2. ChainPenalty(v) \in Nat /\ ChainPenalty(v) <= foreseen[v]
  BY <2>1, MidtermIsForeseen
<2> QED
  BY <2>1, <2>2
<1>2. PenaltiesAreAnnounced
<2> SUFFICES ASSUME quiet, epoch > lastReport PROVE taken + Due <= cover
  BY DEF PenaltiesAreAnnounced
<2> DEFINE frame == get_frame_by_epoch(epoch)
           S == ExpectedIn(frame)
           T == ExpectedBefore(epoch + 1, frame)
<2>1. epoch \in Nat /\ lastReport \in Nat /\ PredictionHolds /\ taken \in Nat /\ RingOK
  BY DEF MidtermInv, SlashInv, SlashTypes
<2>2. taken + Due <= SumOf(foreseen, T) /\ IsFiniteSet(S)
  BY <2>1, DueIsForeseen
<2>3. T \in SUBSET S /\ \A v \in S : v \in Expected
  BY DEF ExpectedBefore, ExpectedIn
<2>4. frame \in Int
  BY <2>1, FrameOfEpoch
<2>5. SumOf(foreseen, S) <= cover /\ cover \in Int
  BY <2>1, <2>4 DEF PredictionHolds
<2>6. \A v \in S : foreseen[v] \in Nat
  BY <2>1, <2>3 DEF PredictionHolds
<2>7. Due \in Nat
  BY <2>1, DueType
<2> HIDE DEF S, T
<2>8. SumOf(foreseen, T) <= SumOf(foreseen, S) /\ SumOf(foreseen, T) \in Nat /\ SumOf(foreseen, S) \in Nat
  BY <2>2, <2>3, <2>6, SumOfSubset
<2> QED
  BY <2>1, <2>2, <2>5, <2>7, <2>8
<1> QED
  BY <1>1, <1>2 DEF PenaltiesAreForeseen

\* The slashed validators stay as they are.
LEMMA SlashedStay ==
  ASSUME \A u \in Lido : slashed[u]' = slashed[u] /\ (slashed[u] => withdrawable[u]' = withdrawable[u]),
         lastReport' = lastReport
  PROVE  /\ Expected' = Expected
         /\ \A u \in Expected : MidtermEpoch(u)' = MidtermEpoch(u)
<1>1. \A u \in Lido : slashed[u] => MidtermEpoch(u)' = MidtermEpoch(u)
  BY DEF MidtermEpoch
<1> QED
  BY <1>1 DEF Expected

LEMMA MidtermStarts == SlashingsInit => MidtermInv
<1> SUFFICES ASSUME SlashingsInit PROVE MidtermInv
  OBVIOUS
<1>1. slashings = [i \in 0 .. Vector - 1 |-> 0] /\ quiet = FALSE /\ taken = 0
  BY DEF SlashingsInit
<1> QED
  BY <1>1 DEF MidtermInv, RingOK

LEMMA ExitKeepsBalance ==
  ASSUME SlashInv, NEW v \in Leaving, NEW exits \in Queues, Exit(v, exits)
  PROVE  TotalBalance(epoch)' = TotalBalance(epoch)
<1>1. v \in Validator /\ SlashTypes
  BY SlashingsAssumption DEF SlashInv
<1>2. exit[v] = FarFuture /\ epoch' = epoch /\ exit' = [exit EXCEPT ![v] = epoch + 1 + exits]
  BY DEF Exit, ExitEpoch
<1>3. epoch < FarFuture /\ epoch < epoch + 1 + exits /\ exits \in Nat /\ epoch \in Nat
  BY <1>1, SlashConstants DEF SlashTypes
<1>4. \A u \in Validator : epoch < exit'[u] <=> epoch < exit[u]
<2> SUFFICES ASSUME NEW u \in Validator PROVE epoch < exit'[u] <=> epoch < exit[u]
  OBVIOUS
<2>1. CASE u = v
<3>1. exit'[u] = epoch + 1 + exits
  BY <1>1, <1>2, <2>1 DEF SlashTypes
<3> HIDE DEF FarFuture
<3> QED
  BY <1>2, <1>3, <2>1, <3>1
<2>2. CASE u # v
  BY <1>1, <1>2, <2>2 DEF SlashTypes
<2> QED
  BY <2>1, <2>2
<1>5. ActiveAt(epoch)' = ActiveAt(epoch)
  BY <1>2, <1>4 DEF ActiveAt
<1> QED
  BY <1>5 DEF TotalBalance

LEMMA MidtermExit ==
  ASSUME SlashInv, MidtermInv, NEW v \in Leaving, NEW exits \in Queues, Exit(v, exits)
  PROVE  MidtermInv'
<1>1. /\ epoch' = epoch /\ slashed' = slashed /\ slashings' = slashings /\ lastReport' = lastReport
      /\ foreseen' = foreseen /\ quiet' = quiet /\ cover' = cover /\ taken' = taken
      /\ exit[v] = FarFuture
      /\ withdrawable' = [withdrawable EXCEPT ![v] = ExitEpoch(v, exits) + Withdrawability]
  BY DEF Exit
<1>2. RingOK' /\ taken' \in Nat
  BY <1>1 DEF MidtermInv, RingOK
<1>3. ASSUME quiet' PROVE PredictionHolds'
<2>1. PredictionHolds
  BY <1>1, <1>3 DEF MidtermInv
<2>2. \A u \in Lido : slashed[u]' = slashed[u] /\ (slashed[u] => withdrawable[u]' = withdrawable[u])
<3> SUFFICES ASSUME NEW u \in Lido, slashed[u] PROVE withdrawable[u]' = withdrawable[u]
  BY <1>1
<3>1. u \in Validator /\ SlashingShows(u) /\ withdrawable \in [Validator -> Nat]
  BY DEF Validator, SlashInv, SlashTypes
<3>2. exit[u] # FarFuture
  BY <3>1 DEF SlashingShows
<3> QED
  BY <1>1, <3>1, <3>2
<2>3. Expected' = Expected /\ \A u \in Expected : MidtermEpoch(u)' = MidtermEpoch(u)
  BY <1>1, <2>2, SlashedStay
<2>4. TotalBalance(epoch)' = TotalBalance(epoch)
  BY ExitKeepsBalance
<2>5. \A u \in Expected : PenaltyAhead(u)' = PenaltyAhead(u)
  BY <1>1, <2>3, <2>4 DEF PenaltyAhead, CutSlashings, Penalty
<2>6. \A frame : ExpectedIn(frame)' = ExpectedIn(frame)
  BY <2>3 DEF ExpectedIn
<2>7. ExpectedBefore(epoch, get_frame_by_epoch(epoch))' = ExpectedBefore(epoch, get_frame_by_epoch(epoch))
  BY <1>1, <2>3 DEF ExpectedBefore, ExpectedIn
<2>8. /\ lastReport' <= epoch'
      /\ \A i \in lastReport' + 1 .. epoch' : slashings'[i % Vector] = 0
      /\ foreseen' \in [Expected' -> Nat]
      /\ cover' \in Int
  BY <1>1, <2>1, <2>3 DEF PredictionHolds
<2>9. \A u \in Expected' : epoch' <= MidtermEpoch(u)' => PenaltyAhead(u)' <= foreseen'[u]
  BY <1>1, <2>1, <2>3, <2>5 DEF PredictionHolds
<2>10. IF epoch' = lastReport' THEN get_frame_by_epoch(epoch + 1)' # get_frame_by_epoch(epoch)'
       ELSE taken' <= SumOf(foreseen', ExpectedBefore(epoch, get_frame_by_epoch(epoch))')
  BY <1>1, <2>1, <2>7 DEF PredictionHolds
<2>11. \A frame \in Int : SumOf(foreseen', ExpectedIn(frame)') <= cover'
  BY <1>1, <2>1, <2>6 DEF PredictionHolds
<2> QED
  BY <2>8, <2>9, <2>10, <2>11 DEF PredictionHolds, SumOf
<1> QED
  BY <1>2, <1>3 DEF MidtermInv

LEMMA MidtermSlash ==
  ASSUME SlashInv, MidtermInv, NEW v \in Validator, NEW exits \in Queues, Slash(v, exits)
  PROVE  MidtermInv'
<1>1. /\ slashings' = [slashings EXCEPT ![epoch % Vector] = @ + Increments[v]]
      /\ quiet' = FALSE /\ taken' = taken
  BY DEF Slash
<1>2. Increments[v] \in Nat
  BY SlashingsAssumption
<1>3. epoch % Vector \in 0 .. Vector - 1
<2>1. epoch \in Nat /\ Vector \in Nat \ {0}
  BY SlashConstants DEF SlashInv, SlashTypes
<2> QED
  BY <2>1
<1>4. RingOK'
<2> DEFINE b == epoch % Vector
<2>1. slashings \in [0 .. Vector - 1 -> Nat] /\ b \in 0 .. Vector - 1
  BY <1>3 DEF MidtermInv, RingOK
<2>2. slashings' = [slashings EXCEPT ![b] = slashings[b] + Increments[v]]
  BY <1>1
<2> HIDE DEF b
<2>3. slashings[b] + Increments[v] \in Nat
  BY <1>2, <2>1
<2>4. slashings' \in [0 .. Vector - 1 -> Nat]
  BY <2>1, <2>2, <2>3
<2> QED
  BY <2>4 DEF RingOK
<1> QED
  BY <1>1, <1>4 DEF MidtermInv

LEMMA MidtermEpochStep ==
  ASSUME SlashInv, MidtermInv, NextEpoch
  PROVE  MidtermInv'
<1>1. /\ epoch' = epoch + 1 /\ slashed' = slashed /\ lastReport' = lastReport
      /\ slashings' = [slashings EXCEPT ![(epoch + 1) % Vector] = 0]
      /\ exit' = exit /\ withdrawable' = withdrawable
      /\ foreseen' = foreseen /\ cover' = cover
      /\ quiet' = (quiet /\ TotalBalance(epoch + 1) = TotalBalance(epoch))
      /\ taken' = IF get_frame_by_epoch(epoch + 1) # get_frame_by_epoch(epoch) THEN 0
                  ELSE taken + Due
  BY DEF NextEpoch
<1>2. RingOK /\ taken \in Nat /\ epoch \in Nat /\ lastReport \in Nat
  BY DEF MidtermInv, SlashInv, SlashTypes
<1>3. RingOK'
  BY <1>1, <1>2 DEF RingOK
<1>4. Due \in Nat
  BY <1>2, DueType
<1>5. taken' \in Nat
  BY <1>1, <1>2, <1>4
<1>6. ASSUME quiet' PROVE PredictionHolds'
<2>1. quiet /\ PredictionHolds /\ TotalBalance(epoch + 1) = TotalBalance(epoch)
  BY <1>1, <1>6 DEF MidtermInv
<2>2. Expected' = Expected /\ \A u \in Expected : MidtermEpoch(u)' = MidtermEpoch(u)
  BY <1>1, SlashedStay
<2>3. TotalBalance(epoch)' = TotalBalance(epoch)
<3>1. TotalBalance(epoch)' = TotalBalance(epoch + 1)
  BY <1>1 DEF TotalBalance, ActiveAt
<3> QED
  BY <2>1, <3>1
<2>4. lastReport' <= epoch' /\ epoch' # lastReport' /\ lastReport <= epoch
  BY <1>1, <1>2, <2>1 DEF PredictionHolds
<2>5. ASSUME NEW i \in lastReport' + 1 .. epoch' PROVE slashings'[i % Vector] = 0
<3>1. Vector \in Nat \ {0} /\ i \in Nat
  BY <1>1, <1>2, SlashConstants
<3>2. i % Vector \in 0 .. Vector - 1
  BY <3>1
<3>3. CASE i = epoch + 1
  BY <1>1, <1>2, <3>2, <3>3 DEF RingOK
<3>4. CASE i # epoch + 1
<4>1. i \in lastReport + 1 .. epoch
  BY <1>1, <1>2, <3>1, <3>4
<4>2. slashings[i % Vector] = 0
  BY <2>1, <4>1 DEF PredictionHolds
<4> QED
  BY <1>1, <1>2, <3>2, <4>2 DEF RingOK
<3> QED
  BY <3>3, <3>4
<2>6. foreseen' \in [Expected' -> Nat] /\ cover' \in Int
  BY <1>1, <2>1, <2>2 DEF PredictionHolds
<2>7. ASSUME NEW u \in Expected', epoch' <= MidtermEpoch(u)' PROVE PenaltyAhead(u)' <= foreseen'[u]
<3>1. u \in Expected /\ MidtermEpoch(u)' = MidtermEpoch(u) /\ u \in Validator
  BY <2>2 DEF Expected, Validator
<3>2. epoch <= MidtermEpoch(u)
  BY <1>1, <1>2, <2>7, <3>1, MidtermType
<3>3. PenaltyAhead(u) <= foreseen[u] /\ foreseen[u] \in Nat
  BY <2>1, <3>1, <3>2 DEF PredictionHolds
<3> DEFINE cut == CutOf(slashings, MidtermEpoch(u), lastReport)
           less == CutOf(slashings', MidtermEpoch(u), lastReport)
           total == TotalBalance(epoch)
<3>4. CutSlashings(MidtermEpoch(u), lastReport) = cut
  BY <1>2, CutIs
<3>5. CutSlashings(MidtermEpoch(u), lastReport)' = less
  BY <1>1, <1>3, <3>1 DEF CutSlashings, CutOf, RingOK, Overwritten
<3>6. cut \in Nat /\ less \in Nat /\ less <= cut
<4> DEFINE ring == slashings
           rest == slashings'
           midterm == MidtermEpoch(u)
<4>1. ring \in [0 .. Vector - 1 -> Nat] /\ rest \in [0 .. Vector - 1 -> Nat]
  BY <1>2, <1>3 DEF RingOK
<4>2. \A i \in 0 .. Vector - 1 : rest[i] <= ring[i]
  BY <1>1, <4>1
<4> HIDE DEF ring, rest, midterm
<4>3. /\ CutOf(ring, midterm, lastReport) \in Nat /\ CutOf(rest, midterm, lastReport) \in Nat
      /\ CutOf(rest, midterm, lastReport) <= CutOf(ring, midterm, lastReport)
  BY <4>1, <4>2, CutShrinks
<4> QED
  BY <4>3 DEF ring, rest, midterm
<3>7. total \in Nat \ {0}
  BY BalanceType
<3>8. PenaltyAhead(u) = Penalty(u, cut, total)
  BY <3>4 DEF PenaltyAhead
<3>9. PenaltyAhead(u)' = Penalty(u, less, total)
  BY <2>3, <3>5 DEF PenaltyAhead, Penalty
<3> HIDE DEF cut, less, total
<3>10. /\ Penalty(u, less, total) \in Nat /\ Penalty(u, cut, total) \in Nat
       /\ Penalty(u, less, total) <= Penalty(u, cut, total)
  BY <3>1, <3>6, <3>7, PenaltyFacts
<3> QED
  BY <1>1, <3>3, <3>8, <3>9, <3>10
<2>8. taken' <= SumOf(foreseen', ExpectedBefore(epoch, get_frame_by_epoch(epoch))')
<3> DEFINE frame == get_frame_by_epoch(epoch + 1)
           S == ExpectedBefore(epoch + 1, frame)
<3>1. ExpectedBefore(epoch, get_frame_by_epoch(epoch))' = S
  BY <1>1, <2>2 DEF ExpectedBefore, ExpectedIn, get_frame_by_epoch
<3>2. SumOf(foreseen, S) \in Nat
<4>1. S \in SUBSET Lido /\ \A u \in S : u \in Expected
  BY DEF ExpectedBefore, ExpectedIn, Expected
<4>2. IsFiniteSet(S) /\ \A u \in S : foreseen[u] \in Nat
  BY <2>1, <4>1, LidoIsFinite, FS_Subset DEF PredictionHolds
<4> HIDE DEF S
<4> QED
  BY <4>2, SumFacts DEF SumOf
<3>3. CASE frame # get_frame_by_epoch(epoch)
<4>1. taken' = 0
  BY <1>1, <3>3
<4> HIDE DEF S
<4> QED
  BY <1>1, <3>1, <3>2, <4>1
<3>4. CASE frame = get_frame_by_epoch(epoch)
<4>1. epoch # lastReport
  BY <2>1, <3>4 DEF PredictionHolds
<4>2. taken + Due <= SumOf(foreseen, ExpectedBefore(epoch + 1, get_frame_by_epoch(epoch)))
  BY <2>1, <4>1, DueIsForeseen
<4>3. taken' = taken + Due
  BY <1>1, <3>4
<4> QED
  BY <1>1, <3>1, <3>4, <4>2, <4>3
<3> QED
  BY <3>3, <3>4
<2>9. \A frame \in Int : SumOf(foreseen', ExpectedIn(frame)') <= cover'
<3>1. \A frame : ExpectedIn(frame)' = ExpectedIn(frame)
  BY <2>2 DEF ExpectedIn
<3> QED
  BY <1>1, <2>1, <3>1 DEF PredictionHolds
<2> QED
  BY <2>4, <2>5, <2>6, <2>7, <2>8, <2>9 DEF PredictionHolds, SumOf
<1> QED
  BY <1>3, <1>5, <1>6 DEF MidtermInv

\* A report without bunker mode has seen what each frame takes.
LEMMA CoverIsEnough ==
  ASSUME SlashInv, RingOK, NEW rebase \in Rebases, NEW abnormal \in BOOLEAN, NEW funded \in BOOLEAN,
         Report(rebase, abnormal, funded)
  PROVE  /\ foreseen' \in [Awaited -> Nat] /\ cover' \in Int
         /\ \A frame \in Int :
              SumOf(foreseen', {v \in Awaited : get_frame_by_epoch(MidtermEpoch(v)) = frame}) <= cover'
<1> DEFINE In(frame) == {v \in Awaited : get_frame_by_epoch(MidtermEpoch(v)) = frame}
<1>1. /\ lastReport < epoch /\ epoch \in Nat /\ lastReport \in Nat
      /\ foreseen' = [v \in Awaited |-> ForeseenPenalty(v)]
      /\ cover' = IF IsBunkerMode(rebase, abnormal) \/ lastReport = 0 THEN LidoBalance
                  ELSE FrameRebase(rebase)
  BY DEF Report, SlashInv, SlashTypes
<1>2. ASSUME NEW v \in Awaited
      PROVE  /\ v \in Validator /\ v \in Lido /\ ForeseenPenalty(v) \in Nat
             /\ ForeseenPenalty(v) <= Unit * Increments[v] /\ Increments[v] \in Nat
<2> DEFINE cut == CutSlashings(MidtermEpoch(v), epoch)
           total == TotalBalance(epoch)
<2>1. v \in Validator /\ v \in Lido
  BY DEF Awaited, Validator
<2>2. cut \in Nat
<3>1. slashings \in [0 .. Vector - 1 -> Nat] /\ \A i \in 0 .. Vector - 1 : slashings[i] <= slashings[i]
  BY DEF RingOK
<3>2. CutOf(slashings, MidtermEpoch(v), epoch) \in Nat
  BY <3>1, CutShrinks
<3> QED
  BY <3>2, CutIs
<2>3. total \in Nat \ {0}
  BY BalanceType
<2>4. ForeseenPenalty(v) = Penalty(v, cut, total)
  BY DEF ForeseenPenalty
<2> HIDE DEF cut, total
<2>5. Penalty(v, cut, total) \in Nat /\ Penalty(v, cut, total) <= Unit * Increments[v]
  BY <2>1, <2>2, <2>3, PenaltyFacts
<2> QED
  BY <2>1, <2>4, <2>5, SlashingsAssumption
<1>3. foreseen' \in [Awaited -> Nat] /\ \A v \in Awaited : foreseen'[v] = ForeseenPenalty(v)
  BY <1>1, <1>2
<1>4. ASSUME NEW frame
      PROVE  IsFiniteSet(In(frame)) /\ In(frame) \in SUBSET Lido /\ \A v \in In(frame) : v \in Awaited
<2>1. In(frame) \in SUBSET Lido
  BY DEF Awaited
<2> QED
  BY <2>1, LidoIsFinite, FS_Subset
<1>5. CASE IsBunkerMode(rebase, abnormal) \/ lastReport = 0
<2> DEFINE whole == [v \in Lido |-> Unit * Increments[v]]
<2>1. cover' = Unit * SumOf(Increments, Lido)
  BY <1>1, <1>5 DEF LidoBalance
<2>2. Unit \in Nat /\ \A v \in Lido : Increments[v] \in Nat /\ Increments[v] \in Int
  BY SlashingsAssumption, LidoIsFinite
<2>3. \A v \in Lido : whole[v] = Unit * Increments[v] /\ whole[v] \in Nat
  BY <2>2
<2> HIDE DEF whole
<2>4. SumOf(whole, Lido) = Unit * SumOf(Increments, Lido)
<3>1. Unit \in Int
  BY <2>2
<3> QED
  BY <2>2, <2>3, <3>1, LidoIsFinite, SumScaled DEF SumOf
<2>5. ASSUME NEW frame \in Int PROVE SumOf(foreseen', In(frame)) <= cover'
<3>1. \A v \in In(frame) : foreseen'[v] \in Int /\ whole[v] \in Int /\ foreseen'[v] <= whole[v]
  BY <1>2, <1>3, <1>4, <2>3
<3>2. IsFiniteSet(In(frame)) /\ In(frame) \in SUBSET Lido
  BY <1>4
<3> DEFINE S == In(frame)
           h == foreseen'
<3> HIDE DEF S, h
<3>3. /\ SumOf(h, S) <= SumOf(whole, S)
      /\ SumOf(h, S) \in Int /\ SumOf(whole, S) \in Int
<4>1. \A v \in S : h[v] \in Int /\ whole[v] \in Int /\ h[v] <= whole[v]
  BY <3>1 DEF S, h
<4>2. IsFiniteSet(S)
  BY <3>2 DEF S
<4> QED
  BY <4>1, <4>2, SumGrows DEF SumOf
<3>4. SumOf(whole, S) <= SumOf(whole, Lido) /\ SumOf(whole, Lido) \in Nat
<4>1. S \in SUBSET Lido
  BY <3>2 DEF S
<4> QED
  BY <2>3, <4>1, LidoIsFinite, SumOfSubset
<3>5. SumOf(h, S) <= SumOf(whole, Lido)
  BY <3>3, <3>4
<3> QED
  BY <2>1, <2>4, <3>5 DEF S, h
<2>6. cover' \in Int
<3>1. SumOf(whole, Lido) \in Int
  BY <2>3, LidoIsFinite, SumFacts DEF SumOf
<3> QED
  BY <2>1, <2>4, <3>1
<2> QED
  BY <1>3, <2>5, <2>6
<1>6. CASE ~(IsBunkerMode(rebase, abnormal) \/ lastReport = 0)
<2>1. cover' = FrameRebase(rebase) /\ rebase >= 0 /\ ~IsHighMidtermPenalty(rebase)
<3>1. rebase \in Int
  BY SlashingsAssumption
<3> QED
  BY <1>1, <1>6, <3>1 DEF IsBunkerMode
<2>2. FrameRebase(rebase) \in Nat
<3>1. rebase \in Nat /\ EPOCHS_PER_FRAME \in Nat
  BY <2>1, SlashingsAssumption, ConverterAssumption
<3>2. rebase * EPOCHS_PER_FRAME \in Nat
  BY <3>1
<3>3. epoch - lastReport \in Nat \ {0}
  BY <1>1
<3> QED
  BY <3>2, <3>3, Quotient DEF FrameRebase
<2>3. ASSUME NEW frame \in Int PROVE SumOf(foreseen', In(frame)) <= cover'
<3> DEFINE S == In(frame)
           f == [v \in Lido |-> ForeseenPenalty(v)]
           h == foreseen'
<3>1. IsFiniteSet(S) /\ S \in SUBSET Lido /\ \A v \in S : v \in Awaited
  BY <1>4
<3>2. \A v \in S : f[v] \in Int /\ f[v] \in Nat /\ h[v] = f[v]
  BY <1>2, <1>3, <3>1
<3>3. PenaltyInFrame(frame) = SumOf(f, S)
  BY DEF PenaltyInFrame
<3>4. S # {} => ~(PenaltyInFrame(frame) > FrameRebase(rebase))
  BY <2>1 DEF IsHighMidtermPenalty
<3> HIDE DEF S, f, h
<3>5. SumOf(h, S) = SumOf(f, S) /\ SumOf(f, S) \in Nat
  BY <3>1, <3>2, SumSame, SumFacts DEF SumOf
<3>6. CASE S # {}
<4>1. SumOf(h, S) <= FrameRebase(rebase)
  BY <2>2, <3>3, <3>4, <3>5, <3>6
<4> QED
  BY <2>1, <4>1 DEF S, h
<3>7. CASE S = {}
<4>1. SumOf(h, S) = 0
  BY <3>1, <3>2, <3>7, SumFacts DEF SumOf
<4>2. SumOf(h, S) <= FrameRebase(rebase)
  BY <2>2, <4>1
<4> QED
  BY <2>1, <4>2 DEF S, h
<3> QED
  BY <3>6, <3>7
<2> QED
  BY <1>3, <2>1, <2>2, <2>3
<1> QED
  BY <1>5, <1>6

LEMMA MidtermReport ==
  ASSUME SlashInv, MidtermInv, NEW rebase \in Rebases, NEW abnormal \in BOOLEAN,
         NEW funded \in BOOLEAN, Report(rebase, abnormal, funded)
  PROVE  MidtermInv'
<1>1. /\ epoch = get_epoch_by_slot(get_frame_last_slot(get_frame_by_epoch(epoch)))
      /\ UNCHANGED <<epoch, exit, withdrawable, slashed, slashings, slashedIn>>
      /\ lastReport' = epoch /\ taken' = 0
      /\ foreseen' = [v \in Awaited |-> ForeseenPenalty(v)]
  BY DEF Report, beacon
<1>2. RingOK /\ epoch \in Nat
  BY DEF MidtermInv, SlashInv, SlashTypes
<1>3. RingOK'
  BY <1>1, <1>2 DEF RingOK
<1>4. Expected' = Awaited /\ \A v \in Awaited : MidtermEpoch(v)' = MidtermEpoch(v)
  BY <1>1 DEF Expected, Awaited, MidtermEpoch
<1>5. /\ foreseen' \in [Awaited -> Nat] /\ cover' \in Int
      /\ \A frame \in Int :
           SumOf(foreseen', {v \in Awaited : get_frame_by_epoch(MidtermEpoch(v)) = frame}) <= cover'
  BY <1>2, CoverIsEnough
<1>6. \A v \in Expected' : PenaltyAhead(v)' <= foreseen'[v]
<2> SUFFICES ASSUME NEW v \in Awaited PROVE PenaltyAhead(v)' <= foreseen'[v]
  BY <1>4
<2>1. PenaltyAhead(v)' = ForeseenPenalty(v)
  BY <1>1 DEF PenaltyAhead, ForeseenPenalty, Penalty, CutSlashings, MidtermEpoch, TotalBalance, ActiveAt
<2>2. foreseen'[v] = ForeseenPenalty(v) /\ foreseen'[v] \in Nat
  BY <1>1, <1>5
<2> QED
  BY <2>1, <2>2
<1>7. get_frame_by_epoch(epoch + 1) # get_frame_by_epoch(epoch)
<2> DEFINE frame == get_frame_by_epoch(epoch)
<2>1. frame \in Int /\ epoch = get_epoch_by_slot(get_frame_last_slot(frame))
  BY <1>1, <1>2, FrameOfEpoch
<2> HIDE DEF frame
<2>2. epoch = FrameStart(frame + 1) - 1
  BY <2>1, EpochsOfFrame
<2>3. FrameStart(frame + 1) \in Int
  BY <2>1, StartsGrow
<2>4. get_frame_by_epoch(FrameStart(frame + 1)) = frame + 1
  BY <2>1, EpochsOfFrame
<2>5. epoch + 1 = FrameStart(frame + 1)
  BY <1>2, <2>2, <2>3
<2>6. get_frame_by_epoch(epoch + 1) # frame
  BY <2>1, <2>4, <2>5
<2> QED
  BY <2>6 DEF frame
<1>8. \A frame \in Int : SumOf(foreseen', ExpectedIn(frame)') <= cover'
<2>1. \A frame : ExpectedIn(frame)' = {v \in Awaited : get_frame_by_epoch(MidtermEpoch(v)) = frame}
  BY <1>4 DEF ExpectedIn
<2> QED
  BY <1>5, <2>1
<1>9. epoch' = lastReport' /\ lastReport' <= epoch'
      /\ \A i \in lastReport' + 1 .. epoch' : slashings'[i % Vector] = 0
  BY <1>1, <1>2
<1>10. get_frame_by_epoch(epoch + 1)' # get_frame_by_epoch(epoch)'
  BY <1>1, <1>7
<1>11. PredictionHolds'
  BY <1>4, <1>5, <1>6, <1>8, <1>9, <1>10 DEF PredictionHolds, SumOf
<1> QED
  BY <1>1, <1>3, <1>11 DEF MidtermInv

LEMMA MidtermInvariant == SlashingsSpec => [](SlashInv /\ MidtermInv)
<1>1. SlashInv /\ MidtermInv /\ [SlashingsNext]_slashVars => MidtermInv'
<2> SUFFICES ASSUME SlashInv, MidtermInv, [SlashingsNext]_slashVars PROVE MidtermInv'
  OBVIOUS
<2>1. ASSUME NEW v \in Leaving, NEW exits \in Queues, Exit(v, exits) PROVE MidtermInv'
  BY <2>1, MidtermExit
<2>2. ASSUME NEW v \in Validator, NEW exits \in Queues, Slash(v, exits) PROVE MidtermInv'
  BY <2>2, MidtermSlash
<2>3. ASSUME NEW rebase \in Rebases, NEW abnormal \in BOOLEAN, NEW funded \in BOOLEAN,
             Report(rebase, abnormal, funded)
      PROVE  MidtermInv'
  BY <2>3, MidtermReport
<2>4. CASE NextEpoch
  BY <2>4, MidtermEpochStep
<2>5. CASE UNCHANGED slashVars
<3>1. UNCHANGED <<epoch, exit, withdrawable, slashed, slashings, slashedIn, lastReport, foreseen,
                  quiet, cover, taken>>
  BY <2>5 DEF slashVars, beacon
<3>2. RingOK' = RingOK
  BY <3>1 DEF RingOK
<3>3. PredictionHolds' = PredictionHolds
  BY <3>1 DEF PredictionHolds, Expected, ExpectedIn, ExpectedBefore, PenaltyAhead, Penalty,
              CutSlashings, MidtermEpoch, TotalBalance, ActiveAt
<3> QED
  BY <3>1, <3>2, <3>3 DEF MidtermInv
<2> QED
  BY <2>1, <2>2, <2>3, <2>4, <2>5 DEF SlashingsNext
<1> QED
  BY <1>1, SlashInvariant, MidtermStarts, PTL DEF SlashingsSpec

\* midterm_slashing_penalty.py:34-79, 221-252: as long as nobody else is slashed and the active
\* balance stays, the chain takes no more from a validator at its midterm epoch than the last
\* report predicted, and no frame after a report that was not in bunker mode takes more than
\* that report expected Lido to earn in a frame: however long the vector of slashings, however
\* many validators were slashed, whenever, and however the exit queue moved their midterm epochs.
THEOREM PenaltiesComeAsForeseen == SlashingsSpec => []PenaltiesAreForeseen
BY MidtermInvariant, ForeseenIsEnough, PTL
=============================================================================
