------------------------ MODULE OtherReports_proofs ------------------------
(***************************************************************************)
(* Parts of the reports of the staking modules: the block of a slot, for   *)
(* every chain and whatever any number of consensus nodes answer; fetching *)
(* and publishing, for every number of providers, every ring of every      *)
(* oracle and every CID a provider may give to the content; what operators *)
(* are given and validators' strikes, for every network, interval list and *)
(* number of frames and whatever reports were missed; the duties of a      *)
(* checkpoint, for every chain, committees and length of the ring.  And    *)
(* the ejector's sweep, for every set of validators and every queue of     *)
(* pending partial withdrawals.                                            *)
(***************************************************************************)
EXTENDS BlockResolution, Ipfs, Distribution, CheckpointDuties, Sweep, Sums, SequenceTheorems

-----------------------------------------------------------------------------
(* The block of a slot *)

\* IsBlock for a chain b.
OnChain(b, h) ==
  /\ ~h.orphan /\ b[h.slot]
  /\ h.parent < h.slot /\ \A q \in Slot : h.parent < q /\ q < h.slot => ~b[q]
  /\ IF h.parent = -1 THEN h.slot = 0 ELSE b[h.parent]

\* What one may conclude of an answer: a header is of the slot asked for, and of the chain
\* if it is final.
SlotAnswer(b, h, s) == h \in Header /\ h.slot = s /\ (h.final => OnChain(b, h))

\* A root is asked for only as the parent of a block, so that its header is of the chain.
RootAnswer(b, h, s) == h \in Header /\ h.slot = s /\ OnChain(b, h)

TrueCache(b, c) ==
  /\ c.by = "slot" => SlotAnswer(b, c.header, c.slot)
  /\ c.by = "root" => RootAnswer(b, c.header, c.slot)

\* The last block of the chain at or before slot t.
LastBlockOf(b, t, h) ==
  /\ ~h.orphan /\ b[h.slot] /\ h.slot <= t
  /\ \A s \in Slot : h.slot < s /\ s <= t => ~b[s]

\* A scan is past the slot once it has been told of a missed one, rightly or not; the parent
\* is asked for on behalf of a block of the chain after the slot; what was asked for
\* details is the last block.
ResolutionInv ==
  /\ blocks \in [Slot -> BOOLEAN]
  /\ pc \in {"idle", "scan", "parent", "details", "done", "failed"}
  /\ slot \in Slot /\ last \in slot .. MaxSlot
  /\ TrueCache(blocks, cache)
  /\ pc = "scan" => next \in Int /\ missed \in BOOLEAN /\ IF missed THEN slot < next ELSE next = slot
  /\ pc = "parent" => header \in Header /\ OnChain(blocks, header) /\ slot < header.slot
  /\ pc \in {"details", "done"} => LastBlockOf(blocks, slot, resolved)

LEMMA ResolutionStart == ResolutionInit => ResolutionInv
  BY DEF ResolutionInit, ResolutionInv, TrueCache

\* What the nodes answer (BySlot, ByRoot).
LEMMA AnswersAreTrue ==
  ASSUME NEW s
  PROVE  /\ \A h \in BySlot(s) : SlotAnswer(blocks, h, s)
         /\ \A h \in ByRoot(s) : RootAnswer(blocks, h, s)
  BY DEF BySlot, ByRoot, SlotAnswer, RootAnswer, OnChain, IsBlock, LastBefore

\* A final header of the slot itself is of the last block; a later one waits for its parent
\* (get_non_missed_slot_header, _check_block_header).
LEMMA FoundIsKnown ==
  ASSUME ResolutionInv, pc = "scan", NEW h, SlotAnswer(blocks, h, next), Found(h),
         UNCHANGED <<blocks, slot, last>>,
         TrueCache(blocks, cache')
  PROVE  ResolutionInv'
<1>1. /\ header' = h /\ missed' = missed /\ missed \in BOOLEAN
      /\ pc' = IF h.final THEN (IF missed THEN "parent" ELSE "details") ELSE "failed"
      /\ ~missed => resolved' = h
  BY DEF Found, Checked, ResolutionInv
<1>2. CASE ~h.final
  BY <1>1, <1>2 DEF ResolutionInv
<1>3. CASE h.final /\ missed
<2>1. h \in Header /\ OnChain(blocks, h) /\ slot < h.slot
  BY <1>3 DEF ResolutionInv, SlotAnswer
<2> QED
  BY <1>1, <1>3, <2>1 DEF ResolutionInv
<1>4. CASE h.final /\ ~missed
<2>1. h \in Header /\ OnChain(blocks, h) /\ h.slot = slot /\ slot \in Int
  BY <1>4 DEF ResolutionInv, SlotAnswer, Slot
<2>2. LastBlockOf(blocks, slot, h)
<3>1. \A s \in Slot : ~(h.slot < s /\ s <= slot)
  BY <2>1 DEF Slot
<3> QED
  BY <2>1, <3>1 DEF LastBlockOf, OnChain
<2> QED
  BY <1>1, <1>4, <2>2 DEF ResolutionInv
<1> QED
  BY <1>2, <1>3, <1>4

\* The parent of a block after the slot, itself before the slot: no node's denial of a
\* block in between goes unnoticed (_get_parent_header_if_needed).
LEMMA ParentIsLast ==
  ASSUME ResolutionInv, pc = "parent", NEW h, RootAnswer(blocks, h, header.parent), FoundParent(h),
         UNCHANGED <<blocks, slot, last>>,
         TrueCache(blocks, cache')
  PROVE  ResolutionInv'
<1>1. /\ resolved' = h
      /\ pc' = "failed" \/ (pc' = "details" /\ h.slot < slot)
  BY DEF FoundParent, Consistent, Checked
<1>2. CASE pc' = "failed"
  BY <1>2 DEF ResolutionInv
<1>3. CASE pc' = "details" /\ h.slot < slot
<2>1. /\ OnChain(blocks, header) /\ slot < header.slot /\ header.slot \in Slot
      /\ OnChain(blocks, h) /\ h.slot = header.parent /\ h.slot \in Slot /\ slot \in Slot
  BY DEF ResolutionInv, RootAnswer, Header
<2>2. \A s \in Slot : h.slot < s /\ s < header.slot => ~blocks[s]
  BY <2>1 DEF OnChain
<2>3. LastBlockOf(blocks, slot, h)
<3>1. \A s \in Slot : h.slot < s /\ s <= slot => ~blocks[s]
  BY <2>1, <2>2 DEF Slot
<3>2. h.slot <= slot
  BY <1>3, <2>1 DEF Slot
<3> QED
  BY <2>1, <3>1, <3>2 DEF LastBlockOf, OnChain
<2> QED
  BY <1>1, <1>3, <2>3 DEF ResolutionInv
<1> QED
  BY <1>1, <1>2, <1>3

-----------------------------------------------------------------------------
(* The steps of finding a block *)

LEMMA CallStep ==
  ASSUME ResolutionInv, NEW s \in Slot, NEW l \in s .. MaxSlot, Call(s, l)
  PROVE  ResolutionInv'
<1>1. /\ pc' = "scan" /\ slot' = s /\ last' = l /\ next' = s /\ missed' = FALSE
      /\ UNCHANGED <<blocks, cache>>
  BY DEF Call
<1>2. s \in Int
  BY DEF Slot
<1> QED
  BY <1>1, <1>2 DEF ResolutionInv

LEMMA ScanStep == ASSUME ResolutionInv, Scan PROVE ResolutionInv'
<1>1. pc = "scan" /\ UNCHANGED <<blocks, slot, last>>
  BY DEF Scan
<1>2. CASE Fail /\ UNCHANGED cache
  BY <1>1, <1>2 DEF ResolutionInv, Fail
<1>3. CASE Cached("slot", next) /\ Found(cache.header) /\ UNCHANGED cache
<2>1. SlotAnswer(blocks, cache.header, next)
  BY <1>3 DEF Cached, ResolutionInv, TrueCache
<2>2. TrueCache(blocks, cache')
  BY <1>3 DEF ResolutionInv
<2> QED
  BY <1>1, <1>3, <2>1, <2>2, FoundIsKnown
<1>4. ASSUME NEW h \in BySlot(next), Found(h), Keep("slot", next, h)
      PROVE  ResolutionInv'
<2>1. SlotAnswer(blocks, h, next)
  BY AnswersAreTrue
<2>2. cache' = [by |-> "slot", slot |-> next, header |-> h]
  BY <1>4 DEF Keep
<2>3. TrueCache(blocks, cache')
  BY <2>1, <2>2 DEF TrueCache
<2> QED
  BY <1>1, <1>4, <2>1, <2>3, FoundIsKnown
<1>5. CASE /\ next' = next + 1 /\ missed' = TRUE
           /\ UNCHANGED <<pc, cache, header, resolved>>
<2>1. next' \in Int /\ slot < next'
  BY <1>1, <1>5 DEF ResolutionInv, Slot
<2> QED
  BY <1>1, <1>5, <2>1 DEF ResolutionInv
<1> QED
  BY <1>2, <1>3, <1>4, <1>5 DEF Scan

LEMMA GetParentStep == ASSUME ResolutionInv, GetParent PROVE ResolutionInv'
<1>1. pc = "parent" /\ UNCHANGED <<blocks, slot, last>>
  BY DEF GetParent
<1>2. CASE Fail /\ UNCHANGED cache
  BY <1>1, <1>2 DEF ResolutionInv, Fail
<1>3. CASE Cached("root", header.parent) /\ FoundParent(cache.header) /\ UNCHANGED cache
<2>1. RootAnswer(blocks, cache.header, header.parent)
  BY <1>3 DEF Cached, ResolutionInv, TrueCache
<2>2. TrueCache(blocks, cache')
  BY <1>3 DEF ResolutionInv
<2> QED
  BY <1>1, <1>3, <2>1, <2>2, ParentIsLast
<1>4. ASSUME NEW h \in ByRoot(header.parent), FoundParent(h), Keep("root", header.parent, h)
      PROVE  ResolutionInv'
<2>1. RootAnswer(blocks, h, header.parent)
  BY AnswersAreTrue
<2>2. cache' = [by |-> "root", slot |-> header.parent, header |-> h]
  BY <1>4 DEF Keep
<2>3. TrueCache(blocks, cache')
  BY <2>1, <2>2 DEF TrueCache
<2> QED
  BY <1>1, <1>4, <2>1, <2>3, ParentIsLast
<1> QED
  BY <1>2, <1>3, <1>4 DEF GetParent

LEMMA ResolutionStep == ResolutionInv /\ [ResolutionNext]_resolutionVars => ResolutionInv'
<1> SUFFICES ASSUME ResolutionInv, [ResolutionNext]_resolutionVars PROVE ResolutionInv'
  OBVIOUS
<1>1. CASE Cycle
  BY <1>1, CallStep DEF Cycle, ResolutionInv
<1>2. CASE NextCall
  BY <1>2, CallStep DEF NextCall
<1>3. CASE Scan
  BY <1>3, ScanStep
<1>4. CASE GetParent
  BY <1>4, GetParentStep
<1>5. CASE GetDetails
<2>1. /\ pc = "details" /\ pc' \in {"done", "failed"}
      /\ UNCHANGED <<blocks, cache, slot, last, next, missed, header, resolved>>
  BY <1>5 DEF GetDetails
<2> QED
  BY <2>1 DEF ResolutionInv
<1>6. CASE Recover \/ UNCHANGED resolutionVars
<2>1. UNCHANGED <<blocks, cache, pc, slot, last, next, missed, header, resolved>>
  BY <1>6 DEF Recover, resolutionVars
<2> QED
  BY <2>1 DEF ResolutionInv
<1> QED
  BY <1>1, <1>2, <1>3, <1>4, <1>5, <1>6 DEF ResolutionNext

\* For every chain, any number of nodes that deny blocks, err, lag or follow a fork, and
\* every header left in the cache, the block found is the last one at or before the slot
\* (utils/slot.py: get_prev_non_missed_slot).
THEOREM LastBlockIsFound == ResolutionSpec => []ResolvedIsTheLastBlock
<1>1. ResolutionInv => ResolvedIsTheLastBlock
  BY DEF ResolutionInv, ResolvedIsTheLastBlock, LastBlockOf
<1> QED
  BY <1>1, ResolutionStart, ResolutionStep, PTL DEF ResolutionSpec

-----------------------------------------------------------------------------
(* Sequences without repetition *)

\* Moving on round the ring.
LEMMA NextPlace ==
  ASSUME NEW n \in Nat \ {0}, NEW x \in 0 .. n - 1
  PROVE  /\ (x + 1) % n = IF x + 1 = n THEN 0 ELSE x + 1
  OBVIOUS

\* A frame's place in the ring.
LEMMA PlaceOfFrame ==
  ASSUME NEW n \in Nat \ {0}, NEW f \in Nat
  PROVE  f % n \in 0 .. n - 1
  OBVIOUS

\* The elements of a sequence that has each of them once are as many as it is long.
LEMMA ToSetOfInjective ==
  ASSUME NEW S, NEW s \in Seq(S), IsInjective(s)
  PROVE  /\ IsFiniteSet(ToSet(s)) /\ Cardinality(ToSet(s)) = Len(s)
         /\ s \in Bijection(1 .. Len(s), ToSet(s))
<1>1. Len(s) \in Nat /\ DOMAIN s = 1 .. Len(s) /\ s \in [1 .. Len(s) -> S]
  BY LenProperties
<1>2. s \in [1 .. Len(s) -> ToSet(s)]
  BY <1>1 DEF ToSet
<1>3. s \in Bijection(1 .. Len(s), ToSet(s))
  BY <1>1, <1>2 DEF Bijection, Injection, Surjection, IsInjective, ToSet
<1>4. IsFiniteSet(1 .. Len(s)) /\ Cardinality(1 .. Len(s)) = Len(s)
<2> DEFINE n == Len(s)
<2>1. n \in Nat /\ n \in Int /\ 1 \in Int
  BY <1>1
<2> HIDE DEF n
<2>2. IsFiniteSet(1 .. n) /\ Cardinality(1 .. n) = IF 1 > n THEN 0 ELSE n - 1 + 1
  BY <2>1, FS_Interval, Zenon
<2>3. Cardinality(1 .. n) = n
  BY <2>1, <2>2
<2> QED
  BY <2>2, <2>3 DEF n
<1>5. ExistsBijection(1 .. Len(s), ToSet(s))
  BY <1>3 DEF ExistsBijection
<1> QED
  BY <1>3, <1>4, <1>5, FS_Bijection

\* The providers of the ring of an oracle are all the providers.
LEMMA ProvidersCounted ==
  /\ IsFiniteSet(Provider) /\ Cardinality(Provider) = Ring
  /\ Ring \in Nat \ {0}
<1>1. Providers \in Seq(Provider) /\ IsInjective(Providers) /\ Ring > 0
  BY IpfsAssumption
<1>2. IsFiniteSet(ToSet(Providers)) /\ Cardinality(ToSet(Providers)) = Len(Providers)
  BY <1>1, ToSetOfInjective
<1>3. Len(Providers) \in Nat
  BY <1>1, LenProperties
<1> QED
  BY <1>1, <1>2, <1>3 DEF Provider, Ring

\* A ring asks each provider at one place (random.shuffle).
LEMMA RingsAreInjective ==
  ASSUME NEW r \in Shuffled
  PROVE  /\ r \in [1 .. Ring -> Provider]
         /\ \A i, j \in 1 .. Ring : i # j => r[i] # r[j]
  BY ProvidersCounted, IpfsAssumption DEF SetToSeqs

-----------------------------------------------------------------------------
(* Fetching *)

\* Place of the k-th provider asked by a call that starts at place w.
Place(w, k) == IF w + k - 1 < Ring THEN w + k - 1 ELSE w + k - 1 - Ring

\* The place after the k-th one is where the call started when that is the last.
LEMMA PlaceStep ==
  ASSUME NEW w \in 0 .. Ring - 1, NEW k \in Nat, k < Ring,
         NEW c, c = Place(w, k + 1),
         NEW x, x = IF c + 1 = Ring THEN 0 ELSE c + 1
  PROVE  /\ c \in 0 .. Ring - 1 /\ x \in 0 .. Ring - 1
         /\ w = x <=> k + 1 = Ring
         /\ k + 1 < Ring => x = Place(w, k + 2)
  BY ProvidersCounted DEF Place

Asked(r, w, t) ==
  /\ Len(t) <= Ring
  /\ \A k \in 1 .. Len(t) : t[k] = r[Place(w, k) + 1]

\* A call in progress has asked the providers from the mark on, in the order of the ring,
\* and is not round yet; between calls the ring is at the mark.
FetchInv ==
  /\ ring \in [Oracle -> Shuffled]
  /\ frame \in [Oracle -> Int]
  /\ current \in [Oracle -> 0 .. Ring - 1]
  /\ lastWorking \in [Oracle -> 0 .. Ring - 1]
  /\ tried \in [Oracle -> Seq(Provider)]
  /\ call \in [Oracle -> {"none", "trying", "fetched", "failed"}]
  /\ \A o \in Oracle :
       /\ \E w \in 0 .. Ring - 1 : Asked(ring[o], w, tried[o])
       /\ call[o] # "trying" => current[o] = lastWorking[o]
       /\ call[o] = "trying" =>
            /\ Asked(ring[o], lastWorking[o], tried[o]) /\ Len(tried[o]) < Ring
            /\ current[o] = Place(lastWorking[o], Len(tried[o]) + 1)
       /\ call[o] = "failed" => Len(tried[o]) = Ring

\* What a call has asked, it has asked once.
LEMMA AskedOnce ==
  ASSUME NEW r \in Shuffled, NEW w \in 0 .. Ring - 1, NEW t \in Seq(Provider), Asked(r, w, t)
  PROVE  IsInjective(t) /\ (Len(t) = Ring => ToSet(t) = Provider)
<1>1. /\ Ring \in Nat \ {0} /\ Len(t) \in Nat /\ DOMAIN t = 1 .. Len(t)
      /\ t \in [1 .. Len(t) -> Provider]
  BY ProvidersCounted, LenProperties
<1>2. IsInjective(t)
<2>1. SUFFICES ASSUME NEW i \in 1 .. Len(t), NEW j \in 1 .. Len(t), i # j
               PROVE  t[i] # t[j]
  BY <1>1 DEF IsInjective
<2>2. /\ Place(w, i) + 1 \in 1 .. Ring /\ Place(w, j) + 1 \in 1 .. Ring
      /\ Place(w, i) # Place(w, j) /\ Place(w, i) \in Int /\ Place(w, j) \in Int
  BY <1>1, <2>1 DEF Asked, Place
<2>3. t[i] = r[Place(w, i) + 1] /\ t[j] = r[Place(w, j) + 1]
  BY DEF Asked
<2>4. Place(w, i) + 1 # Place(w, j) + 1
  BY <1>1, <2>2
<2> QED
  BY <2>2, <2>3, <2>4, RingsAreInjective
<1>3. ASSUME Len(t) = Ring PROVE ToSet(t) = Provider
<2>1. /\ IsFiniteSet(ToSet(t)) /\ Cardinality(ToSet(t)) = Ring
  BY <1>2, <1>3, ToSetOfInjective
<2>2. ToSet(t) \in SUBSET Provider
  BY <1>1 DEF ToSet
<2> QED
  BY <2>1, <2>2, ProvidersCounted, FS_Subset
<1> QED
  BY <1>2, <1>3

LEMMA NothingAsked == ASSUME NEW r, NEW w PROVE Asked(r, w, <<>>)
  BY ProvidersCounted DEF Asked

LEMMA FetchInit == IpfsInit => FetchInv
<1> SUFFICES ASSUME IpfsInit PROVE FetchInv
  OBVIOUS
<1>1. 0 \in 0 .. Ring - 1
  BY ProvidersCounted
<1>2. \A o \in Oracle : tried[o] = <<>> /\ call[o] = "none" /\ current[o] = lastWorking[o]
  BY DEF IpfsInit
<1>3. tried \in [Oracle -> Seq(Provider)]
  BY DEF IpfsInit
<1> QED
  BY <1>1, <1>2, <1>3, NothingAsked DEF IpfsInit, FetchInv

\* A call starts with the ring at the mark (_set_provider_for_frame).
LEMMA FetchStart ==
  ASSUME FetchInv, NEW o \in Oracle, NEW f \in 0 .. MaxFetchFrame, Fetch(o, f)
  PROVE  FetchInv'
<1>1. /\ call[o] # "trying"
      /\ call' = [call EXCEPT ![o] = "trying"] /\ tried' = [tried EXCEPT ![o] = <<>>]
      /\ frame' = [frame EXCEPT ![o] = f]
      /\ \/ UNCHANGED <<current, lastWorking>>
         \/ /\ current' = [current EXCEPT ![o] = f % Ring]
            /\ lastWorking' = [lastWorking EXCEPT ![o] = f % Ring]
      /\ ring' = ring
<2>1. /\ [current EXCEPT ![o] = current[o]] = current
      /\ [lastWorking EXCEPT ![o] = lastWorking[o]] = lastWorking
  BY DEF FetchInv
<2> QED
  BY <2>1 DEF Fetch, SetProviderForFrame
<1>2. f \in Nat /\ f % Ring \in 0 .. Ring - 1 /\ Ring \in Nat \ {0}
  BY ProvidersCounted, PlaceOfFrame, IpfsAssumption
<1>3. /\ current' \in [Oracle -> 0 .. Ring - 1] /\ lastWorking' \in [Oracle -> 0 .. Ring - 1]
      /\ frame' \in [Oracle -> Int] /\ tried' \in [Oracle -> Seq(Provider)]
      /\ call' \in [Oracle -> {"none", "trying", "fetched", "failed"}]
<2> DEFINE q == f % Ring
<2>1. q \in 0 .. Ring - 1 /\ f \in Int
  BY <1>2
<2>2. \/ UNCHANGED <<current, lastWorking>>
      \/ /\ current' = [current EXCEPT ![o] = q]
         /\ lastWorking' = [lastWorking EXCEPT ![o] = q]
  BY <1>1
<2> HIDE DEF q
<2>3. current' \in [Oracle -> 0 .. Ring - 1] /\ lastWorking' \in [Oracle -> 0 .. Ring - 1]
  BY <2>1, <2>2 DEF FetchInv
<2>4. <<>> \in Seq(Provider)
  OBVIOUS
<2> QED
  BY <1>1, <2>1, <2>3, <2>4 DEF FetchInv
<1>4. /\ tried'[o] = <<>> /\ call'[o] = "trying" /\ current'[o] = lastWorking'[o]
      /\ current'[o] \in 0 .. Ring - 1
  BY <1>1, <1>3 DEF FetchInv
<1>5. current'[o] = Place(lastWorking'[o], Len(tried'[o]) + 1) /\ Len(tried'[o]) < Ring
  BY <1>2, <1>4 DEF Place
<1>6. \A u \in Oracle \ {o} :
        /\ tried'[u] = tried[u] /\ call'[u] = call[u] /\ ring'[u] = ring[u]
        /\ current'[u] = current[u] /\ lastWorking'[u] = lastWorking[u]
  BY <1>1 DEF FetchInv
<1> QED
  BY <1>1, <1>3, <1>4, <1>5, <1>6, NothingAsked DEF FetchInv

\* A provider more is asked; the mark is met when all have been (with_fallback).
LEMMA AttemptStep ==
  ASSUME FetchInv, NEW o \in Oracle, NEW answers \in BOOLEAN, Attempt(o, answers)
  PROVE  FetchInv'
<1> DEFINE w == lastWorking[o]
           k == Len(tried[o])
           onward == (current[o] + 1) % Ring
           p == ring[o][current[o] + 1]
<1>1. /\ call[o] = "trying" /\ Asked(ring[o], w, tried[o]) /\ k < Ring
      /\ current[o] = Place(w, k + 1)
      /\ w \in 0 .. Ring - 1 /\ current[o] \in 0 .. Ring - 1 /\ Ring \in Nat \ {0}
      /\ tried[o] \in Seq(Provider) /\ k \in Nat /\ ring[o] \in Shuffled
  BY ProvidersCounted DEF Attempt, FetchInv
<1>2. /\ tried' = [tried EXCEPT ![o] = Append(tried[o], p)]
      /\ ring' = ring /\ frame' = frame
  BY DEF Attempt
<1>3. p \in Provider
  BY <1>1, RingsAreInjective
<1>4. /\ Append(tried[o], p) \in Seq(Provider) /\ Len(Append(tried[o], p)) = k + 1
      /\ Append(tried[o], p)[k + 1] = p
      /\ \A i \in 1 .. k : Append(tried[o], p)[i] = tried[o][i]
  BY <1>1, <1>3
<1>5. Asked(ring[o], w, Append(tried[o], p))
  BY <1>1, <1>4 DEF Asked
<1>6. onward = IF current[o] + 1 = Ring THEN 0 ELSE current[o] + 1
  BY <1>1, NextPlace
<1>7. /\ tried' \in [Oracle -> Seq(Provider)] /\ tried'[o] = Append(tried[o], p)
      /\ \A u \in Oracle \ {o} : tried'[u] = tried[u]
  BY <1>2, <1>4 DEF FetchInv
<1>8. CASE answers
<2>1. /\ call' = [call EXCEPT ![o] = "fetched"] /\ current' = current
      /\ lastWorking' = [lastWorking EXCEPT ![o] = current[o]]
  BY <1>8 DEF Attempt
<2>2. /\ call' \in [Oracle -> {"none", "trying", "fetched", "failed"}]
      /\ lastWorking' \in [Oracle -> 0 .. Ring - 1]
      /\ call'[o] = "fetched" /\ lastWorking'[o] = current'[o]
      /\ \A u \in Oracle \ {o} : call'[u] = call[u] /\ lastWorking'[u] = lastWorking[u]
  BY <1>1, <2>1 DEF FetchInv
<2> QED
  BY <1>1, <1>2, <1>5, <1>7, <2>1, <2>2 DEF FetchInv
<1>9. CASE ~answers
<2>1. /\ call' = [call EXCEPT ![o] = IF w = onward THEN "failed" ELSE call[o]]
      /\ current' = [current EXCEPT ![o] = onward] /\ lastWorking' = lastWorking
  BY <1>9 DEF Attempt
<2>2. onward \in 0 .. Ring - 1
  BY <1>1, <1>6
<2>3. /\ call' \in [Oracle -> {"none", "trying", "fetched", "failed"}]
      /\ current' \in [Oracle -> 0 .. Ring - 1] /\ current'[o] = onward
      /\ call'[o] = IF w = onward THEN "failed" ELSE "trying"
      /\ \A u \in Oracle \ {o} : call'[u] = call[u] /\ current'[u] = current[u]
  BY <1>1, <2>1, <2>2 DEF FetchInv
<2>4. /\ w = onward <=> k + 1 = Ring
      /\ k + 1 < Ring => onward = Place(w, k + 2)
<3>1. w \in 0 .. Ring - 1 /\ k \in Nat /\ k < Ring /\ current[o] = Place(w, k + 1)
  BY <1>1
<3> HIDE DEF w, k, onward
<3> QED
  BY <3>1, <1>6, PlaceStep, SMTT(30)
<2> HIDE DEF onward, p
<2>6. CASE w = onward
  BY <1>1, <1>2, <1>4, <1>5, <1>7, <2>1, <2>3, <2>4, <2>6 DEF FetchInv
<2>7. CASE w # onward
<3>1. Len(tried'[o]) < Ring /\ current'[o] = Place(lastWorking'[o], Len(tried'[o]) + 1)
<4>1. k + 1 < Ring
  BY <1>1, <2>4, <2>7
<4>2. Len(tried'[o]) = k + 1 /\ lastWorking'[o] = w /\ k + 1 + 1 = k + 2
  BY <1>1, <1>4, <1>7, <2>1
<4> QED
  BY <2>3, <2>4, <4>1, <4>2
<3> QED
  BY <1>1, <1>2, <1>5, <1>7, <2>1, <2>3, <2>7, <3>1 DEF FetchInv
<2> QED
  BY <2>6, <2>7
<1> QED
  BY <1>8, <1>9

LEMMA FetchStep == FetchInv /\ [IpfsNext]_ipfsVars => FetchInv'
<1> SUFFICES ASSUME FetchInv, [IpfsNext]_ipfsVars PROVE FetchInv'
  OBVIOUS
<1>1. ASSUME NEW o \in Oracle, NEW f \in 0 .. MaxFetchFrame, Fetch(o, f) PROVE FetchInv'
  BY <1>1, FetchStart
<1>2. ASSUME NEW o \in Oracle, NEW answers \in BOOLEAN, Attempt(o, answers) PROVE FetchInv'
  BY <1>2, AttemptStep
<1>3. ASSUME NEW o \in Oracle, NEW done, Publish(o, done) PROVE FetchInv'
<2>1. /\ call[o] # "trying"
      /\ call' = [call EXCEPT ![o] = "none"] /\ tried' = [tried EXCEPT ![o] = <<>>]
      /\ UNCHANGED <<ring, frame, current, lastWorking>>
  BY <1>3 DEF Publish
<2>2. <<>> \in Seq(Provider) /\ 0 \in 0 .. Ring - 1
  BY ProvidersCounted
<2>3. /\ call' \in [Oracle -> {"none", "trying", "fetched", "failed"}]
      /\ tried' \in [Oracle -> Seq(Provider)]
      /\ call'[o] = "none" /\ tried'[o] = <<>>
      /\ \A u \in Oracle \ {o} : call'[u] = call[u] /\ tried'[u] = tried[u]
  BY <2>1, <2>2 DEF FetchInv
<2> QED
  BY <2>1, <2>2, <2>3, NothingAsked DEF FetchInv
<1>4. CASE UNCHANGED ipfsVars
  BY <1>4 DEF ipfsVars, FetchInv
<1> QED
  BY <1>1, <1>2, <1>3, <1>4 DEF IpfsNext

\* For every number of providers, whichever worked last and in whatever frame, a fetch
\* gives up only when it has asked each provider, and asks none twice (with_fallback).
THEOREM EveryProviderIsAsked == IpfsSpec => []FetchAsksEveryProvider
<1>1. ASSUME FetchInv PROVE FetchAsksEveryProvider
<2>1. SUFFICES ASSUME NEW o \in Oracle
               PROVE  /\ call[o] = "failed" => ToSet(tried[o]) = Provider
                      /\ IsInjective(tried[o])
  BY DEF FetchAsksEveryProvider
<2>2. /\ ring[o] \in Shuffled /\ tried[o] \in Seq(Provider)
      /\ call[o] = "failed" => Len(tried[o]) = Ring
      /\ \E w \in 0 .. Ring - 1 : Asked(ring[o], w, tried[o])
  BY <1>1 DEF FetchInv
<2> QED
  BY <2>2, AskedOnce
<1>2. FetchInv => FetchAsksEveryProvider
  BY <1>1
<1> QED
  BY <1>2, FetchInit, FetchStep, PTL DEF IpfsSpec

-----------------------------------------------------------------------------
(* Publishing *)

\* The uploads of an oracle are of different providers, and of the right CID when CIDs are
\* validated.
PublishInv ==
  /\ cidOf \in [Provider -> Cids] /\ validate \in BOOLEAN
  /\ uploads \in [Oracle -> Seq(Provider)]
  /\ \A o \in Oracle :
       /\ IsInjective(uploads[o])
       /\ validate => \A i \in DOMAIN uploads[o] : cidOf[uploads[o][i]] = RightCid

LEMMA PublishInit == IpfsInit => PublishInv
<1> SUFFICES ASSUME IpfsInit PROVE PublishInv
  OBVIOUS
<1>1. <<>> \in Seq(Provider) /\ DOMAIN <<>> = {}
  OBVIOUS
<1> QED
  BY <1>1 DEF IpfsInit, PublishInv, IsInjective

\* What publish gathers from its threads (SetToAllKPermutations).
LEMMA UploadsAreDistinct ==
  ASSUME NEW done \in Completions
  PROVE  done \in Seq(Provider) /\ IsInjective(done)
<1>1. PICK s \in SUBSET Provider : done \in SetToSeqs(s)
  BY IpfsAssumption DEF SetToAllKPermutations
<1>2. Cardinality(s) \in Nat
  BY ProvidersCounted, FS_Subset, FS_CardinalityType
<1> DEFINE n == Cardinality(s)
<1>3. /\ done \in [1 .. n -> s] /\ \A i, j \in 1 .. n : i # j => done[i] # done[j]
  BY <1>1 DEF SetToSeqs
<1>4. done \in [1 .. n -> Provider] /\ DOMAIN done = 1 .. n
  BY <1>3
<1> HIDE DEF n
<1>5. n \in Nat
  BY <1>2 DEF n
<1> QED
  BY <1>3, <1>4, <1>5 DEF IsInjective

LEMMA PublishStep == PublishInv /\ [IpfsNext]_ipfsVars => PublishInv'
<1> SUFFICES ASSUME PublishInv, [IpfsNext]_ipfsVars PROVE PublishInv'
  OBVIOUS
<1>1. ASSUME UNCHANGED <<validate, cidOf, uploads>> PROVE PublishInv'
  BY <1>1 DEF PublishInv
<1>2. ASSUME NEW o \in Oracle, NEW f, Fetch(o, f) PROVE PublishInv'
  BY <1>1, <1>2 DEF Fetch
<1>3. ASSUME NEW o \in Oracle, NEW answers, Attempt(o, answers) PROVE PublishInv'
  BY <1>1, <1>3 DEF Attempt
<1>4. ASSUME NEW o \in Oracle, NEW done \in Completions, Publish(o, done)
      PROVE  PublishInv'
<2>1. /\ \A i \in DOMAIN done : validate => cidOf[done[i]] = RightCid
      /\ uploads' = [uploads EXCEPT ![o] = done] /\ UNCHANGED <<validate, cidOf>>
  BY <1>4 DEF Publish, MaySucceed
<2>2. done \in Seq(Provider) /\ IsInjective(done)
  BY UploadsAreDistinct
<2>3. /\ uploads' \in [Oracle -> Seq(Provider)] /\ uploads'[o] = done
      /\ \A u \in Oracle \ {o} : uploads'[u] = uploads[u]
  BY <2>1, <2>2 DEF PublishInv
<2> QED
  BY <2>1, <2>2, <2>3 DEF PublishInv
<1>5. CASE UNCHANGED ipfsVars
  BY <1>1, <1>5 DEF ipfsVars
<1> QED
  BY <1>2, <1>3, <1>4, <1>5 DEF IpfsNext

\* Votes of a set of providers, in place of those of a sequence of uploads.
VotesOf(S, cid) == Cardinality({p \in S : cidOf[p] = cid})

\* What an oracle settles on by the set of its uploads alone.
SettledCid(S) ==
  LET quorum == {cid \in Cids : VotesOf(S, cid) >= Cardinality(S) \div 2 + 1}
  IN IF quorum # {} THEN CHOOSE cid \in quorum : TRUE
     ELSE cidOf[Providers[SelectInSeq(Providers, LAMBDA p : p \in S)]]

\* The uploads for a CID are as many as the providers that gave it.
LEMMA VotesCounted ==
  ASSUME NEW done \in Seq(Provider), IsInjective(done), NEW cid
  PROVE  Votes(done, cid) = VotesOf(ToSet(done), cid)
<1> DEFINE I == {i \in DOMAIN done : cidOf[done[i]] = cid}
           P == {p \in ToSet(done) : cidOf[p] = cid}
           f == [i \in I |-> done[i]]
<1>1. Len(done) \in Nat /\ DOMAIN done = 1 .. Len(done)
  BY LenProperties
<1>2. IsFiniteSet(I)
<2>1. IsFiniteSet(1 .. Len(done))
  BY <1>1, FS_Interval
<2> QED
  BY <1>1, <2>1, FS_Subset
<1>3. f \in Bijection(I, P)
<2>1. f \in [I -> P]
  BY DEF ToSet
<2>2. \A i, j \in I : f[i] = f[j] => i = j
  BY DEF IsInjective
<2>3. \A p \in P : \E i \in I : f[i] = p
  BY DEF ToSet
<2> HIDE DEF f, I, P
<2> QED
  BY <2>1, <2>2, <2>3 DEF Bijection, Injection, Surjection, IsInjective
<1>4. Cardinality(P) = Cardinality(I)
  BY <1>2, <1>3, FS_Bijection DEF ExistsBijection
<1> QED
  BY <1>4 DEF Votes, VotesOf

\* Neither the order of the uploads nor the oracle matters (_select_cid_with_quorum).
LEMMA SelectedBySet ==
  ASSUME NEW done \in Seq(Provider), IsInjective(done), NEW o
  PROVE  SelectedCid(o, done) = SettledCid(ToSet(done))
<1> DEFINE Q == {cid \in Cids : Votes(done, cid) >= Len(done) \div 2 + 1}
           R == {cid \in Cids : VotesOf(ToSet(done), cid) >= Cardinality(ToSet(done)) \div 2 + 1}
           p == Providers[SelectInSeq(Providers, LAMBDA x : x \in ToSet(done))]
<1>1. Len(done) = Cardinality(ToSet(done))
  BY ToSetOfInjective
<1>2. Q = R
  BY <1>1, VotesCounted, Zenon
<1>3. PriorityProvider(o, done) = p
  BY Zenon DEF PriorityProvider, SelectFirst
<1>4. SelectedCid(o, done)
        = IF Q # {} THEN CHOOSE cid \in Q : TRUE ELSE cidOf[PriorityProvider(o, done)]
  BY Zenon DEF SelectedCid
<1>5. SettledCid(ToSet(done)) = IF R # {} THEN CHOOSE cid \in R : TRUE ELSE cidOf[p]
  BY Zenon DEF SettledCid
<1> HIDE DEF Q, R, p
<1> QED
  BY <1>2, <1>3, <1>4, <1>5

\* With the right CID alone among the uploads it has the quorum.
LEMMA RightCidSelected ==
  ASSUME NEW done \in Seq(Provider), done # <<>>, NEW o,
         \A i \in DOMAIN done : cidOf[done[i]] = RightCid
  PROVE  SelectedCid(o, done) = RightCid
<1> DEFINE n == Len(done)
           quorum == {cid \in Cids : Votes(done, cid) >= n \div 2 + 1}
<1>1. n \in Nat \ {0} /\ DOMAIN done = 1 .. n
  BY LenProperties, EmptySeq
<1>2. Votes(done, RightCid) = n
<2>1. {i \in DOMAIN done : cidOf[done[i]] = RightCid} = 1 .. n
  BY <1>1
<2> HIDE DEF n
<2>2. Cardinality(1 .. n) = n
<3>1. n \in Int /\ 1 \in Int
  BY <1>1
<3>2. Cardinality(1 .. n) = IF 1 > n THEN 0 ELSE n - 1 + 1
  BY <3>1, FS_Interval, Zenon
<3> QED
  BY <1>1, <3>2
<2> QED
  BY <2>1, <2>2 DEF Votes
<1>3. ASSUME NEW cid \in Cids, cid # RightCid PROVE Votes(done, cid) = 0
<2>1. {i \in DOMAIN done : cidOf[done[i]] = cid} = {}
  BY <1>3
<2> QED
  BY <2>1, FS_EmptySet DEF Votes
<1> HIDE DEF n
<1>4. n \div 2 + 1 \in Nat \ {0} /\ n \div 2 + 1 <= n
  BY <1>1
<1>5. quorum = {RightCid}
<2>1. RightCid \in quorum
  BY <1>1, <1>2, <1>4, IpfsAssumption
<2>2. ASSUME NEW cid \in quorum PROVE cid = RightCid
<3>1. cid \in Cids /\ Votes(done, cid) >= n \div 2 + 1
  BY <2>2
<3> QED
  BY <1>3, <1>4, <3>1
<2> QED
  BY <2>1, <2>2
<1>6. SelectedCid(o, done) = IF quorum # {} THEN CHOOSE cid \in quorum : TRUE
                             ELSE cidOf[PriorityProvider(o, done)]
  BY DEF SelectedCid, n
<1> HIDE DEF quorum
<1> QED
  BY <1>5, <1>6

LEMMA PartsAddUp ==
  ASSUME NEW A, NEW B, IsFiniteSet(A), IsFiniteSet(B), A \cap B = {}
  PROVE  Cardinality(A \cup B) = Cardinality(A) + Cardinality(B)
<1>1. Cardinality(A \cup B) = Cardinality(A) + Cardinality(B) - Cardinality(A \cap B)
  BY FS_Union
<1>2. Cardinality(A \cap B) = 0
  BY FS_EmptySet
<1>3. Cardinality(A) \in Nat /\ Cardinality(B) \in Nat
  BY FS_CardinalityType
<1>4. PICK a \in Nat, b \in Nat : a = Cardinality(A) /\ b = Cardinality(B)
  BY <1>3
<1> QED
  BY <1>1, <1>2, <1>4

\* A CID whose providers outnumber the rest and the failures has the quorum, and alone.
LEMMA MajoritySettles ==
  ASSUME NEW done \in Seq(Provider), NEW cid \in Cids, Outnumbers(cid, done)
  PROVE  SettledCid(ToSet(done)) = cid
<1> DEFINE S == ToSet(done)
           G == {p \in Provider : cidOf[p] = cid}
           A == {p \in S : cidOf[p] = cid}
           B == S \ A
           Q == {c \in Cids : VotesOf(S, c) >= Cardinality(S) \div 2 + 1}
<1>1. S \subseteq Provider /\ IsFiniteSet(Provider)
  BY ProvidersCounted DEF ToSet
<1>2. /\ IsFiniteSet(S) /\ IsFiniteSet(A) /\ IsFiniteSet(B) /\ IsFiniteSet(G)
      /\ IsFiniteSet(Provider \ G) /\ IsFiniteSet(Provider \ S) /\ IsFiniteSet(G \cap (Provider \ S))
  BY <1>1, FS_Subset
<1>3. Cardinality(G) > Cardinality(Provider \ G) + Cardinality(Provider \ S)
  BY DEF Outnumbers
<1>4. Cardinality(B) <= Cardinality(Provider \ G) /\ Cardinality(B) \in Nat
<2>1. B \subseteq Provider \ G
  BY <1>1
<2> HIDE DEF B, G
<2> QED
  BY <1>2, <2>1, FS_Subset, FS_CardinalityType
<1>5. /\ Cardinality(A) >= Cardinality(G) - Cardinality(Provider \ S)
      /\ Cardinality(A) \in Nat /\ Cardinality(G) \in Nat
      /\ Cardinality(Provider \ S) \in Nat /\ Cardinality(Provider \ G) \in Nat
<2> DEFINE X == G \cap (Provider \ S)
<2>1. G = A \cup X /\ A \cap X = {} /\ X \subseteq Provider \ S
  BY <1>1
<2> HIDE DEF A, G, S, X
<2>2. IsFiniteSet(X) /\ Cardinality(X) \in Nat /\ Cardinality(X) <= Cardinality(Provider \ S)
  BY <1>2, <2>1, FS_Subset, FS_CardinalityType
<2>3. Cardinality(G) = Cardinality(A) + Cardinality(X)
  BY <1>2, <2>1, <2>2, PartsAddUp
<2>4. /\ Cardinality(A) \in Nat /\ Cardinality(G) \in Nat
      /\ Cardinality(Provider \ S) \in Nat /\ Cardinality(Provider \ G) \in Nat
  BY <1>2, FS_CardinalityType
<2> QED
  BY <2>2, <2>3, <2>4
<1>6. Cardinality(S) = Cardinality(A) + Cardinality(B)
<2>1. S = A \cup B /\ A \cap B = {}
  OBVIOUS
<2> HIDE DEF A, B, S
<2> QED
  BY <1>2, <2>1, PartsAddUp
<1>7. VotesOf(S, cid) = Cardinality(A)
  BY DEF VotesOf
<1>8. ASSUME NEW c \in Cids, c # cid PROVE VotesOf(S, c) \in Nat /\ VotesOf(S, c) <= Cardinality(B)
<2> DEFINE C == {p \in S : cidOf[p] = c}
<2>1. C \subseteq B
  BY <1>8
<2>2. VotesOf(S, c) = Cardinality(C)
  BY DEF VotesOf
<2> HIDE DEF B, C
<2> QED
  BY <1>2, <2>1, <2>2, FS_Subset, FS_CardinalityType
<1> DEFINE a == Cardinality(A)
           b == Cardinality(B)
           n == Cardinality(S)
<1>9. a \in Nat /\ b \in Nat /\ n = a + b /\ b < a
<2> HIDE DEF A, B, G, S
<2> QED
  BY <1>3, <1>4, <1>5, <1>6
<1> HIDE DEF a, b, n
<1>10. a >= n \div 2 + 1 /\ b < n \div 2 + 1 /\ n \div 2 + 1 \in Nat
  BY <1>9
<1>11. Q = {cid}
<2>1. cid \in Q
  BY <1>7, <1>10 DEF a, n
<2>2. ASSUME NEW c \in Q PROVE c = cid
<3>1. c \in Cids /\ VotesOf(S, c) >= n \div 2 + 1
  BY <2>2 DEF n
<3>2. c # cid => VotesOf(S, c) \in Nat /\ VotesOf(S, c) <= b
  BY <1>8, <3>1 DEF b
<3> HIDE DEF S
<3> QED
  BY <1>9, <1>10, <3>1, <3>2
<2> HIDE DEF Q
<2> QED
  BY <2>1, <2>2
<1>12. SettledCid(S) = IF Q # {} THEN CHOOSE c \in Q : TRUE
                       ELSE cidOf[Providers[SelectInSeq(Providers, LAMBDA p : p \in S)]]
  BY Zenon DEF SettledCid
<1> HIDE DEF Q
<1> QED
  BY <1>11, <1>12

\* Any number of oracles settle on one CID for one content: the right one when they validate
\* it, whatever uploads fail; otherwise that of their common uploads, in whatever order these
\* completed and however each oracle's ring is shuffled, or the one whose providers outnumber
\* the rest and each oracle's failures (publish, _select_cid_with_quorum).
THEOREM OneCidForOneContent == IpfsSpec => []OraclesAgreeOnCid
<1>1. ASSUME PublishInv PROVE OraclesAgreeOnCid
<2>1. SUFFICES ASSUME NEW o \in Oracle, NEW u \in Oracle,
                      uploads[o] # <<>>, uploads[u] # <<>>,
                      \/ validate
                      \/ ToSet(uploads[o]) = ToSet(uploads[u])
                      \/ \E cid \in Cids : Outnumbers(cid, uploads[o]) /\ Outnumbers(cid, uploads[u])
               PROVE  SelectedCid(o, uploads[o]) = SelectedCid(u, uploads[u])
  BY DEF OraclesAgreeOnCid
<2>2. /\ uploads[o] \in Seq(Provider) /\ IsInjective(uploads[o])
      /\ uploads[u] \in Seq(Provider) /\ IsInjective(uploads[u])
  BY <1>1 DEF PublishInv
<2>3. CASE validate
<3>1. /\ \A i \in DOMAIN uploads[o] : cidOf[uploads[o][i]] = RightCid
      /\ \A i \in DOMAIN uploads[u] : cidOf[uploads[u][i]] = RightCid
  BY <1>1, <2>3 DEF PublishInv
<3> QED
  BY <2>1, <2>2, <3>1, RightCidSelected
<2>4. CASE ToSet(uploads[o]) = ToSet(uploads[u])
  BY <2>2, <2>4, SelectedBySet
<2>5. CASE \E cid \in Cids : Outnumbers(cid, uploads[o]) /\ Outnumbers(cid, uploads[u])
<3>1. PICK cid \in Cids : Outnumbers(cid, uploads[o]) /\ Outnumbers(cid, uploads[u])
  BY <2>5
<3> QED
  BY <2>2, <3>1, SelectedBySet, MajoritySettles
<2> QED
  BY <2>1, <2>3, <2>4, <2>5
<1>2. PublishInv => OraclesAgreeOnCid
  BY <1>1
<1> QED
  BY <1>2, PublishInit, PublishStep, PTL DEF IpfsSpec

-----------------------------------------------------------------------------
(* Rewards and strikes of a staking module *)

\* What a frame makes of the validators of the module: what they earn, what goes back, strikes.
Outcomes ==
  UNION {[D -> [share : Nat, rebate : Nat, strikes : {0, 1}]] : D \in SUBSET DOMAIN OperatorOf}

TypedEnds(e) == e \in Seq([pending : Int, fresh : Nat, outcomes : Outcomes])

TypedRewards(m) == DOMAIN m \subseteq NodeOperator /\ \A o \in DOMAIN m : m[o] \in Nat

LEMMA CeilOfShare ==
  ASSUME NEW a \in Nat, NEW bp \in 0 .. BP
  PROVE  CeilDiv(a * bp, BP) \in 0 .. a
<1>1. bp \in Nat /\ bp <= 10000 /\ BP = 10000
  BY DEF BP
<1>2. a * bp \in Nat /\ a * bp <= a * 10000
<2>1. 10000 - bp \in Nat /\ a * (10000 - bp) \in Nat
  BY <1>1
<2>2. a * (10000 - bp) = a * 10000 - a * bp /\ a * bp \in Nat
  BY <1>1
<2> QED
  BY <2>1, <2>2
<1> DEFINE x == a * bp
<1>3. x \in Nat /\ x <= a * 10000
  BY <1>2
<1>4. CeilDiv(x, BP) = (x + 9999) \div 10000
<2> HIDE DEF x
<2> QED
  BY <1>3 DEF CeilDiv, BP
<1> HIDE DEF x
<1>5. (x + 9999) \div 10000 \in 0 .. a
  BY <1>3
<1> QED
  BY <1>4, <1>5 DEF x

LEMMA GetForType ==
  ASSUME NEW list \in {Leeway, RewardShare}, NEW n \in Nat, n >= 1
  PROVE  GetFor(list, n) \in 0 .. BP
<1> DEFINE J == {j \in DOMAIN list : list[j][1] <= n}
<1>1. /\ list \in Seq(Nat \X (0 .. BP)) /\ list # <<>> /\ list[1][1] = 1
  BY DistributionAssumption
<1>2. Len(list) \in Nat /\ DOMAIN list = 1 .. Len(list) /\ 1 \in DOMAIN list
  BY <1>1
<1>3. J \in SUBSET (0 .. Len(list)) /\ J # {}
<2>1. 1 \in J
  BY <1>1, <1>2
<2> QED
  BY <1>2, <2>1
<1>4. Max(J) \in J
<2> HIDE DEF J
<2> QED
  BY <1>2, <1>3, MaxUpTo
<1>5. list[Max(J)] \in Nat \X (0 .. BP)
<2>1. Max(J) \in DOMAIN list
  BY <1>4
<2> QED
  BY <1>1, <2>1
<1> QED
  BY <1>5 DEF GetFor

\* What the epochs of a frame make of the validators is well typed.
LEMMA OutcomesTyped ==
  ASSUME NEW f \in Nat, NEW misses, NEW slashed
  PROVE  OutcomesIn(Duties(f, misses), slashed) \in Outcomes
<1> DEFINE duties == Duties(f, misses)
<1>1. DOMAIN duties \subseteq Validators /\ DOMAIN OperatorOf \subseteq Validators
  BY DistributionAssumption DEF Duties
<1>2. ASSUME NEW v \in DOMAIN duties PROVE duties[v].assigned \in Nat
<2>1. duties[v].assigned = ActiveEpochs(v, f)
  BY DEF Duties
<2>2. FirstEpoch(f) \in Int /\ LastEpoch(f) \in Int
  BY DistributionAssumption DEF FirstEpoch, LastEpoch
<2>3. IsFiniteSet(FirstEpoch(f) .. LastEpoch(f))
  BY <2>2, FS_Interval
<2>4. ActiveEpochs(v, f) \in Nat
<3> DEFINE E == {e \in FirstEpoch(f) .. LastEpoch(f) : Active[v][1] <= e /\ e <= Active[v][2]}
<3>1. E \subseteq FirstEpoch(f) .. LastEpoch(f)
  OBVIOUS
<3>2. IsFiniteSet(E)
<4> HIDE DEF E
<4> QED
  BY <2>3, <3>1, FS_Subset
<3>3. Cardinality(E) \in Nat
<4> HIDE DEF E
<4> QED
  BY <3>2, FS_CardinalityType
<3> QED
  BY <3>3 DEF ActiveEpochs
<2> QED
  BY <2>1, <2>4
<1> HIDE DEF duties
<1>3. ASSUME NEW v \in DOMAIN OperatorOf \cap DOMAIN duties
      PROVE  KeyNumber(v, duties) \in Nat /\ KeyNumber(v, duties) >= 1
<2> DEFINE K == {u \in ValidatorsOfOperator(OperatorOf[v]) \cap DOMAIN duties :
                   Balance[u] > Balance[v] \/ (Balance[u] = Balance[v] /\ u < v)}
<2>1. K \subseteq Validators
  BY <1>1
<2>2. IsFiniteSet(K)
<3> HIDE DEF K
<3> QED
  BY <2>1, DistributionAssumption, FS_Subset
<2>3. Cardinality(K) \in Nat
<3> HIDE DEF K
<3> QED
  BY <2>2, FS_CardinalityType
<2>4. KeyNumber(v, duties) = 1 + Cardinality(K)
  BY DEF KeyNumber
<2> HIDE DEF K
<2> QED
  BY <2>3, <2>4
<1>4. ASSUME NEW v \in DOMAIN OperatorOf \cap DOMAIN duties
      PROVE  Outcome(v, duties, slashed) \in [share : Nat, rebate : Nat, strikes : {0, 1}]
<2> DEFINE m == Max({MinActivation, Balance[v]})
           a == duties[v].assigned * m
           bp == GetFor(RewardShare, KeyNumber(v, duties))
           s == CeilDiv(a * bp, BP)
<2>1. MinActivation \in Nat /\ Balance[v] \in Nat
  BY <1>1, DistributionAssumption
<2>2. m \in Nat
<3>1. MinActivation \in Int /\ Balance[v] \in Int
  BY <2>1
<3>2. Max({MinActivation, Balance[v]}) = MinActivation \/ Max({MinActivation, Balance[v]}) = Balance[v]
  BY <3>1, MaxOfTwo
<3> QED
  BY <2>1, <3>2
<2>3. a \in Nat
<3>1. duties[v].assigned \in Nat
  BY <1>2
<3> HIDE DEF m
<3> QED
  BY <2>2, <3>1
<2>4. bp \in 0 .. BP
  BY <1>3, GetForType
<2>5. s \in 0 .. a
<3> HIDE DEF a, bp
<3> QED
  BY <2>3, <2>4, CeilOfShare
<2>6. s \in Nat /\ a - s \in Nat
<3> HIDE DEF a, s
<3> QED
  BY <2>3, <2>5
<2>7. \/ \E i \in {0, 1} :
            Outcome(v, duties, slashed) = [share |-> 0, rebate |-> 0, strikes |-> i]
      \/ Outcome(v, duties, slashed) = [share |-> s, rebate |-> a - s, strikes |-> 0]
<3> HIDE DEF s, a
<3>1. 0 \in {0, 1} /\ 1 \in {0, 1}
  OBVIOUS
<3> QED
  BY <3>1, Zenon DEF Outcome, s, a
<2> HIDE DEF s, a
<2> QED
  BY <2>6, <2>7
<1>5. OutcomesIn(duties, slashed)
        = [v \in DOMAIN OperatorOf \cap DOMAIN duties |-> Outcome(v, duties, slashed)]
  BY DEF OutcomesIn
<1> QED
  BY <1>4, <1>5 DEF Outcomes, duties

\* What a frame gives the operators, whatever there is to distribute.
LEMMA RewardsTyped ==
  ASSUME NEW x \in Outcomes, NEW rewards \in Nat
  PROVE  TypedRewards(RewardsIn(x, rewards))
<1> DEFINE V(o) == ValidatorsOfOperator(o) \cap DOMAIN x
           share(o) == [v \in V(o) |-> x[v].share]
           shares == [o \in NodeOperator |-> Total(share(o))]
           all == [v \in DOMAIN x |-> x[v].share + x[v].rebate]
           total == Total(all)
<1>1. IsFiniteSet(DOMAIN x)
<2>1. DOMAIN x \subseteq Validators
  BY DistributionAssumption DEF Outcomes
<2> QED
  BY <2>1, DistributionAssumption, FS_Subset
<1>2. \A v \in DOMAIN x : x[v].share \in Nat /\ all[v] \in Nat /\ x[v].share <= all[v]
  BY DEF Outcomes
<1>3. total \in Nat /\ \A v \in DOMAIN x : all[v] <= total
<2>1. DOMAIN all = DOMAIN x
  OBVIOUS
<2> HIDE DEF all
<2>2. /\ SumFunctionOnSet(all, DOMAIN x) \in Nat
      /\ \A v \in DOMAIN x : all[v] <= SumFunctionOnSet(all, DOMAIN x)
  BY <1>1, <1>2, SumOfNats
<2> QED
  BY <2>1, <2>2 DEF Total
<1>4. ASSUME NEW o \in NodeOperator
      PROVE  shares[o] \in Nat /\ (shares[o] > 0 => total > 0)
<2> DEFINE s == share(o)
<2>1. DOMAIN s = V(o) /\ V(o) \subseteq DOMAIN x /\ \A v \in V(o) : s[v] = x[v].share
  OBVIOUS
<2>2. IsFiniteSet(V(o))
  BY <1>1, FS_Subset
<2>3. \A v \in V(o) : s[v] \in Nat
  BY <1>2, <2>1
<2>4. shares[o] = SumFunctionOnSet(s, V(o))
  BY DEF Total
<2> HIDE DEF s, V, shares
<2>5. /\ SumFunctionOnSet(s, V(o)) \in Nat
      /\ SumFunctionOnSet(s, V(o)) # 0 => \E v \in V(o) : s[v] # 0
  BY <2>2, <2>3, SumOfNats
<2>6. ASSUME shares[o] > 0 PROVE total > 0
<3>1. PICK v \in V(o) : s[v] # 0
  BY <2>4, <2>5, <2>6
<3>2. x[v].share # 0 /\ v \in DOMAIN x
  BY <2>1, <3>1
<3>3. x[v].share \in Nat /\ all[v] \in Nat /\ x[v].share <= all[v] /\ all[v] <= total
  BY <1>2, <1>3, <3>2
<3> HIDE DEF all, total
<3> QED
  BY <1>3, <3>2, <3>3
<2> QED
  BY <2>4, <2>5, <2>6
<1>5. RewardsIn(x, rewards) = [o \in {o \in NodeOperator : shares[o] > 0} |-> (rewards * shares[o]) \div total]
  BY Zenon DEF RewardsIn
<1>6. ASSUME NEW o \in NodeOperator, shares[o] > 0
      PROVE  (rewards * shares[o]) \div total \in Nat
<2> DEFINE a == rewards * shares[o]
<2>1. shares[o] \in Nat /\ total \in Nat \ {0}
  BY <1>3, <1>4, <1>6
<2> HIDE DEF shares, total
<2>2. a \in Nat
  BY <2>1
<2> HIDE DEF a
<2>3. a \div total \in Nat
  BY <2>1, <2>2
<2> QED
  BY <2>3 DEF a
<1> HIDE DEF shares, total
<1> QED
  BY <1>5, <1>6 DEF TypedRewards

\* The sum of what is given.
LEMMA TotalOfRewards ==
  ASSUME NEW m, TypedRewards(m)
  PROVE  /\ Total(m) \in Nat
         /\ Total(m) = 0 => \A o \in NodeOperator : Of(m, o) = 0
         /\ Total(m) > 0 => DOMAIN m # {}
         /\ \A o \in NodeOperator : Of(m, o) \in Nat
<1>1. IsFiniteSet(DOMAIN m) /\ \A o \in DOMAIN m : m[o] \in Nat
  BY DistributionAssumption, FS_Subset DEF TypedRewards
<1>2. /\ Total(m) \in Nat /\ \A o \in DOMAIN m : m[o] <= Total(m)
      /\ Total(m) # 0 => \E o \in DOMAIN m : m[o] # 0
  BY <1>1, SumOfNats DEF Total
<1> QED
  BY <1>1, <1>2 DEF Of

-----------------------------------------------------------------------------

\* What was received in the first n frames, and what they give an operator.
FreshTo(e, n) == Total([f \in 0 .. n - 1 |-> e[f + 1].fresh])
Gives(e, o, f) == Of(RewardsIn(e[f + 1].outcomes, e[f + 1].fresh), o)
OwedTo(e, o, n) == Total([f \in 0 .. n - 1 |-> Gives(e, o, f)])

LEMMA EndsTyped ==
  ASSUME NEW e, TypedEnds(e), NEW f \in 0 .. Len(e) - 1
  PROVE  /\ f + 1 \in DOMAIN e
         /\ e[f + 1].pending \in Int /\ e[f + 1].fresh \in Nat /\ e[f + 1].outcomes \in Outcomes
         /\ \A o \in NodeOperator : Gives(e, o, f) \in Nat
<1>1. e[f + 1] \in [pending : Int, fresh : Nat, outcomes : Outcomes] /\ f + 1 \in DOMAIN e
<2> DEFINE T == [pending : Int, fresh : Nat, outcomes : Outcomes]
<2>1. e \in Seq(T)
  BY DEF TypedEnds
<2> HIDE DEF T
<2>2. f + 1 \in 1 .. Len(e) /\ f + 1 \in DOMAIN e
  BY <2>1
<2>3. e[f + 1] \in T
  BY <2>1, <2>2
<2> QED
  BY <2>2, <2>3 DEF T
<1>2. e[f + 1].pending \in Int /\ e[f + 1].fresh \in Nat /\ e[f + 1].outcomes \in Outcomes
  BY <1>1
<1>3. TypedRewards(RewardsIn(e[f + 1].outcomes, e[f + 1].fresh))
  BY <1>2, RewardsTyped
<1>4. \A o \in NodeOperator : Gives(e, o, f) \in Nat
  BY <1>3, TotalOfRewards DEF Gives
<1> QED
  BY <1>1, <1>2, <1>4

\* A sum over the first frames, from what each of them adds.
LEMMA FramesSum ==
  ASSUME NEW n \in Nat, NEW g, \A f \in 0 .. n - 1 : g[f] \in Nat
  PROVE  /\ Total([f \in 0 .. n - 1 |-> g[f]]) = SumFunctionOnSet(g, 0 .. n - 1)
         /\ SumFunctionOnSet(g, 0 .. n - 1) \in Nat
<1> DEFINE h == [f \in 0 .. n - 1 |-> g[f]]
<1>1. IsFiniteSet(0 .. n - 1)
  BY FS_Interval
<1>2. DOMAIN h = 0 .. n - 1 /\ \A f \in 0 .. n - 1 : g[f] \in Int /\ h[f] = g[f]
  OBVIOUS
<1> HIDE DEF h
<1>3. SumFunctionOnSet(h, 0 .. n - 1) = SumFunctionOnSet(g, 0 .. n - 1)
  BY <1>1, <1>2, SumSame
<1>4. SumFunctionOnSet(g, 0 .. n - 1) \in Nat
  BY <1>1, SumFacts
<1> QED
  BY <1>2, <1>3, <1>4 DEF Total, h

LEMMA SumsOfFrames ==
  ASSUME NEW e, TypedEnds(e), NEW n \in 0 .. Len(e)
  PROVE  /\ FreshTo(e, n) \in Nat
         /\ n < Len(e) => FreshTo(e, n + 1) = FreshTo(e, n) + e[n + 1].fresh
         /\ \A o \in NodeOperator :
              /\ OwedTo(e, o, n) \in Nat
              /\ n < Len(e) => OwedTo(e, o, n + 1) = OwedTo(e, o, n) + Gives(e, o, n)
<1>0. Len(e) \in Nat /\ n \in Nat
  BY DEF TypedEnds
<1>1. ASSUME NEW g, \A f \in 0 .. Len(e) - 1 : g[f] \in Nat
      PROVE  /\ Total([f \in 0 .. n - 1 |-> g[f]]) \in Nat
             /\ n < Len(e) => Total([f \in 0 .. (n + 1) - 1 |-> g[f]])
                                = Total([f \in 0 .. n - 1 |-> g[f]]) + g[n]
<2>1. \A f \in 0 .. n - 1 : g[f] \in Nat
  BY <1>0, <1>1
<2>2. /\ Total([f \in 0 .. n - 1 |-> g[f]]) = SumFunctionOnSet(g, 0 .. n - 1)
      /\ SumFunctionOnSet(g, 0 .. n - 1) \in Nat
  BY <1>0, <2>1, FramesSum
<2>3. ASSUME n < Len(e)
      PROVE  Total([f \in 0 .. (n + 1) - 1 |-> g[f]]) = SumFunctionOnSet(g, 0 .. n - 1) + g[n]
<3>1. \A f \in 0 .. n : g[f] \in Nat
  BY <1>0, <1>1, <2>3
<3>2. (n + 1) - 1 = n /\ n + 1 \in Nat
  BY <1>0
<3>3. \A f \in 0 .. (n + 1) - 1 : g[f] \in Nat
  BY <3>1, <3>2
<3>4. Total([f \in 0 .. (n + 1) - 1 |-> g[f]]) = SumFunctionOnSet(g, 0 .. (n + 1) - 1)
  BY <3>2, <3>3, FramesSum
<3>5. SumFunctionOnSet(g, 0 .. n) = SumFunctionOnSet(g, 0 .. n - 1) + g[n]
<4>1. \A f \in 0 .. n : g[f] \in Int
  BY <3>1
<4> QED
  BY <1>0, <4>1, SumUpTo
<3> QED
  BY <3>2, <3>4, <3>5
<2> QED
  BY <2>2, <2>3
<1>2. FreshTo(e, n) \in Nat /\ (n < Len(e) => FreshTo(e, n + 1) = FreshTo(e, n) + e[n + 1].fresh)
<2> DEFINE g == [f \in 0 .. Len(e) - 1 |-> e[f + 1].fresh]
<2>1. \A f \in 0 .. Len(e) - 1 : g[f] \in Nat
  BY EndsTyped
<2>2. [f \in 0 .. n - 1 |-> g[f]] = [f \in 0 .. n - 1 |-> e[f + 1].fresh]
  BY <1>0
<2>3. n < Len(e) => /\ [f \in 0 .. (n + 1) - 1 |-> g[f]] = [f \in 0 .. (n + 1) - 1 |-> e[f + 1].fresh]
                    /\ g[n] = e[n + 1].fresh
  BY <1>0
<2> HIDE DEF g
<2>4. /\ Total([f \in 0 .. n - 1 |-> g[f]]) \in Nat
      /\ n < Len(e) => Total([f \in 0 .. (n + 1) - 1 |-> g[f]])
                         = Total([f \in 0 .. n - 1 |-> g[f]]) + g[n]
  BY <1>1, <2>1
<2> QED
  BY <2>2, <2>3, <2>4, Zenon DEF FreshTo
<1>3. ASSUME NEW o \in NodeOperator
      PROVE  /\ OwedTo(e, o, n) \in Nat
             /\ n < Len(e) => OwedTo(e, o, n + 1) = OwedTo(e, o, n) + Gives(e, o, n)
<2> DEFINE g == [f \in 0 .. Len(e) - 1 |-> Gives(e, o, f)]
<2>1. \A f \in 0 .. Len(e) - 1 : g[f] \in Nat
  BY EndsTyped
<2>2. [f \in 0 .. n - 1 |-> g[f]] = [f \in 0 .. n - 1 |-> Gives(e, o, f)]
  BY <1>0
<2>3. n < Len(e) => /\ [f \in 0 .. (n + 1) - 1 |-> g[f]] = [f \in 0 .. (n + 1) - 1 |-> Gives(e, o, f)]
                    /\ g[n] = Gives(e, o, n)
  BY <1>0
<2> HIDE DEF g
<2>4. /\ Total([f \in 0 .. n - 1 |-> g[f]]) \in Nat
      /\ n < Len(e) => Total([f \in 0 .. (n + 1) - 1 |-> g[f]])
                         = Total([f \in 0 .. n - 1 |-> g[f]]) + g[n]
  BY <1>1, <2>1
<2> QED
  BY <2>2, <2>3, <2>4, Zenon DEF OwedTo
<1> QED
  BY <1>2, <1>3

\* The strikes of a validator in a frame, and in the last ones of n frames.
Strike(e, v, f) == IF f >= 0 /\ v \in StrikesIn(e[f + 1].outcomes) THEN 1 ELSE 0
StrikesOfLast(e, v, n) == [i \in 1 .. Lifetime |-> Strike(e, v, n - i)]

AreStrikes(e, s, n) ==
  \A v \in DOMAIN OperatorOf :
    IF v \in DOMAIN s THEN s[v] = StrikesOfLast(e, v, n)
    ELSE \A i \in 1 .. Lifetime : Strike(e, v, n - i) = 0

\* A frame that is appended changes nothing of those before.
Carries(d, e, x) ==
  /\ TypedEnds(d) /\ Len(d) = Len(e) + 1 /\ d[Len(e) + 1] = x
  /\ \A f \in 0 .. Len(e) - 1 : d[f + 1] = e[f + 1]
  /\ \A n \in 0 .. Len(e) :
       /\ FreshTo(d, n) = FreshTo(e, n)
       /\ \A o \in NodeOperator : OwedTo(d, o, n) = OwedTo(e, o, n)
       /\ \A s : AreStrikes(e, s, n) => AreStrikes(d, s, n)

LEMMA LaterFrames ==
  ASSUME NEW e, TypedEnds(e), NEW x \in [pending : Int, fresh : Nat, outcomes : Outcomes]
  PROVE  Carries(Append(e, x), e, x)
<1> DEFINE d == Append(e, x)
<1>1. /\ TypedEnds(d) /\ Len(d) = Len(e) + 1 /\ d[Len(e) + 1] = x /\ Len(e) \in Nat
      /\ \A f \in 0 .. Len(e) - 1 : d[f + 1] = e[f + 1]
  BY DEF TypedEnds
<1> HIDE DEF d
<1>2. ASSUME NEW n \in 0 .. Len(e)
      PROVE  /\ FreshTo(d, n) = FreshTo(e, n)
             /\ \A o \in NodeOperator : OwedTo(d, o, n) = OwedTo(e, o, n)
<2>1. \A f \in 0 .. n - 1 : d[f + 1] = e[f + 1]
  BY <1>1
<2>2. [f \in 0 .. n - 1 |-> d[f + 1].fresh] = [f \in 0 .. n - 1 |-> e[f + 1].fresh]
  BY <2>1
<2>3. \A o \in NodeOperator :
        [f \in 0 .. n - 1 |-> Gives(d, o, f)] = [f \in 0 .. n - 1 |-> Gives(e, o, f)]
<3> SUFFICES ASSUME NEW o \in NodeOperator, NEW f \in 0 .. n - 1 PROVE Gives(d, o, f) = Gives(e, o, f)
  BY Zenon
<3> QED
  BY <2>1, Zenon DEF Gives
<2> QED
  BY <2>2, <2>3, Zenon DEF FreshTo, OwedTo
<1>3. ASSUME NEW n \in 0 .. Len(e), NEW s, AreStrikes(e, s, n) PROVE AreStrikes(d, s, n)
<2>1. ASSUME NEW v, NEW i \in 1 .. Lifetime PROVE Strike(d, v, n - i) = Strike(e, v, n - i)
<3> DEFINE f == n - i
<3>1. f \in Int /\ f <= Len(e) - 1
  BY <1>1, DistributionAssumption
<3>2. f >= 0 => d[f + 1] = e[f + 1]
<4> HIDE DEF f
<4> QED
  BY <1>1, <3>1
<3> QED
  BY <3>2, Zenon DEF Strike
<2>2. \A v : StrikesOfLast(d, v, n) = StrikesOfLast(e, v, n)
  BY <2>1, Zenon DEF StrikesOfLast
<2> QED
  BY <1>3, <2>1, <2>2, Zenon DEF AreStrikes
<1>4. Carries(d, e, x)
  BY <1>1, <1>2, <1>3 DEF Carries
<1> QED
  BY <1>4 DEF d

\* One frame more shifts the lists and puts its strikes in front.
LEMMA StrikesShift ==
  ASSUME NEW e, NEW n \in Nat, NEW s, AreStrikes(e, s, n),
         NEW struck, struck = StrikesIn(e[n + 1].outcomes)
  PROVE  AreStrikes(e, ProcessStrikes(s, struck), n + 1)
<1> DEFINE list(v) == IF v \in DOMAIN s THEN s[v] ELSE <<>>
           bit(v) == IF v \in struck THEN 1 ELSE 0
           onward == [v \in DOMAIN s \cup struck |-> Resize(Push(list(v), bit(v)), Lifetime)]
           kept == {v \in DOMAIN onward : \E i \in DOMAIN onward[v] : onward[v][i] # 0}
<1>0. Lifetime \in Nat \ {0}
  BY DistributionAssumption
<1>1. ProcessStrikes(s, struck) = [v \in kept |-> onward[v]]
  BY Zenon DEF ProcessStrikes
<1>2. \A v : Strike(e, v, n) = bit(v)
  BY DEF Strike
<1>3. ASSUME NEW v, NEW i \in 1 .. Lifetime
      PROVE  StrikesOfLast(e, v, n + 1)[i]
               = IF i = 1 THEN bit(v) ELSE Strike(e, v, n - (i - 1))
<2>1. StrikesOfLast(e, v, n + 1)[i] = Strike(e, v, (n + 1) - i)
  BY DEF StrikesOfLast
<2>2. i = 1 => (n + 1) - i = n
  OBVIOUS
<2>3. (n + 1) - i = n - (i - 1)
  BY <1>0
<2> QED
  BY <1>2, <2>1, <2>2, <2>3, Zenon
<1>4. ASSUME NEW v \in DOMAIN OperatorOf \cap (DOMAIN s \cup struck)
      PROVE  onward[v] = StrikesOfLast(e, v, n + 1)
<2> DEFINE l == list(v)
           x == bit(v)
           p == Push(l, x)
<2>1. onward[v] = Resize(p, Lifetime)
  OBVIOUS
<2> HIDE DEF onward, bit, list
<2>2. CASE v \in DOMAIN s
<3>1. l = StrikesOfLast(e, v, n)
  BY <2>2, Zenon DEF AreStrikes, list
<3>2. l \in Seq(Int) /\ Len(l) = Lifetime /\ \A i \in 1 .. Lifetime : l[i] = Strike(e, v, n - i)
<4>1. \A i \in 1 .. Lifetime : Strike(e, v, n - i) \in Int
  BY DEF Strike
<4> QED
  BY <1>0, <3>1, <4>1 DEF StrikesOfLast
<3>3. x \in Int
  BY DEF bit
<3> HIDE DEF l, x
<3>4. Len(p) = Lifetime + 1 /\ \A i \in 1 .. Lifetime : p[i] = IF i = 1 THEN x ELSE l[i - 1]
  BY <1>0, <3>2, <3>3 DEF Push
<3>5. \A i \in 1 .. Lifetime : i # 1 => i - 1 \in 1 .. Lifetime
  BY <1>0
<3>6. \A i \in 1 .. Lifetime : p[i] = IF i = 1 THEN x ELSE Strike(e, v, n - (i - 1))
  BY <3>2, <3>4, <3>5
<3>7. \A i \in 1 .. Lifetime : i <= Len(p)
  BY <1>0, <3>4
<3> HIDE DEF p
<3>8. Resize(p, Lifetime) = [i \in 1 .. Lifetime |-> p[i]]
  BY <3>7 DEF Resize
<3>9. \A i \in 1 .. Lifetime : p[i] = StrikesOfLast(e, v, n + 1)[i]
  BY <1>3, <3>6, Zenon DEF x
<3> QED
  BY <2>1, <3>8, <3>9 DEF StrikesOfLast
<2>3. CASE v \notin DOMAIN s
<3>1. l = <<>> /\ x = 1
  BY <2>3 DEF list, bit
<3>2. \A i \in 1 .. Lifetime : Strike(e, v, n - i) = 0
  BY <2>3, Zenon DEF AreStrikes
<3> HIDE DEF l
<3>3. Len(p) = 1 /\ p[1] = x
  BY <3>1 DEF Push
<3> HIDE DEF p
<3>4. Resize(p, Lifetime) = [i \in 1 .. Lifetime |-> IF i = 1 THEN x ELSE 0]
  BY <1>0, <3>3 DEF Resize
<3>5. \A i \in 1 .. Lifetime : i # 1 => i - 1 \in 1 .. Lifetime
  BY <1>0
<3>6. \A i \in 1 .. Lifetime : (IF i = 1 THEN x ELSE 0) = StrikesOfLast(e, v, n + 1)[i]
  BY <1>3, <3>2, <3>5, Zenon DEF x
<3> QED
  BY <2>1, <3>4, <3>6 DEF StrikesOfLast
<2> QED
  BY <2>2, <2>3
<1>5. ASSUME NEW v \in DOMAIN OperatorOf \ (DOMAIN s \cup struck), NEW i \in 1 .. Lifetime
      PROVE  Strike(e, v, (n + 1) - i) = 0
<2>1. bit(v) = 0 /\ \A j \in 1 .. Lifetime : Strike(e, v, n - j) = 0
  BY <1>5, Zenon DEF AreStrikes
<2>2. i # 1 => i - 1 \in 1 .. Lifetime
  BY <1>0
<2>3. StrikesOfLast(e, v, n + 1)[i] = 0
  BY <1>3, <2>1, <2>2, Zenon
<2> QED
  BY <2>3 DEF StrikesOfLast
<1>6. ASSUME NEW v \in DOMAIN OperatorOf
      PROVE  IF v \in kept THEN onward[v] = StrikesOfLast(e, v, n + 1)
             ELSE \A i \in 1 .. Lifetime : Strike(e, v, (n + 1) - i) = 0
<2>1. DOMAIN onward = DOMAIN s \cup struck
  OBVIOUS
<2> HIDE DEF onward
<2>2. CASE v \in kept
  BY <1>4, <2>1, <2>2
<2>3. CASE v \notin DOMAIN s \cup struck
  BY <1>5, <2>1, <2>3
<2>4. CASE v \in DOMAIN s \cup struck /\ v \notin kept
<3>1. onward[v] = StrikesOfLast(e, v, n + 1)
  BY <1>4, <2>4
<3>2. \A i \in DOMAIN onward[v] : onward[v][i] = 0
  BY <2>1, <2>4
<3> QED
  BY <2>4, <3>1, <3>2 DEF StrikesOfLast
<2> QED
  BY <2>2, <2>3, <2>4
<1> HIDE DEF onward, kept
<1> DEFINE lists == ProcessStrikes(s, struck)
<1>7. DOMAIN lists = kept /\ \A v \in kept : lists[v] = onward[v]
  BY <1>1
<1> HIDE DEF lists
<1>8. ASSUME NEW v \in DOMAIN OperatorOf
      PROVE  IF v \in DOMAIN lists THEN lists[v] = StrikesOfLast(e, v, n + 1)
             ELSE \A i \in 1 .. Lifetime : Strike(e, v, (n + 1) - i) = 0
  BY <1>6, <1>7, Zenon
<1>9. AreStrikes(e, lists, n + 1)
  BY <1>8, Zenon DEF AreStrikes
<1> QED
  BY <1>9 DEF lists

-----------------------------------------------------------------------------

\* What the loop over the frames has made of frames k to n - 1.
LoopInv(e, k, n, r) ==
  /\ r.rewards \in Nat /\ r.rebate \in Int
  /\ r.rewards + r.rebate = FreshTo(e, n) - FreshTo(e, k)
  /\ TypedRewards(r.map)
  /\ \A o \in NodeOperator : Of(r.map, o) = OwedTo(e, o, n) - OwedTo(e, o, k)
  /\ IF r.rewards = 0 THEN \A o \in NodeOperator : Of(r.map, o) = 0 ELSE DOMAIN r.map # {}
  /\ AreStrikes(e, r.strikes, n)

\* What is pending at the end of a frame is what the frames since the last report received.
Pending(e, k) ==
  \A f \in k .. Len(e) - 1 : e[f + 1].pending = FreshTo(e, f + 1) - FreshTo(e, k)

LEMMA AddRewards ==
  ASSUME NEW f, TypedRewards(f), NEW g, TypedRewards(g)
  PROVE  /\ TypedRewards(Add(f, g)) /\ DOMAIN Add(f, g) = DOMAIN f \cup DOMAIN g
         /\ \A o \in NodeOperator : Of(Add(f, g), o) = Of(f, o) + Of(g, o)
<1>1. \A o \in NodeOperator : Of(f, o) \in Nat /\ Of(g, o) \in Nat
  BY TotalOfRewards
<1>2. Add(f, g) = [x \in DOMAIN f \cup DOMAIN g |-> Of(f, x) + Of(g, x)]
  BY DEF Add
<1>3. DOMAIN Add(f, g) = DOMAIN f \cup DOMAIN g /\ DOMAIN Add(f, g) \subseteq NodeOperator
      /\ \A o \in DOMAIN f \cup DOMAIN g : Add(f, g)[o] = Of(f, o) + Of(g, o)
  BY <1>2 DEF TypedRewards
<1>4. \A o \in DOMAIN Add(f, g) : Add(f, g)[o] \in Nat
  BY <1>1, <1>3
<1>5. ASSUME NEW o \in NodeOperator PROVE Of(Add(f, g), o) = Of(f, o) + Of(g, o)
<2>1. CASE o \in DOMAIN f \cup DOMAIN g
  BY <1>3, <2>1 DEF Of
<2>2. CASE o \notin DOMAIN f \cup DOMAIN g
  BY <1>3, <2>2 DEF Of
<2> QED
  BY <2>1, <2>2
<1> QED
  BY <1>3, <1>4, <1>5 DEF TypedRewards

\* One frame in the loop.
LEMMA FrameAdds ==
  ASSUME TypedEnds(ends), NEW k \in Nat, NEW n \in k .. Len(ends) - 1, Pending(ends, k),
         NEW r, LoopInv(ends, k, n, r)
  PROVE  LoopInv(ends, k, n + 1, AddFrame(r, n))
<1> DEFINE e == ends
           out == e[n + 1].outcomes
           p == FrameRewards(n, r)
           m == RewardsIn(out, p)
           s == AddFrame(r, n)
<1>0. Len(e) \in Nat /\ n \in Nat /\ k \in 0 .. Len(e) /\ n \in 0 .. Len(e) /\ n \in 0 .. Len(e) - 1 /\ n < Len(e)
<2>1. Len(ends) \in Nat
  BY DEF TypedEnds
<2> QED
  BY <2>1
<1>1. /\ e[n + 1].pending \in Int /\ e[n + 1].fresh \in Nat /\ out \in Outcomes
      /\ FreshTo(e, n) \in Nat /\ FreshTo(e, k) \in Nat
      /\ FreshTo(e, n + 1) = FreshTo(e, n) + e[n + 1].fresh
      /\ \A o \in NodeOperator : /\ OwedTo(e, o, n) \in Nat /\ OwedTo(e, o, k) \in Nat
                                 /\ OwedTo(e, o, n + 1) = OwedTo(e, o, n) + Gives(e, o, n)
                                 /\ Gives(e, o, n) \in Nat
  BY <1>0, EndsTyped, SumsOfFrames
<1>2. p = e[n + 1].fresh
<2>1. e[n + 1].pending = FreshTo(e, n + 1) - FreshTo(e, k)
  BY DEF Pending
<2>2. p = e[n + 1].pending - (r.rewards + r.rebate)
  BY DEF FrameRewards
<2>3. r.rewards + r.rebate = FreshTo(e, n) - FreshTo(e, k)
  BY DEF LoopInv
<2>4. FreshTo(e, n) \in Int /\ FreshTo(e, k) \in Int /\ e[n + 1].fresh \in Int
  BY <1>1
<2>5. FreshTo(e, n + 1) = FreshTo(e, n) + e[n + 1].fresh
  BY <1>1
<2> DEFINE a == FreshTo(e, n)
           b == FreshTo(e, k)
           c == e[n + 1].fresh
           w == r.rewards + r.rebate
<2>6. a \in Int /\ b \in Int /\ c \in Int /\ w = a - b /\ p = (a + c) - b - w
  BY <2>1, <2>2, <2>3, <2>4, <2>5, Zenon
<2> HIDE DEF a, b, c, w, p
<2>7. p = c
  BY <2>6
<2> QED
  BY <2>7 DEF c
<1>3. TypedRewards(m) /\ \A o \in NodeOperator : Of(m, o) = Gives(e, o, n)
<2>1. TypedRewards(m)
<3> HIDE DEF p, out, e
<3> QED
  BY <1>1, <1>2, RewardsTyped
<2> QED
  BY <1>2, <2>1, Zenon DEF Gives
<1>4. /\ s.rewards = r.rewards + Total(m) /\ s.rebate = r.rebate + (p - Total(m))
      /\ s.map = Add(r.map, m) /\ s.strikes = ProcessStrikes(r.strikes, StrikesIn(out))
  BY DEF AddFrame
<1>5. /\ Total(m) \in Nat
      /\ Total(m) = 0 => \A o \in NodeOperator : Of(m, o) = 0
      /\ Total(m) > 0 => DOMAIN m # {}
  BY <1>3, TotalOfRewards
<1>6. /\ TypedRewards(s.map) /\ DOMAIN s.map = DOMAIN r.map \cup DOMAIN m
      /\ \A o \in NodeOperator : Of(s.map, o) = Of(r.map, o) + Of(m, o)
<2>1. TypedRewards(r.map)
  BY DEF LoopInv
<2> HIDE DEF m, s
<2> QED
  BY <1>3, <1>4, <2>1, AddRewards
<1>7. AreStrikes(e, s.strikes, n + 1)
<2>1. AreStrikes(e, r.strikes, n)
  BY DEF LoopInv
<2> HIDE DEF s, e
<2> QED
  BY <1>0, <1>4, <2>1, StrikesShift DEF out
<1> HIDE DEF e, p, m, s, out
<1>8. /\ r.rewards \in Nat /\ r.rebate \in Int
      /\ r.rewards + r.rebate = FreshTo(e, n) - FreshTo(e, k)
      /\ \A o \in NodeOperator : Of(r.map, o) = OwedTo(e, o, n) - OwedTo(e, o, k)
      /\ IF r.rewards = 0 THEN \A o \in NodeOperator : Of(r.map, o) = 0 ELSE DOMAIN r.map # {}
  BY DEF LoopInv, e
<1>9. p \in Int
  BY <1>1, <1>2
<1>10. /\ s.rewards \in Nat /\ s.rebate \in Int
       /\ s.rewards + s.rebate = FreshTo(e, n + 1) - FreshTo(e, k)
<2>1. s.rewards = r.rewards + Total(m) /\ s.rebate = r.rebate + (p - Total(m))
  BY <1>4
<2>2. Total(m) \in Nat /\ r.rewards \in Nat /\ r.rebate \in Int /\ p \in Int
  BY <1>5, <1>8, <1>9
<2>3. /\ r.rewards + r.rebate = FreshTo(e, n) - FreshTo(e, k)
      /\ FreshTo(e, n + 1) = FreshTo(e, n) + p /\ FreshTo(e, n) \in Nat /\ FreshTo(e, k) \in Nat
  BY <1>1, <1>2, <1>8
<2> DEFINE sw == s.rewards
           sb == s.rebate
           rw == r.rewards
           rb == r.rebate
           x == Total(m)
           y == FreshTo(e, n)
           z == FreshTo(e, k)
           u == FreshTo(e, n + 1)
<2>4. /\ sw = rw + x /\ sb = rb + (p - x)
      /\ x \in Nat /\ rw \in Nat /\ rb \in Int /\ p \in Int
      /\ rw + rb = y - z /\ u = y + p /\ y \in Nat /\ z \in Nat
  BY <2>1, <2>2, <2>3
<2> HIDE DEF sw, sb, rw, rb, x, y, z, u
<2>5. sw \in Nat /\ sb \in Int /\ sw + sb = u - z
  BY ONLY <2>4
<2> QED
  BY <2>5 DEF sw, sb, u, z
<1>11. \A o \in NodeOperator : Of(s.map, o) = OwedTo(e, o, n + 1) - OwedTo(e, o, k)
  BY <1>1, <1>3, <1>6, <1>8
<1>12. IF s.rewards = 0 THEN \A o \in NodeOperator : Of(s.map, o) = 0 ELSE DOMAIN s.map # {}
<2>1. CASE s.rewards = 0
<3>1. r.rewards = 0 /\ Total(m) = 0
  BY <1>4, <1>5, <1>8, <2>1
<3> QED
  BY <1>5, <1>6, <1>8, <2>1, <3>1
<2>2. CASE s.rewards # 0
<3>1. r.rewards # 0 \/ Total(m) > 0
  BY <1>4, <1>5, <1>8, <2>2
<3> QED
  BY <1>5, <1>6, <1>8, <2>2, <3>1
<2> QED
  BY <2>1, <2>2
<1> QED
  BY <1>6, <1>7, <1>10, <1>11, <1>12 DEF LoopInv, e, s

\* The loop, as the sequence of its values: it exists for any range of frames.
IsLoop(t, start, first, newest) ==
  t = [f \in first - 1 .. newest |-> IF f < first THEN start ELSE AddFrame(t[f - 1], f)]

LEMMA LoopExists ==
  ASSUME NEW start, NEW first \in Int, NEW newest \in Int, newest >= first - 1
  PROVE  \E t : IsLoop(t, start, first, newest)
<1> DEFINE Bad == {n \in Nat : ~\E t : IsLoop(t, start, first, first - 1 + n)}
<1>1. Bad = {}
<2>1. SUFFICES ASSUME Bad # {} PROVE FALSE
  OBVIOUS
<2>2. PICK n \in Bad : \A k \in Bad : n <= k
<3>1. Bad \in SUBSET Nat
  OBVIOUS
<3> HIDE DEF Bad
<3> QED
  BY <2>1, <3>1, LeastNat
<2>3. CASE n = 0
<3> DEFINE t == [f \in first - 1 .. first - 1 |-> start]
<3>1. t = [f \in first - 1 .. first - 1 |-> IF f < first THEN start ELSE AddFrame(t[f - 1], f)]
  OBVIOUS
<3>2. first - 1 + n = first - 1
  BY <2>3
<3> HIDE DEF t
<3>3. IsLoop(t, start, first, first - 1 + n)
  BY <3>1, <3>2 DEF IsLoop
<3> QED
  BY <3>3
<2>4. CASE n # 0
<3> DEFINE b == first - 1 + n
<3>1. n - 1 \in Nat /\ n - 1 \notin Bad /\ first - 1 + (n - 1) = b - 1 /\ b \in Int /\ b >= first
  BY <2>2, <2>4
<3>2. PICK g : IsLoop(g, start, first, b - 1)
  BY <3>1
<3> DEFINE t == [f \in first - 1 .. b |-> IF f = b THEN AddFrame(g[b - 1], b) ELSE g[f]]
<3> HIDE DEF b, Bad
<3>3. ASSUME NEW f \in first - 1 .. b
      PROVE  t[f] = IF f < first THEN start ELSE AddFrame(t[f - 1], f)
<4>1. CASE f = b
<5>1. b - 1 \in first - 1 .. b /\ b - 1 # b /\ ~(b < first)
  BY <3>1
<5>2. t[b - 1] = g[b - 1] /\ t[f] = AddFrame(g[b - 1], b)
  BY <4>1, <5>1
<5> QED
  BY <4>1, <5>1, <5>2
<4>2. CASE f # b
<5>1. f \in first - 1 .. b - 1
  BY <3>1, <4>2
<5>2. g[f] = IF f < first THEN start ELSE AddFrame(g[f - 1], f)
  BY <3>2, <5>1 DEF IsLoop
<5>3. t[f] = g[f]
  BY <4>2
<5>4. ~(f < first) => t[f - 1] = g[f - 1]
<6>1. ~(f < first) => f - 1 \in first - 1 .. b /\ f - 1 # b
  BY <3>1, <5>1
<6> QED
  BY <6>1
<5> HIDE DEF t
<5> QED
  BY <5>2, <5>3, <5>4
<4> QED
  BY <4>1, <4>2
<3>4. IsLoop(t, start, first, b)
  BY <3>3 DEF IsLoop
<3>5. n \notin Bad
  BY <3>4 DEF Bad, b
<3> QED
  BY <3>5
<2> QED
  BY <2>3, <2>4
<1>2. newest - first + 1 \in Nat /\ first - 1 + (newest - first + 1) = newest
  BY SMT
<1>3. newest - first + 1 \notin Bad
  BY <1>1
<1> QED
  BY <1>2, <1>3

\* What the loop makes of all frames of a report.
LEMMA CalculatedFrames ==
  ASSUME TypedEnds(ends), NEW k \in 0 .. Len(ends), Pending(ends, k),
         AreStrikes(ends, contract.strikes, k)
  PROVE  LoopInv(ends, k, Len(ends), Calculate(k, Len(ends) - 1))
<1> DEFINE start == [rewards |-> 0, rebate |-> 0, map |-> <<>>, strikes |-> contract.strikes]
           newest == Len(ends) - 1
           t == CHOOSE t : IsLoop(t, start, k, newest)
<1>0. Len(ends) \in Nat /\ newest \in Int /\ newest >= k - 1 /\ k \in Nat
  BY DEF TypedEnds
<1>1. IsLoop(t, start, k, newest)
<2> HIDE DEF start, newest
<2>1. k \in Int
  BY <1>0
<2>2. \E u : IsLoop(u, start, k, newest)
  BY <1>0, <2>1, LoopExists
<2> QED
  BY <2>2, Zenon
<1>2. Calculate(k, newest) = t[newest]
  BY Zenon DEF Calculate, IsLoop
<1> HIDE DEF t
<1>3. LoopInv(ends, k, k, start)
<2>1. start.rewards = 0 /\ start.rebate = 0 /\ DOMAIN start.map = {} /\ start.strikes = contract.strikes
  OBVIOUS
<2>2. FreshTo(ends, k) \in Nat /\ \A o \in NodeOperator : OwedTo(ends, o, k) \in Nat
  BY SumsOfFrames
<2>3. TypedRewards(start.map) /\ \A o \in NodeOperator : Of(start.map, o) = 0
  BY <2>1 DEF TypedRewards, Of
<2> HIDE DEF start
<2> QED
  BY <2>1, <2>2, <2>3 DEF LoopInv
<1> HIDE DEF start, newest
<1> DEFINE Bad == {n \in Nat : k - 1 + n <= newest /\ ~LoopInv(ends, k, k + n, t[k - 1 + n])}
<1>4. Bad = {}
<2>1. SUFFICES ASSUME Bad # {} PROVE FALSE
  OBVIOUS
<2>2. PICK n \in Bad : \A j \in Bad : n <= j
<3>1. Bad \in SUBSET Nat
  OBVIOUS
<3> HIDE DEF Bad
<3> QED
  BY <2>1, <3>1, LeastNat
<2> DEFINE f == k - 1 + n
<2>3. n \in Nat /\ f \in k - 1 .. newest /\ k + n = f + 1 /\ ~LoopInv(ends, k, f + 1, t[f])
  BY <1>0, <2>2
<2>4. t[f] = IF f < k THEN start ELSE AddFrame(t[f - 1], f)
  BY <1>1, <2>3 DEF IsLoop
<2>5. CASE n = 0
<3>1. f < k /\ f + 1 = k
  BY <1>0, <2>5
<3> HIDE DEF f
<3> QED
  BY <1>3, <2>3, <2>4, <3>1
<2>6. CASE n # 0
<3>1. n - 1 \in Nat /\ k - 1 + (n - 1) = f - 1 /\ k + (n - 1) = f /\ f - 1 <= newest
  BY <1>0, <2>3, <2>6
<3>2. LoopInv(ends, k, f, t[f - 1])
<4>1. n - 1 \notin Bad
<5>1. ~(n <= n - 1)
  BY <2>3
<5> HIDE DEF Bad
<5> QED
  BY <2>2, <5>1
<4> QED
  BY <3>1, <4>1
<3>3. f \in k .. Len(ends) - 1 /\ ~(f < k)
  BY <1>0, <2>3, <2>6 DEF newest
<3> HIDE DEF f
<3>4. LoopInv(ends, k, f + 1, AddFrame(t[f - 1], f))
  BY <1>0, <3>2, <3>3, FrameAdds
<3> QED
  BY <2>3, <2>4, <3>3, <3>4
<2> QED
  BY <2>5, <2>6
<1>5. newest - k + 1 \in Nat /\ k - 1 + (newest - k + 1) = newest /\ k + (newest - k + 1) = newest + 1
  BY <1>0
<1>6. newest - k + 1 \notin Bad
  BY <1>4
<1>7. LoopInv(ends, k, newest + 1, t[newest])
  BY <1>0, <1>5, <1>6
<1>8. newest + 1 = Len(ends)
  BY <1>0 DEF newest
<1> QED
  BY <1>2, <1>7, <1>8 DEF newest

-----------------------------------------------------------------------------

TreeOK(t) == DOMAIN t \subseteq NodeOperator \cup {Stone} /\ Cardinality(DOMAIN t) # 1

LEMMA OfAdd ==
  ASSUME NEW f, NEW g, NEW x
  PROVE  Of(Add(f, g), x) = Of(f, x) + Of(g, x)
<1>1. Add(f, g) = [y \in DOMAIN f \cup DOMAIN g |-> Of(f, y) + Of(g, y)]
  BY DEF Add
<1>2. CASE x \in DOMAIN f \cup DOMAIN g
<2>1. x \in DOMAIN Add(f, g) /\ Add(f, g)[x] = Of(f, x) + Of(g, x)
  BY <1>1, <1>2
<2> QED
  BY <2>1, Zenon DEF Of
<1>3. CASE x \notin DOMAIN f \cup DOMAIN g
<2>1. x \notin DOMAIN Add(f, g)
  BY <1>1, <1>3
<2>2. Of(f, x) = 0 /\ Of(g, x) = 0 /\ Of(Add(f, g), x) = 0
  BY <1>3, <2>1 DEF Of
<2> QED
  BY <2>2
<1> QED
  BY <1>2, <1>3

\* The stone makes a tree that can be claimed from, and takes nothing from the operators.
LEMMA WithStoneFacts ==
  ASSUME NEW m, DOMAIN m \subseteq NodeOperator \cup {Stone}, DOMAIN m \cap NodeOperator # {},
         \A o \in NodeOperator : Of(m, o) \in Nat
  PROVE  /\ TreeOK(WithStone(m))
         /\ \A o \in NodeOperator : Of(WithStone(m), o) = Of(m, o)
<1> DEFINE D == DOMAIN m
           stone == [o \in {Stone} |-> 0]
<1>1. IsFiniteSet(D) /\ Cardinality(D) \in Nat
<2>1. IsFiniteSet(NodeOperator \cup {Stone})
  BY DistributionAssumption, FS_AddElement
<2> QED
  BY <2>1, FS_Subset, FS_CardinalityType
<1>2. Stone \notin NodeOperator
  BY DistributionAssumption
<1>3. CASE Cardinality(D) = 1
<2>1. PICK o \in NodeOperator : D = {o}
<3>1. PICK x : D = {x}
  BY <1>1, <1>3, FS_Singleton
<3> QED
  BY <3>1
<2>2. WithStone(m) = Add(m, stone)
  BY <1>3 DEF WithStone
<2>3. DOMAIN Add(m, stone) = {o, Stone} /\ o # Stone
  BY <1>2, <2>1 DEF Add
<2>4. Cardinality({o, Stone}) = 2
<3>1. IsFiniteSet({o}) /\ Cardinality({o}) = 1 /\ Stone \notin {o} /\ {o} \cup {Stone} = {o, Stone}
  BY <2>3, FS_Singleton
<3> QED
  BY <3>1, FS_AddElement
<2>5. ASSUME NEW p \in NodeOperator PROVE Of(Add(m, stone), p) = Of(m, p)
<3>1. Of(stone, p) = 0
  BY <1>2 DEF Of
<3> HIDE DEF stone
<3>2. Of(Add(m, stone), p) = Of(m, p) + Of(stone, p)
  BY OfAdd
<3>3. Of(m, p) \in Nat
  OBVIOUS
<3> QED
  BY <3>1, <3>2, <3>3
<2> QED
  BY <2>2, <2>3, <2>4, <2>5 DEF TreeOK
<1>4. CASE Cardinality(D) > 2
<2>1. WithStone(m) = Restrict(m, D \ {Stone})
  BY <1>1, <1>4 DEF WithStone
<2>2. /\ DOMAIN Restrict(m, D \ {Stone}) = D \ {Stone}
      /\ \A o \in D \ {Stone} : Restrict(m, D \ {Stone})[o] = m[o]
  BY DEF Restrict
<2>3. Cardinality(D \ {Stone}) # 1
<3>1. Cardinality(D \ {Stone}) = IF Stone \in D THEN Cardinality(D) - 1 ELSE Cardinality(D)
  BY <1>1, FS_RemoveElement
<3> QED
  BY <1>1, <1>4, <3>1
<2> HIDE DEF D
<2>4. \A o \in NodeOperator : Of(Restrict(m, D \ {Stone}), o) = Of(m, o)
  BY <1>2, <2>2 DEF Of, D
<2> QED
  BY <2>1, <2>2, <2>3, <2>4 DEF TreeOK, D
<1>5. CASE ~(Cardinality(D) = 1) /\ ~(Cardinality(D) > 2)
  BY <1>5 DEF WithStone, TreeOK
<1> QED
  BY <1>3, <1>4, <1>5

-----------------------------------------------------------------------------
(* What the contracts hold after k frames were reported *)

ReportedTo(e, c, k) ==
  /\ k \in 0 .. Len(e) /\ c.last = k * EpochsPerFrame - 1
  /\ c.given = FreshTo(e, k) /\ Pending(e, k)
  /\ \A o \in NodeOperator : Of(c.tree, o) = OwedTo(e, o, k)
  /\ AreStrikes(e, c.strikes, k) /\ TreeOK(c.tree)

DistInv ==
  /\ TypedEnds(ends) /\ received = FreshTo(ends, Len(ends))
  /\ \E k \in Nat : ReportedTo(ends, contract, k)

LEMMA DistInitInv == DistInit => DistInv
<1> SUFFICES ASSUME DistInit PROVE DistInv
  OBVIOUS
<1>1. /\ ends = <<>> /\ received = 0
      /\ contract.tree = <<>> /\ contract.strikes = <<>> /\ contract.given = 0 /\ contract.last = -1
  BY DEF DistInit
<1>2. TypedEnds(ends) /\ Len(ends) = 0 /\ EpochsPerFrame \in Nat
  BY <1>1, DistributionAssumption DEF TypedEnds
<1>3. DOMAIN contract.tree = {} /\ DOMAIN contract.strikes = {}
  BY <1>1
<1>4. ASSUME NEW g PROVE Total([f \in 0 .. 0 - 1 |-> g[f]]) = 0
<2>1. Total([f \in 0 .. 0 - 1 |-> g[f]]) = SumFunctionOnSet(g, {})
<3>1. 0 .. 0 - 1 = {} /\ \A f \in 0 .. 0 - 1 : g[f] \in Nat
  OBVIOUS
<3> QED
  BY <3>1, FramesSum
<2>2. SumFunctionOnSet(g, {}) = 0
  BY SumFacts, FS_EmptySet
<2> QED
  BY <2>1, <2>2
<1>5. FreshTo(ends, 0) = 0
<2> DEFINE g == [f \in {} |-> ends[f + 1].fresh]
<2>1. [f \in 0 .. 0 - 1 |-> g[f]] = [f \in 0 .. 0 - 1 |-> ends[f + 1].fresh]
  OBVIOUS
<2> HIDE DEF g
<2> QED
  BY <1>4, <2>1 DEF FreshTo
<1>6. \A o \in NodeOperator : OwedTo(ends, o, 0) = 0
<2> TAKE o \in NodeOperator
<2> DEFINE g == [f \in {} |-> Gives(ends, o, f)]
<2>1. [f \in 0 .. 0 - 1 |-> g[f]] = [f \in 0 .. 0 - 1 |-> Gives(ends, o, f)]
  OBVIOUS
<2> HIDE DEF g
<2> QED
  BY <1>4, <2>1 DEF OwedTo
<1>7. \A o \in NodeOperator : Of(contract.tree, o) = 0
  BY <1>3 DEF Of
<1>8. AreStrikes(ends, contract.strikes, 0)
<2>1. \A v : \A i \in 1 .. Lifetime : Strike(ends, v, 0 - i) = 0
<3>1. \A i \in 1 .. Lifetime : ~(0 - i >= 0)
  BY DistributionAssumption
<3> QED
  BY <3>1 DEF Strike
<2> QED
  BY <1>3, <2>1 DEF AreStrikes
<1>9. TreeOK(contract.tree)
  BY <1>3, FS_EmptySet DEF TreeOK
<1>10. Pending(ends, 0)
  BY <1>2 DEF Pending
<1>11. 0 * EpochsPerFrame - 1 = -1
  BY <1>2
<1>12. ReportedTo(ends, contract, 0)
  BY <1>1, <1>2, <1>5, <1>6, <1>7, <1>8, <1>9, <1>10, <1>11 DEF ReportedTo
<1> QED
  BY <1>1, <1>2, <1>5, <1>12 DEF DistInv

\* A frame that ends is one more to report.
LEMMA EndFrameInv ==
  ASSUME NEW misses, NEW shares \in Received, DistInv, EndFrame(misses, shares)
  PROVE  DistInv'
<1> DEFINE duties == Duties(Len(ends), Append(rows, misses))
           x == [pending |-> received' - contract.given, fresh |-> shares,
                 outcomes |-> OutcomesIn(duties, slashedNow)]
           N == Len(ends)
<1>1. PICK k \in Nat : ReportedTo(ends, contract, k)
  BY DEF DistInv
<1>2. /\ received' = received + shares /\ ends' = Append(ends, x) /\ contract' = contract
  BY DEF EndFrame
<1>3. /\ TypedEnds(ends) /\ N \in Nat /\ k \in 0 .. N /\ N \in 0 .. N /\ shares \in Nat
      /\ received = FreshTo(ends, N) /\ contract.given = FreshTo(ends, k)
  BY <1>1, DistributionAssumption DEF DistInv, ReportedTo, TypedEnds
<1>4. FreshTo(ends, N) \in Nat /\ FreshTo(ends, k) \in Nat
  BY <1>3, SumsOfFrames
<1>5. x \in [pending : Int, fresh : Nat, outcomes : Outcomes]
<2>1. OutcomesIn(duties, slashedNow) \in Outcomes
  BY <1>3, OutcomesTyped
<2>2. received' - contract.given \in Int
  BY <1>2, <1>3, <1>4
<2> HIDE DEF duties
<2> QED
  BY <1>3, <2>1, <2>2
<1>6. x.pending = FreshTo(ends, N) + shares - FreshTo(ends, k) /\ x.fresh = shares
<2>1. x.pending = received' - contract.given /\ x.fresh = shares
  OBVIOUS
<2>2. received' = FreshTo(ends, N) + shares /\ contract.given = FreshTo(ends, k)
  BY <1>2, <1>3
<2> HIDE DEF x
<2> QED
  BY <1>3, <1>4, <2>1, <2>2
<1> HIDE DEF x
<1> DEFINE d == ends'
<1>7. /\ TypedEnds(d) /\ Len(d) = N + 1 /\ d[N + 1] = x
      /\ \A f \in 0 .. N - 1 : d[f + 1] = ends[f + 1]
      /\ \A n \in 0 .. N :
           /\ FreshTo(d, n) = FreshTo(ends, n)
           /\ \A o \in NodeOperator : OwedTo(d, o, n) = OwedTo(ends, o, n)
           /\ \A s : AreStrikes(ends, s, n) => AreStrikes(d, s, n)
<2>1. d = Append(ends, x)
  BY <1>2
<2> HIDE DEF d
<2>2. Carries(Append(ends, x), ends, x)
  BY <1>3, <1>5, LaterFrames, Zenon
<2> QED
  BY <2>1, <2>2, Zenon DEF Carries
<1> HIDE DEF d
<1>8. FreshTo(d, N + 1) = FreshTo(ends, N) + shares
<2>1. N \in 0 .. Len(d) /\ N < Len(d)
  BY <1>3, <1>7
<2>2. FreshTo(d, N + 1) = FreshTo(d, N) + d[N + 1].fresh
  BY <1>7, <2>1, SumsOfFrames
<2> QED
  BY <1>3, <1>6, <1>7, <2>2
<1>9. Pending(d, k)
<2>1. SUFFICES ASSUME NEW f \in k .. Len(d) - 1
               PROVE  d[f + 1].pending = FreshTo(d, f + 1) - FreshTo(d, k)
  BY DEF Pending
<2>2. FreshTo(d, k) = FreshTo(ends, k)
  BY <1>3, <1>7
<2>3. CASE f = N
<3>1. d[f + 1].pending = FreshTo(ends, N) + shares - FreshTo(ends, k)
  BY <1>6, <1>7, <2>3
<3> QED
  BY <1>3, <1>4, <1>8, <2>2, <2>3, <3>1
<2>4. CASE f # N
<3>1. f \in k .. N - 1 /\ f \in 0 .. N - 1 /\ f + 1 \in 0 .. N
  BY <1>3, <1>7, <2>1, <2>4
<3>2. ends[f + 1].pending = FreshTo(ends, f + 1) - FreshTo(ends, k)
  BY <1>1, <3>1 DEF ReportedTo, Pending
<3>3. d[f + 1] = ends[f + 1] /\ FreshTo(d, f + 1) = FreshTo(ends, f + 1)
  BY <1>7, <3>1
<3> QED
  BY <2>2, <3>2, <3>3
<2> QED
  BY <2>3, <2>4
<1>10. ReportedTo(d, contract, k)
<2>1. k \in 0 .. Len(d)
  BY <1>3, <1>7
<2>2. /\ contract.last = k * EpochsPerFrame - 1 /\ TreeOK(contract.tree)
      /\ AreStrikes(ends, contract.strikes, k)
      /\ \A o \in NodeOperator : Of(contract.tree, o) = OwedTo(ends, o, k)
  BY <1>1 DEF ReportedTo
<2>3. /\ AreStrikes(d, contract.strikes, k) /\ FreshTo(d, k) = FreshTo(ends, k)
      /\ \A o \in NodeOperator : OwedTo(d, o, k) = OwedTo(ends, o, k)
  BY <1>3, <1>7, <2>2
<2> QED
  BY <1>3, <1>9, <2>1, <2>2, <2>3 DEF ReportedTo
<1>11. received' = FreshTo(d, Len(d))
  BY <1>2, <1>3, <1>7, <1>8
<1> QED
  BY <1>2, <1>7, <1>10, <1>11 DEF DistInv, d

\* A report gives the frames since the last one what they would have got one by one.
LEMMA ReportFramesInv ==
  ASSUME DistInv, ReportFrames
  PROVE  DistInv'
<1> DEFINE N == Len(ends)
           E == EpochsPerFrame
           first == (contract.last + 1) \div EpochsPerFrame
           r == Calculate(first, Len(ends) - 1)
<1>1. PICK k \in Nat : ReportedTo(ends, contract, k)
  BY DEF DistInv
<1>2. /\ TypedEnds(ends) /\ N \in Nat /\ k \in 0 .. N /\ N \in 0 .. N /\ E \in Nat \ {0}
      /\ received = FreshTo(ends, N) /\ contract.given = FreshTo(ends, k)
      /\ contract.last = k * E - 1 /\ Pending(ends, k) /\ AreStrikes(ends, contract.strikes, k)
      /\ \A o \in NodeOperator : Of(contract.tree, o) = OwedTo(ends, o, k)
      /\ TreeOK(contract.tree)
<2>1. TypedEnds(ends) /\ received = FreshTo(ends, N)
  BY DEF DistInv
<2>2. N \in Nat
  BY <2>1 DEF TypedEnds
<2>3. E \in Nat \ {0} /\ N \in 0 .. N
  BY <2>2, DistributionAssumption
<2> QED
  BY <1>1, <2>1, <2>2, <2>3, Zenon DEF ReportedTo
<1>3. first = k
<2>1. k * E \in Nat
  BY <1>2
<2>2. contract.last + 1 = k * E
  BY <1>2, <2>1
<2>3. (k * E) \div E = k
  BY <1>2
<2> QED
  BY <2>2, <2>3
<1>4. LoopInv(ends, k, N, r)
  BY <1>2, <1>3, CalculatedFrames
<1>5. /\ ends' = ends /\ received' = received
      /\ contract' = [tree |-> IF r.rewards > 0 THEN WithStone(Add(r.map, contract.tree))
                               ELSE contract.tree,
                      strikes |-> r.strikes,
                      given |-> contract.given + r.rewards + r.rebate,
                      last |-> LastEpoch(Len(ends) - 1)]
  BY DEF ReportFrames
<1> DEFINE c == contract'
           m == Add(r.map, contract.tree)
<1>6. /\ c.tree = IF r.rewards > 0 THEN WithStone(m) ELSE contract.tree
      /\ c.strikes = r.strikes /\ c.given = contract.given + r.rewards + r.rebate
      /\ c.last = LastEpoch(N - 1)
  BY <1>5
<1> HIDE DEF c, r, m, first
<1>7. /\ r.rewards \in Nat /\ r.rebate \in Int
      /\ r.rewards + r.rebate = FreshTo(ends, N) - FreshTo(ends, k)
      /\ TypedRewards(r.map)
      /\ \A o \in NodeOperator : Of(r.map, o) = OwedTo(ends, o, N) - OwedTo(ends, o, k)
      /\ IF r.rewards = 0 THEN \A o \in NodeOperator : Of(r.map, o) = 0 ELSE DOMAIN r.map # {}
      /\ AreStrikes(ends, r.strikes, N)
  BY <1>4 DEF LoopInv
<1>8. /\ FreshTo(ends, N) \in Nat /\ FreshTo(ends, k) \in Nat
      /\ \A o \in NodeOperator : OwedTo(ends, o, N) \in Nat /\ OwedTo(ends, o, k) \in Nat
  BY <1>2, SumsOfFrames
<1>9. c.given = FreshTo(ends, N)
<2> DEFINE y == FreshTo(ends, N)
           z == FreshTo(ends, k)
           rw == r.rewards
           rb == r.rebate
<2>1. c.given = (z + rw) + rb /\ rw \in Nat /\ rb \in Int /\ y \in Nat /\ z \in Nat /\ rw + rb = y - z
  BY <1>2, <1>6, <1>7, <1>8
<2> HIDE DEF y, z, rw, rb
<2>2. c.given = y
  BY ONLY <2>1
<2> QED
  BY <2>2 DEF y
<1>10. c.last = N * E - 1
<2>1. LastEpoch(N - 1) = (N - 1) * E + E - 1
  BY DEF LastEpoch, FirstEpoch
<2>2. (N - 1) * E + E = N * E
  BY <1>2
<2> QED
  BY <1>2, <1>6, <2>1, <2>2
<1>11. Pending(ends, N)
  BY <1>2 DEF Pending
<1>12. TreeOK(c.tree) /\ \A o \in NodeOperator : Of(c.tree, o) = OwedTo(ends, o, N)
<2>1. CASE r.rewards > 0
<3>1. DOMAIN m = DOMAIN r.map \cup DOMAIN contract.tree
  BY DEF Add, m
<3>2. DOMAIN m \subseteq NodeOperator \cup {Stone} /\ DOMAIN m \cap NodeOperator # {}
<4>1. DOMAIN r.map # {}
  BY <1>7, <2>1
<4> QED
  BY <1>2, <1>7, <3>1, <4>1 DEF TypedRewards, TreeOK
<3>3. ASSUME NEW o \in NodeOperator PROVE Of(m, o) = OwedTo(ends, o, N)
<4>1. Of(m, o) = Of(r.map, o) + Of(contract.tree, o)
  BY OfAdd DEF m
<4>2. Of(r.map, o) = OwedTo(ends, o, N) - OwedTo(ends, o, k) /\ Of(contract.tree, o) = OwedTo(ends, o, k)
  BY <1>2, <1>7
<4>3. OwedTo(ends, o, N) \in Nat /\ OwedTo(ends, o, k) \in Nat
  BY <1>8
<4> QED
  BY <4>1, <4>2, <4>3
<3>4. \A o \in NodeOperator : Of(m, o) \in Nat
  BY <1>8, <3>3
<3>5. TreeOK(WithStone(m)) /\ \A o \in NodeOperator : Of(WithStone(m), o) = Of(m, o)
  BY <3>2, <3>4, WithStoneFacts
<3> QED
  BY <1>6, <2>1, <3>3, <3>5
<2>2. CASE ~(r.rewards > 0)
<3>1. r.rewards = 0
  BY <1>7, <2>2
<3>2. ASSUME NEW o \in NodeOperator PROVE OwedTo(ends, o, N) = OwedTo(ends, o, k)
<4>1. OwedTo(ends, o, N) - OwedTo(ends, o, k) = 0
  BY <1>7, <3>1
<4> QED
  BY <1>8, <4>1
<3> QED
  BY <1>2, <1>6, <2>2, <3>2
<2> QED
  BY <2>1, <2>2
<1>13. ReportedTo(ends, c, N)
  BY <1>2, <1>6, <1>7, <1>9, <1>10, <1>11, <1>12 DEF ReportedTo
<1> QED
  BY <1>2, <1>5, <1>13 DEF DistInv, c

LEMMA DistInvIsInvariant == DistSpec => []DistInv
<1>1. DistInv /\ [DistNext]_distVars => DistInv'
<2> SUFFICES ASSUME DistInv, [DistNext]_distVars PROVE DistInv'
  OBVIOUS
<2>1. ASSUME NEW misses, MidFrame(misses) PROVE DistInv'
  BY <2>1 DEF MidFrame, DistInv
<2>2. ASSUME NEW misses, NEW shares \in Received, EndFrame(misses, shares) PROVE DistInv'
  BY <2>2, EndFrameInv
<2>3. ASSUME NEW v, GetSlashed(v) PROVE DistInv'
  BY <2>3 DEF GetSlashed, DistInv
<2>4. CASE ReportFrames
  BY <2>4, ReportFramesInv
<2>5. CASE UNCHANGED distVars
  BY <2>5 DEF distVars, DistInv
<2> QED
  BY <2>1, <2>2, <2>3, <2>4, <2>5 DEF DistNext
<1> QED
  BY <1>1, DistInitInv, PTL DEF DistSpec

\* The frames that count as reported are the first k ones.
LEMMA ReportedFrames ==
  ASSUME TypedEnds(ends), NEW k \in Nat, ReportedTo(ends, contract, k)
  PROVE  Reported = 0 .. k - 1
<1> DEFINE E == EpochsPerFrame
<1>1. E \in Nat \ {0} /\ contract.last = k * E - 1 /\ k \in 0 .. Len(ends) /\ Len(ends) \in Nat
  BY DistributionAssumption DEF ReportedTo, TypedEnds
<1>2. ASSUME NEW f \in 0 .. Len(ends) - 1
      PROVE  LastEpoch(f) <= contract.last <=> f <= k - 1
<2>1. LastEpoch(f) = f * E + E - 1 /\ f \in Nat
  BY DEF LastEpoch, FirstEpoch
<2>2. f * E + E = (f + 1) * E /\ (f + 1) * E \in Nat /\ k * E \in Nat
  BY <1>1, <2>1
<2>3. CASE f <= k - 1
<3>1. k - (f + 1) \in Nat /\ (k - (f + 1)) * E \in Nat
  BY <1>1, <2>1, <2>3
<3>2. (k - (f + 1)) * E = k * E - (f + 1) * E
  BY <1>1, <2>1
<3>3. (f + 1) * E <= k * E
  BY <2>2, <3>1, <3>2
<3> QED
  BY <1>1, <2>1, <2>2, <2>3, <3>3
<2>4. CASE ~(f <= k - 1)
<3>1. (f - k) \in Nat /\ (f - k) * E \in Nat
  BY <1>1, <2>1, <2>4
<3>2. (f - k) * E = f * E - k * E /\ f * E \in Nat
  BY <1>1, <2>1
<3>3. f * E >= k * E
  BY <2>2, <3>1, <3>2
<3> QED
  BY <1>1, <2>1, <2>2, <2>4, <3>2, <3>3
<2> QED
  BY <2>3, <2>4
<1> QED
  BY <1>1, <1>2 DEF Reported

\* Every operator can claim what the frames that were reported give it, each taken by itself,
\* and the distributor has given away or taken back all that was received in them: whatever
\* reports were missed (Distribution.calculate, make_rewards_tree).
THEOREM RewardsAreDue == DistSpec => []RewardsReachTheOperators
<1>1. DistInv => RewardsReachTheOperators
<2> SUFFICES ASSUME DistInv PROVE RewardsReachTheOperators
  OBVIOUS
<2>1. PICK k \in Nat : ReportedTo(ends, contract, k)
  BY DEF DistInv
<2>2. Reported = 0 .. k - 1
  BY <2>1, ReportedFrames DEF DistInv
<2>3. contract.given = Total([f \in Reported |-> ends[f + 1].fresh])
  BY <2>1, <2>2 DEF ReportedTo, FreshTo
<2>4. ASSUME NEW o \in NodeOperator
      PROVE  Of(contract.tree, o)
               = Total([f \in Reported |-> Of(RewardsIn(ends[f + 1].outcomes, ends[f + 1].fresh), o)])
  BY <2>1, <2>2 DEF ReportedTo, OwedTo, Gives
<2>5. RewardsDoNotDependOnReports
  BY <2>3, <2>4, Zenon DEF RewardsDoNotDependOnReports
<2>6. RewardsStayClaimable
  BY <2>1 DEF ReportedTo, TreeOK, RewardsStayClaimable
<2> QED
  BY <2>5, <2>6 DEF RewardsReachTheOperators
<1> QED
  BY <1>1, DistInvIsInvariant, PTL

\* The strikes of a validator are those of the last frames, newest first, one place for each
\* frame (Distribution._process_strikes, StrikesList).
THEOREM StrikesAreRecent == DistSpec => []StrikesAreOfTheLastFrames
<1>1. DistInv => StrikesAreOfTheLastFrames
<2> SUFFICES ASSUME DistInv PROVE StrikesAreOfTheLastFrames
  OBVIOUS
<2>1. PICK k \in Nat : ReportedTo(ends, contract, k)
  BY DEF DistInv
<2>2. Reported = 0 .. k - 1
  BY <2>1, ReportedFrames DEF DistInv
<2> DEFINE newest == IF Reported = {} THEN -1 ELSE Max(Reported)
           strike(v, f) == IF f >= 0 /\ v \in StrikesIn(ends[f + 1].outcomes) THEN 1 ELSE 0
           list(v) == [i \in 1 .. Lifetime |-> strike(v, newest - i + 1)]
<2>3. newest = k - 1
<3>1. CASE k = 0
  BY <2>2, <3>1
<3>2. CASE k # 0
<4>1. k - 1 \in Reported /\ Reported \in SUBSET (0 .. k) /\ Reported # {}
<5>1. k - 1 \in 0 .. k - 1 /\ \A f \in 0 .. k - 1 : f \in 0 .. k
  BY <3>2
<5> QED
  BY <2>2, <5>1
<4>2. Max(Reported) \in Reported /\ \A f \in Reported : f <= Max(Reported)
  BY <4>1, MaxUpTo
<4>3. Max(Reported) <= k - 1 /\ k - 1 <= Max(Reported) /\ Max(Reported) \in Nat
  BY <2>2, <4>1, <4>2
<4> QED
  BY <4>1, <4>3
<3> QED
  BY <3>1, <3>2
<2> HIDE DEF newest
<2>4. ASSUME NEW v PROVE list(v) = StrikesOfLast(ends, v, k)
<3>1. \A i \in 1 .. Lifetime : newest - i + 1 = k - i
  BY <2>3, DistributionAssumption
<3>2. \A i \in 1 .. Lifetime : strike(v, newest - i + 1) = Strike(ends, v, k - i)
  BY <3>1, Zenon DEF Strike
<3> HIDE DEF strike
<3> QED
  BY <3>2, Zenon DEF StrikesOfLast
<2>5. \A v \in DOMAIN OperatorOf :
        IF v \in DOMAIN contract.strikes THEN contract.strikes[v] = list(v)
        ELSE \A i \in 1 .. Lifetime : list(v)[i] = 0
<3> HIDE DEF list
<3>1. AreStrikes(ends, contract.strikes, k)
  BY <2>1 DEF ReportedTo
<3>2. ASSUME NEW v \in DOMAIN OperatorOf, NEW i \in 1 .. Lifetime
      PROVE  list(v)[i] = Strike(ends, v, k - i)
  BY <2>4 DEF StrikesOfLast
<3> QED
  BY <2>4, <3>1, <3>2, Zenon DEF AreStrikes
<2> QED
  BY <2>5, Zenon DEF StrikesAreOfTheLastFrames, newest
<1> QED
  BY <1>1, DistInvIsInvariant, PTL

-----------------------------------------------------------------------------
(* Iterations *)

\* The values of an iteration: they exist for any number of steps.
LEMMA Iteration ==
  ASSUME NEW X, NEW base \in X, NEW N \in Nat, NEW step \in [1 .. N -> [X -> X]]
  PROVE  \E f \in [0 .. N -> X] :
           f = [n \in 0 .. N |-> IF n = 0 THEN base ELSE step[n][f[n - 1]]]
<1> DEFINE Good(m, f) == /\ f \in [0 .. m -> X]
                         /\ f = [n \in 0 .. m |-> IF n = 0 THEN base ELSE step[n][f[n - 1]]]
           Bad == {m \in 0 .. N : ~\E f : Good(m, f)}
<1>1. Bad = {}
<2>1. SUFFICES ASSUME Bad # {} PROVE FALSE
  OBVIOUS
<2>2. PICK m \in Bad : \A k \in Bad : m <= k
<3>1. Bad \in SUBSET Nat
  OBVIOUS
<3> HIDE DEF Bad
<3> QED
  BY <2>1, <3>1, LeastNat
<2>3. CASE m = 0
<3> DEFINE f == [n \in 0 .. 0 |-> base]
<3>1. Good(0, f)
  OBVIOUS
<3> HIDE DEF Good, f
<3> QED
  BY <2>2, <2>3, <3>1
<2>4. CASE m # 0
<3>1. m - 1 \in 0 .. N /\ m - 1 \notin Bad /\ m \in 1 .. N /\ m - 1 \in Nat
<4>1. m \in 0 .. N
  BY <2>2
<4>2. m - 1 \in 0 .. N /\ ~(m <= m - 1) /\ m \in 1 .. N /\ m - 1 \in Nat
  BY <2>4, <4>1
<4> HIDE DEF Bad
<4> QED
  BY <2>2, <4>2
<3>2. PICK g : Good(m - 1, g)
  BY <3>1
<3> DEFINE f == [n \in 0 .. m |-> IF n = m THEN step[m][g[m - 1]] ELSE g[n]]
<3>3. ASSUME NEW n \in 0 .. m
      PROVE  /\ f[n] \in X
             /\ f[n] = IF n = 0 THEN base ELSE step[n][f[n - 1]]
<4>1. CASE n = m
<5>1. m - 1 \in 0 .. m /\ m - 1 # m /\ m - 1 \in 0 .. m - 1 /\ m # 0
  BY <3>1
<5>2. f[m - 1] = g[m - 1] /\ f[n] = step[m][g[m - 1]]
  BY <4>1, <5>1
<5>3. g[m - 1] \in X
  BY <3>2, <5>1
<5> HIDE DEF f
<5> QED
  BY <3>1, <4>1, <5>1, <5>2, <5>3
<4>2. CASE n # m
<5>1. n \in 0 .. m - 1
  BY <3>1, <4>2
<5>2. f[n] = g[n] /\ g[n] \in X /\ g[n] = IF n = 0 THEN base ELSE step[n][g[n - 1]]
  BY <3>2, <4>2, <5>1
<5>3. n # 0 => f[n - 1] = g[n - 1]
<6>1. n # 0 => n - 1 \in 0 .. m /\ n - 1 # m
  BY <3>1, <5>1
<6> QED
  BY <6>1
<5> HIDE DEF f
<5> QED
  BY <5>2, <5>3
<4> QED
  BY <4>1, <4>2
<3>4. Good(m, f)
<4>1. f = [n \in 0 .. m |-> f[n]]
  OBVIOUS
<4> HIDE DEF f
<4> QED
  BY <3>3, <4>1
<3> HIDE DEF Good, f
<3> QED
  BY <2>2, <3>4
<2> QED
  BY <2>3, <2>4
<1>2. N \in 0 .. N /\ N \notin Bad
<2> HIDE DEF Bad
<2> QED
  BY <1>1
<1>3. PICK f : Good(N, f)
  BY <1>2
<1> QED
  BY <1>3

-----------------------------------------------------------------------------
(* What an attestation shows *)

Attestation ==
  {a \in [slot : Nat, committees : SUBSET Nat, voters : SUBSET Attesters] :
     a.voters \subseteq
       UNION {ToSet(CommitteesOf(a.slot)[c]) : c \in a.committees \cap DOMAIN CommitteesOf(a.slot)}}

LEMMA CommitteesTyped ==
  ASSUME NEW s \in Nat
  PROVE  CommitteesOf(s) \in Seq(Seq(Attesters))
<1>1. SlotsPerEpoch \in Nat \ {0}
  BY CheckpointAssumption
<1>2. s % SlotsPerEpoch \in 0 .. SlotsPerEpoch - 1
  BY <1>1
<1> QED
  BY <1>2, CheckpointAssumption DEF CommitteesOf

IsBits(a, bits) ==
  bits = [n \in 0 .. Len(CommitteesOf(a.slot)) |->
            IF n = 0 THEN <<>>
            ELSE IF n \in a.committees THEN bits[n - 1] \o BitsOf(a, n) ELSE bits[n - 1]]

\* The bits of the committees up to the n-th.
BitsUpTo(a) == CHOOSE bits : IsBits(a, bits)

LEMMA BitsOfTyped ==
  ASSUME NEW a \in Attestation, NEW n \in 1 .. Len(CommitteesOf(a.slot))
  PROVE  /\ BitsOf(a, n) \in Seq(BOOLEAN)
         /\ Len(BitsOf(a, n)) = Len(CommitteesOf(a.slot)[n])
         /\ \A i \in 1 .. Len(CommitteesOf(a.slot)[n]) :
              BitsOf(a, n)[i] = (CommitteesOf(a.slot)[n][i] \in a.voters)
<1> DEFINE c == CommitteesOf(a.slot)[n]
<1>1. c \in Seq(Attesters)
<2>1. a.slot \in Nat
  BY DEF Attestation
<2>2. CommitteesOf(a.slot) \in Seq(Seq(Attesters))
  BY <2>1, CommitteesTyped
<2> QED
  BY <2>2
<1>2. DOMAIN c = 1 .. Len(c) /\ Len(c) \in Nat
  BY <1>1
<1>3. BitsOf(a, n) = [i \in 1 .. Len(c) |-> c[i] \in a.voters]
  BY <1>2 DEF BitsOf
<1> HIDE DEF c
<1>4. [i \in 1 .. Len(c) |-> c[i] \in a.voters] \in [1 .. Len(c) -> BOOLEAN]
  OBVIOUS
<1> QED
  BY <1>2, <1>3, <1>4 DEF c

LEMMA BitsExist ==
  ASSUME NEW a \in Attestation
  PROVE  IsBits(a, BitsUpTo(a)) /\ BitsUpTo(a) \in [0 .. Len(CommitteesOf(a.slot)) -> Seq(BOOLEAN)]
<1> DEFINE N == Len(CommitteesOf(a.slot))
           X == Seq(BOOLEAN)
           step == [n \in 1 .. N |-> [x \in X |-> IF n \in a.committees THEN x \o BitsOf(a, n) ELSE x]]
<1>1. N \in Nat
<2>1. a.slot \in Nat
  BY DEF Attestation
<2> QED
  BY <2>1, CommitteesTyped, LenProperties
<1>2. step \in [1 .. N -> [X -> X]]
<2>1. ASSUME NEW n \in 1 .. N, NEW x \in X PROVE x \o BitsOf(a, n) \in X
  BY BitsOfTyped, <2>1
<2> QED
  BY <2>1
<1>3. <<>> \in X
  OBVIOUS
<1> HIDE DEF step, X, N
<1>4. PICK f \in [0 .. N -> X] : f = [n \in 0 .. N |-> IF n = 0 THEN <<>> ELSE step[n][f[n - 1]]]
  BY <1>1, <1>2, <1>3, Iteration
<1>5. ASSUME NEW n \in 0 .. N, n # 0
      PROVE  step[n][f[n - 1]] = IF n \in a.committees THEN f[n - 1] \o BitsOf(a, n) ELSE f[n - 1]
<2>1. n \in 1 .. N /\ n - 1 \in 0 .. N
  BY <1>1, <1>5
<2>2. f[n - 1] \in X
  BY <2>1
<2> QED
  BY <2>1, <2>2 DEF step
<1>6. IsBits(a, f)
<2>1. f = [n \in 0 .. N |-> IF n = 0 THEN <<>>
             ELSE IF n \in a.committees THEN f[n - 1] \o BitsOf(a, n) ELSE f[n - 1]]
  BY <1>4, <1>5
<2> QED
  BY <2>1, Zenon DEF IsBits, N
<1>7. IsBits(a, BitsUpTo(a))
  BY <1>6, Zenon DEF BitsUpTo
<1> DEFINE b == BitsUpTo(a)
<1>8. /\ b = [n \in 0 .. N |-> b[n]]
      /\ \A n \in 0 .. N : b[n] = IF n = 0 THEN <<>>
             ELSE IF n \in a.committees THEN b[n - 1] \o BitsOf(a, n) ELSE b[n - 1]
<2> HIDE DEF b
<2>1. b = [n \in 0 .. N |-> IF n = 0 THEN <<>>
             ELSE IF n \in a.committees THEN b[n - 1] \o BitsOf(a, n) ELSE b[n - 1]]
  BY <1>7, Zenon DEF IsBits, N, b
<2> QED
  BY <2>1
<1> HIDE DEF b
<1> DEFINE S == {n \in 0 .. N : b[n] \in X}
<1>9. \A n \in 1 .. N : n - 1 \in S => n \in S
<2> SUFFICES ASSUME NEW n \in 1 .. N, n - 1 \in S PROVE b[n] \in X
  BY <1>1
<2>1. b[n - 1] \in X /\ n \in 0 .. N /\ n # 0
  OBVIOUS
<2>2. b[n - 1] \o BitsOf(a, n) \in X
  BY <2>1, BitsOfTyped DEF X, N
<2> QED
  BY <1>8, <2>1, <2>2
<1>9a. 0 \in S
  BY <1>1, <1>3, <1>8
<1>10. \A n \in 0 .. N : b[n] \in X
<2> HIDE DEF S
<2>1. \A n \in 0 .. N : n \in S
  BY <1>1, <1>9, <1>9a, Upward
<2> QED
  BY <2>1 DEF S
<1>11. b \in [0 .. N -> X]
<2>1. b = [n \in 0 .. N |-> b[n]]
  BY <1>8
<2> QED
  BY <1>10, <2>1
<1> QED
  BY <1>7, <1>11 DEF b, N, X

\* Every committee finds its bits in the last bits, after those of the committees before.
LEMMA BitsGrow ==
  ASSUME NEW a \in Attestation
  PROVE  \A m \in 0 .. Len(CommitteesOf(a.slot)) : \A n \in 0 .. m :
           /\ Len(BitsUpTo(a)[n]) <= Len(BitsUpTo(a)[m])
           /\ \A i \in 1 .. Len(BitsUpTo(a)[n]) : BitsUpTo(a)[m][i] = BitsUpTo(a)[n][i]
<1> DEFINE N == Len(CommitteesOf(a.slot))
           b == BitsUpTo(a)
           S == {m \in 0 .. N : \A n \in 0 .. m :
                   /\ Len(b[n]) <= Len(b[m])
                   /\ \A i \in 1 .. Len(b[n]) : b[m][i] = b[n][i]}
<1>1. N \in Nat
<2>1. a.slot \in Nat
  BY DEF Attestation
<2> QED
  BY <2>1, CommitteesTyped, LenProperties
<1>2. \A n \in 0 .. N : b[n] \in Seq(BOOLEAN) /\ Len(b[n]) \in Nat
  BY BitsExist
<1>3. \A n \in 1 .. N :
         b[n] = IF n \in a.committees THEN b[n - 1] \o BitsOf(a, n) ELSE b[n - 1]
<2> SUFFICES ASSUME NEW n \in 1 .. N
             PROVE  b[n] = IF n \in a.committees THEN b[n - 1] \o BitsOf(a, n) ELSE b[n - 1]
  OBVIOUS
<2>1. n \in 0 .. N /\ n # 0
  BY <1>1
<2>2. IsBits(a, b)
  BY BitsExist
<2> HIDE DEF b
<2> QED
  BY <2>1, <2>2 DEF IsBits
<1>4. ASSUME NEW m \in 1 .. N
      PROVE  /\ Len(b[m - 1]) <= Len(b[m])
             /\ \A i \in 1 .. Len(b[m - 1]) : b[m][i] = b[m - 1][i]
<2>1. m - 1 \in 0 .. N
  BY <1>1
<2>2. b[m - 1] \in Seq(BOOLEAN) /\ BitsOf(a, m) \in Seq(BOOLEAN) /\ Len(b[m - 1]) \in Nat
  BY <1>2, <2>1, BitsOfTyped
<2>3. CASE m \in a.committees
<3>1. b[m] = b[m - 1] \o BitsOf(a, m)
  BY <1>3, <2>3
<3> HIDE DEF b
<3> QED
  BY <2>2, <3>1, ConcatProperties, LenProperties
<2>4. CASE m \notin a.committees
<3>1. b[m] = b[m - 1]
  BY <1>3, <2>4
<3> HIDE DEF b
<3> QED
  BY <2>2, <3>1
<2> QED
  BY <2>3, <2>4
<1> HIDE DEF b
<1>5. 0 \in S
<2>1. \A n \in 0 .. 0 : n = 0
  OBVIOUS
<2>2. 0 \in 0 .. N /\ Len(b[0]) \in Nat
  BY <1>1, <1>2
<2> QED
  BY <2>1, <2>2
<1>6. ASSUME NEW m \in 1 .. N, m - 1 \in S PROVE m \in S
<2>1. m \in 0 .. N /\ m - 1 \in 0 .. N /\ m \in Int
  BY <1>1
<2>2. ASSUME NEW n \in 0 .. m
      PROVE  /\ Len(b[n]) <= Len(b[m])
             /\ \A i \in 1 .. Len(b[n]) : b[m][i] = b[n][i]
<3>1. Len(b[n]) \in Nat /\ Len(b[m]) \in Nat /\ Len(b[m - 1]) \in Nat
<4>1. n \in 0 .. N
  BY <1>1
<4> QED
  BY <1>2, <2>1, <4>1
<3>2. CASE n = m
  BY <3>1, <3>2
<3>3. CASE n # m
<4>1. n \in 0 .. m - 1
  BY <2>1, <3>3
<4>2. /\ Len(b[n]) <= Len(b[m - 1])
      /\ \A i \in 1 .. Len(b[n]) : b[m - 1][i] = b[n][i]
  BY <1>6, <4>1
<4>3. \A i \in 1 .. Len(b[n]) : i \in 1 .. Len(b[m - 1])
  BY <3>1, <4>2
<4> HIDE DEF S
<4> QED
  BY <1>4, <3>1, <4>2, <4>3
<3> QED
  BY <3>2, <3>3
<2> QED
  BY <2>1, <2>2
<1>7. \A m \in 0 .. N : m \in S
<2> HIDE DEF S
<2> QED
  BY <1>1, <1>5, <1>6, Upward
<1> QED
  BY <1>7 DEF b

\* process_attestations, committee after committee.
Shown(a, bits, seen, n) ==
  LET committees == CommitteesOf(a.slot)
  IN [offset |-> NextOffset(seen.offset, committees[n]),
      found |-> seen.found
        \cup {committees[n][i] : i \in {i \in DOMAIN committees[n] : bits[seen.offset + i]}}]

IsSeen(a, bits, seen) ==
  seen = [n \in 0 .. Len(CommitteesOf(a.slot)) |->
            IF n = 0 THEN [offset |-> 0, found |-> {}]
            ELSE IF n \notin a.committees THEN seen[n - 1] ELSE Shown(a, bits, seen[n - 1], n)]

SeenUpTo(a, bits) == CHOOSE seen : IsSeen(a, bits, seen)

LEMMA SeenExists ==
  ASSUME NEW a \in Attestation, NEW bits
  PROVE  IsSeen(a, bits, SeenUpTo(a, bits))
<1> DEFINE N == Len(CommitteesOf(a.slot))
           X == [offset : Nat, found : SUBSET Attesters]
           step == [n \in 1 .. N |-> [x \in X |-> IF n \notin a.committees THEN x ELSE Shown(a, bits, x, n)]]
           base == [offset |-> 0, found |-> {}]
<1>0. CommitteesOf(a.slot) \in Seq(Seq(Attesters)) /\ N \in Nat
<2>1. a.slot \in Nat
  BY DEF Attestation
<2> QED
  BY <2>1, CommitteesTyped, LenProperties
<1>2. step \in [1 .. N -> [X -> X]]
<2>1. ASSUME NEW n \in 1 .. N, NEW x \in X PROVE Shown(a, bits, x, n) \in X
<3> DEFINE c == CommitteesOf(a.slot)[n]
<3>1. c \in Seq(Attesters) /\ Len(c) \in Nat
  BY <1>0
<3> HIDE DEF c
<3>2. \A i \in DOMAIN c : c[i] \in Attesters
  BY <3>1
<3>3. x.offset \in Nat /\ x.found \in SUBSET Attesters
  OBVIOUS
<3>4. NextOffset(x.offset, c) \in Nat
  BY <3>1, <3>3 DEF NextOffset
<3> HIDE DEF X
<3>5. Shown(a, bits, x, n) = [offset |-> NextOffset(x.offset, c),
        found |-> x.found \cup {c[i] : i \in {i \in DOMAIN c : bits[x.offset + i]}}]
  BY DEF Shown, c
<3>6. x.found \cup {c[i] : i \in {i \in DOMAIN c : bits[x.offset + i]}} \in SUBSET Attesters
  BY <3>2, <3>3
<3> QED
  BY <3>4, <3>5, <3>6 DEF X
<2> HIDE DEF X
<2> QED
  BY <2>1
<1>3. base \in X
  OBVIOUS
<1> HIDE DEF step, X, N, base
<1>3a. N \in Nat
  BY <1>0
<1>4. PICK f \in [0 .. N -> X] : f = [n \in 0 .. N |-> IF n = 0 THEN base ELSE step[n][f[n - 1]]]
  BY <1>2, <1>3, <1>3a, Iteration
<1>5. ASSUME NEW n \in 0 .. N, n # 0
      PROVE  step[n][f[n - 1]] = IF n \notin a.committees THEN f[n - 1] ELSE Shown(a, bits, f[n - 1], n)
<2>1. n \in 1 .. N /\ n - 1 \in 0 .. N
  BY <1>0, <1>5
<2>2. f[n - 1] \in X
  BY <2>1
<2> QED
  BY <2>1, <2>2 DEF step
<1>6. IsSeen(a, bits, f)
<2>1. f = [n \in 0 .. N |-> IF n = 0 THEN base
             ELSE IF n \notin a.committees THEN f[n - 1] ELSE Shown(a, bits, f[n - 1], n)]
  BY <1>4, <1>5
<2> QED
  BY <2>1, Zenon DEF IsSeen, N, base
<1> QED
  BY <1>6, Zenon DEF SeenUpTo

\* Bits of the aggregate are told to the validators that set them.
LEMMA AttestedIsVoters ==
  ASSUME NEW a \in Attestation
  PROVE  Attested(a) = a.voters
<1> DEFINE cs == CommitteesOf(a.slot)
           N == Len(CommitteesOf(a.slot))
           b == BitsUpTo(a)
           bits == AggregationBits(a)
           seen == SeenUpTo(a, bits)
           of(n) == a.voters \cap UNION {ToSet(cs[c]) : c \in a.committees \cap (1 .. n)}
           S == {n \in 0 .. N : seen[n].offset = Len(b[n]) /\ seen[n].found = of(n)}
<1>1. N \in Nat /\ cs \in Seq(Seq(Attesters)) /\ DOMAIN cs = 1 .. N
<2>1. a.slot \in Nat
  BY DEF Attestation
<2> QED
  BY <2>1, CommitteesTyped, LenProperties
<1>2. bits = b[N]
  BY Zenon DEF AggregationBits, BitsUpTo, IsBits
<1>3. Attested(a) = seen[N].found
  BY Zenon DEF Attested, SeenUpTo, IsSeen, Shown
<1>4. /\ seen[0] = [offset |-> 0, found |-> {}]
      /\ \A n \in 1 .. N : seen[n] =
           IF n \notin a.committees THEN seen[n - 1] ELSE Shown(a, bits, seen[n - 1], n)
<2>1. IsSeen(a, bits, seen)
  BY SeenExists
<2>2. 0 \in 0 .. N /\ \A n \in 1 .. N : n \in 0 .. N /\ n # 0
  BY <1>1
<2> HIDE DEF seen, bits
<2> QED
  BY <2>1, <2>2 DEF IsSeen
<1>5. /\ b[0] = <<>>
      /\ \A n \in 0 .. N : b[n] \in Seq(BOOLEAN) /\ Len(b[n]) \in Nat
      /\ \A n \in 1 .. N :
           b[n] = IF n \in a.committees THEN b[n - 1] \o BitsOf(a, n) ELSE b[n - 1]
<2>1. IsBits(a, b) /\ \A n \in 0 .. N : b[n] \in Seq(BOOLEAN) /\ Len(b[n]) \in Nat
  BY BitsExist
<2>2. 0 \in 0 .. N /\ \A n \in 1 .. N : n \in 0 .. N /\ n # 0
  BY <1>1
<2> HIDE DEF b
<2> QED
  BY <2>1, <2>2 DEF IsBits
<1>6. \A n \in 0 .. N : /\ Len(b[n]) <= Len(bits)
                        /\ \A i \in 1 .. Len(b[n]) : bits[i] = b[n][i]
<2>1. N \in 0 .. N
  BY <1>1
<2> QED
  BY <1>2, <2>1, BitsGrow
<1> HIDE DEF seen, bits, b
<1>7. 0 \in S
<2>1. of(0) = {}
<3>1. 1 .. 0 = {}
  OBVIOUS
<3> QED
  BY <3>1
<2>2. 0 \in 0 .. N
  BY <1>1
<2>3. b[0] = <<>> /\ seen[0] = [offset |-> 0, found |-> {}]
  BY <1>4, <1>5
<2> HIDE DEF of
<2>4. seen[0].offset = Len(b[0]) /\ seen[0].found = of(0)
  BY <2>1, <2>3
<2> QED
  BY <2>2, <2>4
<1>8. ASSUME NEW n \in 1 .. N, n - 1 \in S PROVE n \in S
<2>1. n - 1 \in 0 .. N /\ n \in 0 .. N /\ n \in Int
  BY <1>1
<2>2. seen[n - 1].offset = Len(b[n - 1]) /\ seen[n - 1].found = of(n - 1)
  BY <1>8
<2>3. CASE n \notin a.committees
<3>1. of(n) = of(n - 1)
<4>1. a.committees \cap (1 .. n) = a.committees \cap (1 .. n - 1)
<5>1. \A x \in a.committees : x \in 1 .. n <=> x \in 1 .. n - 1
  BY <2>1, <2>3
<5> QED
  BY <5>1
<4> QED
  BY <4>1, Zenon
<3>2. seen[n] = seen[n - 1] /\ b[n] = b[n - 1]
  BY <1>4, <1>5, <2>3
<3> HIDE DEF of
<3> QED
  BY <2>1, <2>2, <3>1, <3>2
<2>4. CASE n \in a.committees
<3> DEFINE c == cs[n]
           w == b[n - 1]
<3>0. n \in DOMAIN cs
  BY <1>1
<3>1. c \in Seq(Attesters) /\ DOMAIN c = 1 .. Len(c) /\ Len(c) \in Nat
  BY <1>1, <3>0
<3>2. seen[n] = Shown(a, bits, seen[n - 1], n) /\ b[n] = w \o BitsOf(a, n)
  BY <1>4, <1>5, <2>4
<3>3. /\ w \in Seq(BOOLEAN) /\ Len(w) \in Nat
      /\ BitsOf(a, n) \in Seq(BOOLEAN) /\ Len(BitsOf(a, n)) = Len(c)
      /\ \A i \in 1 .. Len(c) : BitsOf(a, n)[i] = (c[i] \in a.voters)
  BY <1>5, <2>1, BitsOfTyped
<3>4. /\ Len(b[n]) = Len(w) + Len(c)
      /\ \A i \in 1 .. Len(c) : b[n][Len(w) + i] = (c[i] \in a.voters)
<4> HIDE DEF w, c
<4>1. Len(b[n]) = Len(w) + Len(c)
  BY <3>2, <3>3, ConcatProperties
<4>2. ASSUME NEW i \in 1 .. Len(c) PROVE b[n][Len(w) + i] = (c[i] \in a.voters)
<5>1. Len(w) + i \in 1 .. Len(w) + Len(BitsOf(a, n)) /\ ~(Len(w) + i <= Len(w))
      /\ Len(w) + i - Len(w) = i
  BY <3>1, <3>3
<5>2. b[n][Len(w) + i] = BitsOf(a, n)[i]
  BY <3>2, <3>3, <5>1, ConcatProperties
<5> QED
  BY <3>3, <5>2
<4> QED
  BY <4>1, <4>2
<3>5. \A i \in DOMAIN c : bits[Len(w) + i] = (c[i] \in a.voters)
<4> SUFFICES ASSUME NEW i \in DOMAIN c PROVE bits[Len(w) + i] = (c[i] \in a.voters)
  OBVIOUS
<4> HIDE DEF w, c
<4>1. i \in 1 .. Len(c) /\ Len(w) + i \in 1 .. Len(b[n])
  BY <3>1, <3>3, <3>4
<4> QED
  BY <1>6, <2>1, <3>4, <4>1
<3>6. {c[i] : i \in {i \in DOMAIN c : bits[Len(w) + i]}} = a.voters \cap ToSet(c)
<4> HIDE DEF w, c
<4>1. {i \in DOMAIN c : bits[Len(w) + i]} = {i \in DOMAIN c : c[i] \in a.voters}
  BY <3>5
<4>2. ToSet(c) = {c[i] : i \in DOMAIN c}
  BY Zenon DEF ToSet
<4> QED
  BY <4>1, <4>2
<3>7. seen[n].offset = Len(b[n]) /\ seen[n].found = of(n - 1) \cup (a.voters \cap ToSet(c))
<4> HIDE DEF of
<4>1. Shown(a, bits, seen[n - 1], n) =
        [offset |-> NextOffset(Len(w), c),
         found |-> of(n - 1) \cup {c[i] : i \in {i \in DOMAIN c : bits[Len(w) + i]}}]
  BY <2>2, Zenon DEF Shown
<4> HIDE DEF w, c
<4>2. seen[n] = [offset |-> NextOffset(Len(w), c), found |-> of(n - 1) \cup (a.voters \cap ToSet(c))]
  BY <3>2, <3>6, <4>1
<4> QED
  BY <3>4, <4>2 DEF NextOffset
<3>8. of(n) = of(n - 1) \cup (a.voters \cap ToSet(c))
<4>1. \A x \in a.committees : x \in 1 .. n <=> x \in 1 .. n - 1 \/ x = n
  BY <2>1
<4>2. a.committees \cap (1 .. n) = (a.committees \cap (1 .. n - 1)) \cup {n}
  BY <2>4, <4>1
<4> DEFINE T == a.committees \cap (1 .. n - 1)
           member(x) == ToSet(cs[x])
<4>3. UNION {member(x) : x \in T \cup {n}} = (UNION {member(x) : x \in T}) \cup member(n)
<5> HIDE DEF T, member
<5> QED
  OBVIOUS
<4> HIDE DEF T
<4>4. a.voters \cap UNION {member(x) : x \in T \cup {n}}
      = (a.voters \cap UNION {member(x) : x \in T}) \cup (a.voters \cap member(n))
  BY <4>3
<4> QED
  BY <4>2, <4>4 DEF T
<3> HIDE DEF of
<3> QED
  BY <2>1, <3>7, <3>8
<2> QED
  BY <2>3, <2>4
<1>9. N \in S
<2> HIDE DEF S
<2>1. \A n \in 0 .. N : n \in S
  BY <1>1, <1>7, <1>8, Upward
<2> QED
  BY <1>1, <2>1
<1>10. of(N) = a.voters
<2>1. a.voters \subseteq UNION {ToSet(cs[c]) : c \in a.committees \cap (1 .. N)}
  BY <1>1 DEF Attestation
<2> QED
  BY <2>1
<1> QED
  BY <1>3, <1>9, <1>10

-----------------------------------------------------------------------------
(* Places in a ring *)

LEMMA RemFacts ==
  ASSUME NEW a \in Int, NEW n \in Nat \ {0}
  PROVE  /\ a % n \in 0 .. n - 1 /\ a % n \in Int
         /\ a \div n \in Int /\ a = (a \div n) * n + (a % n)
  OBVIOUS

LEMMA RemUnique ==
  ASSUME NEW n \in Nat \ {0}, NEW q \in Int, NEW r \in 0 .. n - 1
  PROVE  ((q * n) + r) % n = r
  OBVIOUS

\* Numbers that are multiples apart have the same place.
LEMMA SamePlace ==
  ASSUME NEW n \in Nat \ {0}, NEW a \in Int, NEW k \in Int
  PROVE  (a + k * n) % n = a % n
<1> DEFINE q == a \div n
           r == a % n
<1>1. q \in Int /\ r \in 0 .. n - 1 /\ a = q * n + r
  BY RemFacts
<1> HIDE DEF q, r
<1>2. a + k * n = ((q + k) * n) + r
<2>1. (q + k) * n = q * n + k * n
  BY <1>1
<2>2. q * n \in Int /\ k * n \in Int /\ r \in Int
  BY <1>1
<2> QED
  BY <1>1, <2>1, <2>2
<1>3. ((q + k) * n + r) % n = r
  BY <1>1, RemUnique
<1> QED
  BY <1>2, <1>3 DEF r

\* Numbers less than a round apart have different places.
LEMMA OtherPlace ==
  ASSUME NEW n \in Nat \ {0}, NEW a \in Int, NEW b \in Int, a < b, b < a + n
  PROVE  a % n # b % n
<1> SUFFICES ASSUME a % n = b % n PROVE FALSE
  OBVIOUS
<1> DEFINE p == a \div n
           q == b \div n
           r == a % n
<1>1. p \in Int /\ q \in Int /\ r \in Int /\ a = p * n + r /\ b = q * n + r
  BY RemFacts
<1> HIDE DEF p, q, r
<1> DEFINE d == q - p
<1>2. d \in Int /\ d * n = q * n - p * n /\ q * n \in Int /\ p * n \in Int
  BY <1>1
<1>3. d * n > 0 /\ d * n < n
  BY <1>1, <1>2
<1> HIDE DEF d
<1>4. CASE d <= 0
<2>1. -d \in Nat /\ (-d) * n >= 0 /\ (-d) * n = -(d * n)
  BY <1>2, <1>4
<2> QED
  BY <1>2, <1>3, <2>1
<1>5. CASE d > 0
<2>1. d - 1 \in Nat /\ (d - 1) * n >= 0 /\ (d - 1) * n = d * n - n
  BY <1>2, <1>5
<2> QED
  BY <1>2, <1>3, <2>1
<1> QED
  BY <1>2, <1>4, <1>5

\* The place before that of a number.
LEMMA PlaceBefore ==
  ASSUME NEW n \in Nat \ {0}, NEW a \in Int
  PROVE  ((a % n) - 1) % n = (a - 1) % n
<1> DEFINE q == a \div n
           r == a % n
<1>1. q \in Int /\ r \in Int /\ a = q * n + r
  BY RemFacts
<1> HIDE DEF q, r
<1>2. (r - 1 + q * n) % n = (r - 1) % n
<2>1. r - 1 \in Int
  BY <1>1
<2> QED
  BY <1>1, <2>1, SamePlace
<1>3. q * n \in Int /\ r - 1 + q * n = a - 1
  BY <1>1
<1> QED
  BY <1>2, <1>3 DEF r

-----------------------------------------------------------------------------
(* The ring of block roots *)

Unsigned == UNION {DOMAIN Rotation[p] : p \in Int}
Block == [there : BOOLEAN, attestations : SUBSET Attestation, unsigned : SUBSET Unsigned]

\* HasBlock and IsLastBlock, of any chain.
There(c, s) == c[s + 1].there
LastIn(c, b, s) == b <= s /\ There(c, b) /\ \A q \in b + 1 .. s : ~There(c, q)

ChainTyped(c, n) ==
  /\ n \in Nat /\ c \in Seq(Block) /\ Len(c) = n
  /\ n > 0 => There(c, 0)

\* Of a slot in the range the ring has the last block up to it, and nothing else.
RingOfRoots(c, n, r) ==
  /\ r \in [0 .. RingSize - 1 -> Int]
  /\ \A s \in 0 .. n - 1 :
       n <= s + RingSize => r[s % RingSize] \in 0 .. s /\ LastIn(c, r[s % RingSize], s)
  /\ \A i \in n .. RingSize - 1 : r[i] = Zero

CheckpointInv == ChainTyped(chain, stateSlot) /\ RingOfRoots(chain, stateSlot, roots)

LEMMA RingConstants ==
  /\ SlotsPerEpoch \in Nat \ {0} /\ Step \in Nat \ {0}
  /\ RingSize \in Nat \ {0} /\ RingSize = Step * SlotsPerEpoch + SlotsPerEpoch
<1>1. SlotsPerEpoch \in Nat \ {0} /\ Step \in Nat \ {0}
  BY CheckpointAssumption
<1>2. RingSize = Step * SlotsPerEpoch + SlotsPerEpoch /\ Step * SlotsPerEpoch \in Nat
  BY <1>1 DEF RingSize
<1> QED
  BY <1>1, <1>2

LEMMA CheckpointStart == CheckpointInit => CheckpointInv
<1> SUFFICES ASSUME CheckpointInit PROVE CheckpointInv
  OBVIOUS
<1>1. ChainTyped(chain, stateSlot)
  BY DEF CheckpointInit, ChainTyped
<1>2. roots = [i \in 0 .. RingSize - 1 |-> Zero] /\ Zero \in Int /\ stateSlot = 0
  BY DEF CheckpointInit, Zero
<1>3. RingSize \in Nat
  BY RingConstants
<1>4. RingOfRoots(chain, stateSlot, roots)
  BY <1>2, <1>3 DEF RingOfRoots
<1> QED
  BY <1>1, <1>4 DEF CheckpointInv

\* Attestations that a block may include are made of committees.
LEMMA IncludableTyped ==
  ASSUME ChainTyped(chain, stateSlot)
  PROVE  Includable \subseteq Attestation
<1> SUFFICES ASSUME NEW a \in Includable PROVE a \in Attestation
  OBVIOUS
<1> DEFINE first == Max({FirstSlot(Epoch(stateSlot) - 1), 0})
           voters(s, cs) == UNION {ToSet(CommitteesOf(s)[c]) : c \in cs}
<1>1. PICK s \in first .. stateSlot - 1 :
        \E cs \in SUBSET DOMAIN CommitteesOf(s) : \E vs \in (SUBSET voters(s, cs)) \ {{}} :
          a = [slot |-> s, committees |-> cs, voters |-> vs]
<2> DEFINE of(s) == UNION {{[slot |-> s, committees |-> cs, voters |-> vs]
                       : vs \in (SUBSET voters(s, cs)) \ {{}}} : cs \in SUBSET DOMAIN CommitteesOf(s)}
<2>1. Includable = UNION {of(s) : s \in first .. stateSlot - 1}
  BY Zenon DEF Includable
<2> HIDE DEF of, first
<2>2. PICK s \in first .. stateSlot - 1 : a \in of(s)
  BY <2>1
<2> QED
  BY <2>2 DEF of
<1>1a. PICK cs \in SUBSET DOMAIN CommitteesOf(s) :
        \E vs \in (SUBSET voters(s, cs)) \ {{}} : a = [slot |-> s, committees |-> cs, voters |-> vs]
  BY <1>1
<1>2. PICK vs \in (SUBSET voters(s, cs)) \ {{}} : a = [slot |-> s, committees |-> cs, voters |-> vs]
  BY <1>1a
<1>3. s \in Nat
<2>1. SlotsPerEpoch \in Nat \ {0} /\ stateSlot \in Nat
  BY RingConstants DEF ChainTyped
<2>2. FirstSlot(Epoch(stateSlot) - 1) \in Int
<3>1. Epoch(stateSlot) \in Int
  BY <2>1 DEF Epoch
<3> QED
  BY <2>1, <3>1 DEF FirstSlot
<2>3. first \in Int /\ first >= 0
<3> DEFINE x == FirstSlot(Epoch(stateSlot) - 1)
<3>1. x \in Int /\ 0 \in Int
  BY <2>2
<3> HIDE DEF x
<3>2. Max({x, 0}) \in Int /\ Max({x, 0}) >= 0
  BY <3>1, MaxOfTwo
<3> QED
  BY <3>2 DEF x
<2> HIDE DEF first
<2> QED
  BY <2>1, <2>3
<1>4. CommitteesOf(s) \in Seq(Seq(Attesters))
  BY <1>3, CommitteesTyped
<1>5. ASSUME NEW c \in DOMAIN CommitteesOf(s)
      PROVE  c \in Nat /\ ToSet(CommitteesOf(s)[c]) \subseteq Attesters
<2>1. CommitteesOf(s)[c] \in Seq(Attesters) /\ c \in Nat
  BY <1>4
<2> DEFINE x == CommitteesOf(s)[c]
<2>2. \A i \in DOMAIN x : x[i] \in Attesters
<3> HIDE DEF x
<3> QED
  BY <2>1 DEF x
<2> QED
  BY <2>1, <2>2 DEF ToSet
<1>6. voters(s, cs) \subseteq Attesters
  BY <1>5
<1>7. a.slot = s /\ a.committees = cs /\ a.voters = vs
  BY <1>2
<1>8. cs \cap DOMAIN CommitteesOf(s) = cs
  OBVIOUS
<1>9. a.voters \subseteq UNION {ToSet(CommitteesOf(a.slot)[c]) : c \in a.committees \cap DOMAIN CommitteesOf(a.slot)}
  BY <1>2, <1>7, <1>8
<1>10. a \in [slot : Nat, committees : SUBSET Nat, voters : SUBSET Attesters]
<2>1. cs \in SUBSET Nat /\ vs \in SUBSET Attesters
  BY <1>5, <1>6
<2> QED
  BY <1>2, <1>3, <2>1
<1> QED
  BY <1>9, <1>10 DEF Attestation

\* The next slot leaves the blocks so far, and the ring what is in the range.
LEMMA NextSlotStep ==
  ASSUME CheckpointInv, NEW there \in BOOLEAN, there \/ stateSlot > 0,
         NEW attestations \in SUBSET Attestation, NEW unsigned \in SUBSET Unsigned,
         NextSlot(there, attestations, unsigned)
  PROVE  CheckpointInv'
<1> DEFINE n == stateSlot
           R == RingSize
           block == [there |-> there, attestations |-> attestations, unsigned |-> unsigned]
<1>1. /\ n \in Nat /\ chain \in Seq(Block) /\ Len(chain) = n /\ (n > 0 => There(chain, 0))
      /\ roots \in [0 .. R - 1 -> Int]
  BY DEF CheckpointInv, ChainTyped, RingOfRoots
<1>2. /\ stateSlot' = n + 1 /\ chain' = Append(chain, block)
      /\ roots' = [roots EXCEPT ![n % R] = IF there THEN n ELSE roots[(n - 1) % R]]
  BY DEF NextSlot
<1>3. R \in Nat \ {0} /\ block \in Block
  BY RingConstants DEF Block
<1>4. /\ chain' \in Seq(Block) /\ Len(chain') = n + 1
      /\ chain'[n + 1] = block /\ \A i \in 1 .. n : chain'[i] = chain[i]
<2> HIDE DEF block
<2> QED
  BY <1>1, <1>2, <1>3
<1>5. (There(chain', n) <=> there) /\ \A s \in 0 .. n - 1 : There(chain', s) <=> There(chain, s)
<2>1. \A s \in 0 .. n - 1 : s + 1 \in 1 .. n
  BY <1>1
<2>2. block.there = there
  OBVIOUS
<2> HIDE DEF block
<2>3. There(chain', n) <=> there
  BY <1>4, <2>2 DEF There
<2>4. ASSUME NEW s \in 0 .. n - 1 PROVE There(chain', s) <=> There(chain, s)
<3>1. chain'[s + 1] = chain[s + 1]
  BY <1>4, <2>1
<3> QED
  BY <3>1 DEF There
<2> QED
  BY <2>3, <2>4
<1> HIDE DEF block
<1>6. ChainTyped(chain', stateSlot')
<2>1. There(chain', 0)
<3>1. CASE n = 0
  BY <1>1, <1>5, <3>1
<3>2. CASE n # 0
<4>1. n > 0 /\ 0 \in 0 .. n - 1
  BY <1>1, <3>2
<4> QED
  BY <1>1, <1>5, <4>1
<3> QED
  BY <3>1, <3>2
<2> QED
  BY <1>1, <1>2, <1>4, <2>1 DEF ChainTyped
<1>7. n % R \in 0 .. R - 1 /\ (n - 1) % R \in 0 .. R - 1
  BY <1>1, <1>3, RemFacts
<1>8. roots' \in [0 .. R - 1 -> Int]
  BY <1>1, <1>2, <1>3, <1>7
<1>9. roots'[n % R] = (IF there THEN n ELSE roots[(n - 1) % R])
      /\ \A i \in 0 .. R - 1 : i # n % R => roots'[i] = roots[i]
  BY <1>1, <1>2, <1>7
<1>10. ASSUME NEW s \in 0 .. n, n + 1 <= s + R
       PROVE  roots'[s % R] \in 0 .. s /\ LastIn(chain', roots'[s % R], s)
<2>1. CASE s = n /\ there
<3>1. roots'[s % R] = n /\ s = n
  BY <1>9, <2>1
<3>2. \A q \in n + 1 .. n : FALSE
  BY <1>1
<3>3. LastIn(chain', n, n)
  BY <1>1, <1>5, <2>1, <3>2 DEF LastIn
<3> QED
  BY <1>1, <3>1, <3>3
<2>2. CASE s = n /\ ~there
<3> DEFINE b == roots[(n - 1) % R]
<3>1. n - 1 \in 0 .. n - 1 /\ n <= n - 1 + R
  BY <1>1, <1>3, <2>2
<3>2. b \in 0 .. n - 1 /\ LastIn(chain, b, n - 1)
  BY <3>1 DEF CheckpointInv, RingOfRoots
<3>3. roots'[s % R] = b
  BY <1>9, <2>2
<3> HIDE DEF b
<3>4. \A q \in b + 1 .. n : q \in b + 1 .. n - 1 \/ q = n
  BY <1>1, <3>2
<3>5. \A q \in b + 1 .. n - 1 : q \in 0 .. n - 1
  BY <1>1, <3>2
<3>6. There(chain', b) /\ \A q \in b + 1 .. n : ~There(chain', q)
  BY <1>5, <2>2, <3>2, <3>4, <3>5 DEF LastIn
<3>7. b \in 0 .. n /\ b <= n
  BY <1>1, <3>2
<3> QED
  BY <2>2, <3>3, <3>6, <3>7 DEF LastIn
<2>3. CASE s # n
<3> DEFINE b == roots[s % R]
<3>1. s \in 0 .. n - 1 /\ n <= s + R /\ s < n /\ n < s + R
  BY <1>1, <1>3, <1>10, <2>3
<3>2. b \in 0 .. s /\ LastIn(chain, b, s)
  BY <3>1 DEF CheckpointInv, RingOfRoots
<3>3. roots'[s % R] = b
<4>1. s % R # n % R /\ s % R \in 0 .. R - 1
<5>1. s \in Int /\ n \in Int
  BY <1>1
<5> QED
  BY <1>3, <3>1, <5>1, OtherPlace, RemFacts
<4> QED
  BY <1>9, <4>1
<3> HIDE DEF b
<3>4. b \in 0 .. n - 1 /\ \A q \in b + 1 .. s : q \in 0 .. n - 1
  BY <1>1, <3>1, <3>2
<3>5. There(chain', b) /\ \A q \in b + 1 .. s : ~There(chain', q)
  BY <1>5, <3>2, <3>4 DEF LastIn
<3>6. b <= s
  BY <3>2
<3> QED
  BY <3>2, <3>3, <3>5, <3>6 DEF LastIn
<2> QED
  BY <2>1, <2>2, <2>3
<1>11. ASSUME NEW i \in n + 1 .. R - 1 PROVE roots'[i] = Zero
<2>1. n \in 0 .. R - 1 /\ i \in 0 .. R - 1 /\ i # n /\ i \in n .. R - 1
  BY <1>1, <1>3
<2>2. n % R = n
  BY <1>3, <2>1
<2>3. roots[i] = Zero
  BY <2>1 DEF CheckpointInv, RingOfRoots
<2> QED
  BY <1>9, <2>1, <2>2, <2>3
<1>12. RingOfRoots(chain', stateSlot', roots')
<2>1. \A s \in 0 .. stateSlot' - 1 : s \in 0 .. n
  BY <1>1, <1>2
<2> QED
  BY <1>2, <1>8, <1>10, <1>11, <2>1 DEF RingOfRoots
<1> QED
  BY <1>6, <1>12 DEF CheckpointInv

LEMMA CheckpointInvariant == CheckpointSpec => []CheckpointInv
<1>1. ASSUME CheckpointInv, [CheckpointNext]_checkpointVars PROVE CheckpointInv'
<2>0. {} \in SUBSET Attestation /\ {} \in SUBSET Unsigned
  OBVIOUS
<2>1. CASE NextSlot(TRUE, {}, {})
  BY <1>1, <2>0, <2>1, NextSlotStep
<2>2. CASE stateSlot > 0 /\ NextSlot(FALSE, {}, {})
  BY <1>1, <2>0, <2>2, NextSlotStep
<2>3. ASSUME NEW a \in Includable, NextSlot(TRUE, {a}, {}) PROVE CheckpointInv'
<3>1. {a} \in SUBSET Attestation
  BY <1>1, IncludableTyped DEF CheckpointInv
<3> QED
  BY <1>1, <2>0, <2>3, <3>1, NextSlotStep
<2>4. ASSUME NEW i \in DOMAIN Rotation[Period(Epoch(stateSlot))], NextSlot(TRUE, {}, {i})
      PROVE  CheckpointInv'
<3>1. Period(Epoch(stateSlot)) \in Int
<4>1. stateSlot \in Nat /\ SlotsPerEpoch \in Nat \ {0} /\ SyncPeriod \in Nat \ {0}
  BY <1>1, CheckpointAssumption DEF CheckpointInv, ChainTyped
<4>2. Epoch(stateSlot) \in Int
  BY <4>1 DEF Epoch
<4> QED
  BY <4>1, <4>2 DEF Period
<3>2. {i} \in SUBSET Unsigned
  BY <3>1 DEF Unsigned
<3> QED
  BY <1>1, <2>0, <2>4, <3>2, NextSlotStep
<2>5. CASE UNCHANGED checkpointVars
  BY <1>1, <2>5 DEF checkpointVars, CheckpointInv
<2> QED
  BY <1>1, <2>1, <2>2, <2>3, <2>4, <2>5 DEF CheckpointNext
<1> QED
  BY <1>1, CheckpointStart, PTL DEF CheckpointSpec

LEMMA HasBlockIsThere ==
  /\ \A s : HasBlock(s) <=> There(chain, s)
  /\ \A b, s : IsLastBlock(b, s) <=> LastIn(chain, b, s)
  BY DEF HasBlock, There, IsLastBlock, LastIn

\* What the ring has of a slot in the range, and of the one before it.
LEMMA RootsAreKnown ==
  ASSUME CheckpointInv, NEW s \in 0 .. stateSlot - 1, stateSlot <= s + RingSize
  PROVE  /\ s % RingSize \in 0 .. RingSize - 1
         /\ roots[s % RingSize] \in 0 .. s
         /\ HasBlock(s) <=> roots[s % RingSize] = s
         /\ s % RingSize = stateSlot % RingSize <=> s = stateSlot - RingSize
         /\ s % RingSize # stateSlot % RingSize =>
              (HasBlock(s) <=> roots[s % RingSize] # roots[((s % RingSize) - 1) % RingSize])
<1> DEFINE n == stateSlot
           R == RingSize
           i == s % R
           b == roots[i]
           c == roots[(i - 1) % R]
<1>1. /\ n \in Nat /\ R \in Nat \ {0} /\ s \in Nat /\ s < n
      /\ n > 0 /\ There(chain, 0)
  BY RingConstants DEF CheckpointInv, ChainTyped
<1>2. b \in 0 .. s /\ LastIn(chain, b, s)
  BY DEF CheckpointInv, RingOfRoots
<1>3. i \in 0 .. R - 1
  BY <1>1, RemFacts
<1>4. HasBlock(s) <=> b = s
<2> HIDE DEF b
<2>1. b = s => There(chain, s)
  BY <1>2 DEF LastIn
<2>2. b # s => s \in b + 1 .. s
  BY <1>1, <1>2
<2>3. b # s => ~There(chain, s)
  BY <1>2, <2>2 DEF LastIn
<2> QED
  BY <2>1, <2>3, HasBlockIsThere
<1>5. i = n % R <=> s = n - R
<2>1. CASE s = n - R
<3>1. (s + 1 * R) % R = s % R
<4>1. s \in Int /\ 1 \in Int /\ R \in Nat \ {0}
  BY <1>1
<4> HIDE DEF R
<4> QED
  BY <4>1, SamePlace
<3>2. s + 1 * R = n
  BY <1>1, <2>1
<3> QED
  BY <2>1, <3>1, <3>2
<2>2. CASE s # n - R
<3>1. n < s + R /\ s \in Int /\ n \in Int
  BY <1>1, <2>2
<3>2. s % R # n % R
  BY <1>1, <3>1, OtherPlace
<3> QED
  BY <2>2, <3>2
<2> QED
  BY <2>1, <2>2
<1>6. ASSUME i # n % R PROVE HasBlock(s) <=> b # c
<2>1. n < s + R
  BY <1>1, <1>5, <1>6
<2>2. (i - 1) % R = (s - 1) % R
<3>1. s \in Int /\ R \in Nat \ {0}
  BY <1>1
<3> HIDE DEF R
<3> QED
  BY <3>1, PlaceBefore DEF i
<2>3. CASE s = 0
<3>1. (s - 1) % R = R - 1
<4>1. ((-1) * R + (R - 1)) % R = R - 1 /\ (-1) * R + (R - 1) = s - 1
<5>1. R - 1 \in 0 .. R - 1 /\ -1 \in Int /\ (-1) * R + (R - 1) = s - 1
  BY <1>1, <2>3
<5> QED
  BY <1>1, <5>1, RemUnique
<4> QED
  BY <4>1
<3>2. R - 1 \in n .. R - 1
  BY <1>1, <2>1, <2>3
<3>3. c = Zero
  BY <2>2, <3>1, <3>2 DEF CheckpointInv, RingOfRoots
<3>4. b # c /\ b = s
  BY <1>2, <2>3, <3>3 DEF Zero
<3> QED
  BY <1>4, <3>4
<2>4. CASE s # 0
<3>1. s - 1 \in 0 .. n - 1 /\ n <= s - 1 + R
  BY <1>1, <2>1, <2>4
<3>2. c \in 0 .. s - 1 /\ LastIn(chain, c, s - 1)
  BY <2>2, <3>1 DEF CheckpointInv, RingOfRoots
<3> HIDE DEF b, c
<3>3. HasBlock(s) => b # c
  BY <1>1, <1>2, <1>4, <3>2
<3>4. ~HasBlock(s) => b = c
<4>1. SUFFICES ASSUME ~HasBlock(s), b # c PROVE FALSE
  OBVIOUS
<4>2. b \in 0 .. s - 1
  BY <1>1, <1>2, <1>4, <4>1
<4>3. There(chain, b) /\ There(chain, c)
  BY <1>2, <3>2 DEF LastIn
<4>4. b < c => c \in b + 1 .. s
  BY <1>1, <3>2, <4>2
<4>5. c < b => b \in c + 1 .. s - 1
  BY <1>1, <3>2, <4>2
<4>6. b < c \/ c < b
  BY <3>2, <4>1, <4>2
<4> QED
  BY <1>2, <3>2, <4>3, <4>4, <4>5, <4>6 DEF LastIn
<3> QED
  BY <3>3, <3>4
<2> QED
  BY <2>3, <2>4
<1> QED
  BY <1>2, <1>3, <1>4, <1>5, <1>6

LEMMA NoRootInZero == Zero \in Int /\ None \in Int /\ Zero < 0 /\ None < 0 /\ Zero # None
  BY DEF Zero, None

\* The root of a slot in the range is that of its block, if it has one.
LEMMA SelectedRoot ==
  ASSUME CheckpointInv, NEW s \in 0 .. stateSlot - 1, stateSlot <= s + RingSize
  PROVE  SelectBlockRoot(s) = IF HasBlock(s) THEN s ELSE None
<1> DEFINE i == s % RingSize
           pivot == stateSlot % RingSize
           m == Max({stateSlot - RingSize, 0})
<1>1. /\ i \in 0 .. RingSize - 1
      /\ roots[i] \in 0 .. s
      /\ HasBlock(s) <=> roots[i] = s
      /\ i = pivot <=> s = stateSlot - RingSize
      /\ i # pivot => (HasBlock(s) <=> roots[i] # roots[(i - 1) % RingSize])
  BY RootsAreKnown
<1>2. /\ stateSlot \in Nat /\ RingSize \in Nat \ {0} /\ s \in Nat /\ s # None
      /\ DOMAIN roots = 0 .. RingSize - 1
  BY RingConstants, NoRootInZero DEF CheckpointInv, ChainTyped, RingOfRoots
<1>3. SelectBlockRoot(s) = IF i = pivot /\ Marked(i) # m THEN None ELSE Marked(i)
  BY <1>1, <1>2 DEF SelectBlockRoot, BlockRoots
<1>4. Marked(i) = IF i = pivot \/ roots[i] # roots[(i - 1) % RingSize] THEN roots[i] ELSE None
<2>1. roots[i] # Zero
  BY <1>1, <1>2, NoRootInZero
<2> QED
  BY <2>1 DEF Marked
<1>5. CASE i = pivot
<2>1. m = s
<3> DEFINE x == stateSlot - RingSize
<3>1. x \in Int /\ 0 \in Int /\ x = s /\ x >= 0
  BY <1>1, <1>2, <1>5
<3> HIDE DEF x
<3>2. Max({x, 0}) \in Int /\ Max({x, 0}) >= x /\ (Max({x, 0}) = x \/ Max({x, 0}) = 0)
  BY <3>1, MaxOfTwo
<3>3. Max({x, 0}) = x
  BY <3>1, <3>2
<3> QED
  BY <3>1, <3>3 DEF x
<2>2. Marked(i) = roots[i]
  BY <1>4, <1>5
<2> HIDE DEF m, i, pivot
<2> QED
  BY <1>1, <1>2, <1>3, <1>5, <2>1, <2>2
<1>6. CASE i # pivot
<2>1. SelectBlockRoot(s) = Marked(i)
  BY <1>3, <1>6
<2> HIDE DEF i, pivot
<2> QED
  BY <1>1, <1>4, <1>6, <2>1
<1> QED
  BY <1>5, <1>6

\* Before the first slot there is no root.
LEMMA NothingBeforeGenesis ==
  ASSUME CheckpointInv, NEW s \in Int, s < 0, stateSlot <= s + RingSize
  PROVE  SelectBlockRoot(s) = None
<1> DEFINE i == s % RingSize
<1>1. stateSlot \in Nat /\ RingSize \in Nat \ {0} /\ roots \in [0 .. RingSize - 1 -> Int]
  BY RingConstants DEF CheckpointInv, ChainTyped, RingOfRoots
<1>2. i = s + RingSize
<2>1. s + RingSize \in 0 .. RingSize - 1 /\ -1 \in Int
  BY <1>1
<2>2. ((-1) * RingSize + (s + RingSize)) % RingSize = s + RingSize
  BY <1>1, <2>1, RemUnique
<2>3. (-1) * RingSize + (s + RingSize) = s
  BY <1>1
<2> QED
  BY <2>2, <2>3
<1>3. i \in stateSlot .. RingSize - 1 /\ i \in 0 .. RingSize - 1
  BY <1>1, <1>2
<1>4. roots[i] = Zero
  BY <1>3 DEF CheckpointInv, RingOfRoots
<1> HIDE DEF i
<1>5. Marked(i) = None
  BY <1>4 DEF Marked
<1>6. BlockRoots[i] = None
  BY <1>1, <1>3, <1>5 DEF BlockRoots
<1> QED
  BY <1>6 DEF SelectBlockRoot, i

\* The slots of a checkpoint's epochs.
LEMMA SlotsOfDuties ==
  ASSUME CheckpointInv, NEW e \in DutyEpochs
  PROVE  /\ e \in Nat \ {0} /\ FirstSlot(e) \in Nat \ {0}
         /\ LastSlot(e) \in Int /\ LastSlot(e + 1) \in Int
         /\ FirstSlot(e) <= LastSlot(e) /\ LastSlot(e) < LastSlot(e + 1) /\ LastSlot(e + 1) < stateSlot
         /\ stateSlot <= FirstSlot(e) + RingSize
         /\ LastSlot(e - 1) = FirstSlot(e) - 1
<1> DEFINE k == Epoch(stateSlot)
           n == SlotsPerEpoch
<1>1. /\ stateSlot \in Nat /\ n \in Nat \ {0} /\ Step \in Nat \ {0}
      /\ RingSize = Step * n + n
  BY RingConstants DEF CheckpointInv, ChainTyped
<1>2. stateSlot % n = 0 /\ e \in 1 .. k - 2 /\ e > k - 2 - Step
  BY DEF DutyEpochs, Delay
<1>3. k \in Int /\ stateSlot = k * n
<2>1. stateSlot = (stateSlot \div n) * n + (stateSlot % n) /\ stateSlot \div n \in Int
  BY <1>1, RemFacts
<2>2. (stateSlot \div n) * n \in Int
  BY <1>1, <2>1
<2> QED
  BY <1>2, <2>1, <2>2 DEF Epoch
<1> HIDE DEF k
<1>4. e \in Int /\ e >= 1 /\ e <= k - 2 /\ k <= e + Step + 1
  BY <1>1, <1>2, <1>3
<1> DEFINE p == e * n
<1>5. /\ p \in Int /\ (e + 1) * n = p + n /\ (e + 2) * n = p + n + n /\ (e + 1 + 1) * n = p + n + n
      /\ (e + Step + 1) * n = p + Step * n + n /\ Step * n \in Int
      /\ (e - 1 + 1) * n = p
<2>1. e \in Int /\ n \in Int /\ Step \in Int
  BY <1>1, <1>4
<2> QED
  BY <2>1
<1>6. p >= n
<2>1. (e - 1) * n >= 0 /\ (e - 1) * n = p - n
<3>1. e - 1 \in Nat
  BY <1>4
<3> QED
  BY <1>1, <1>4, <3>1
<2> QED
  BY <1>1, <1>5, <2>1
<1>7. p + n + n <= k * n
<2>1. (k - (e + 2)) * n >= 0 /\ (k - (e + 2)) * n = k * n - (e + 2) * n
<3>1. k - (e + 2) \in Nat
  BY <1>3, <1>4
<3> QED
  BY <1>1, <1>3, <1>4, <3>1
<2>2. k * n \in Int
  BY <1>1, <1>3
<2> QED
  BY <1>1, <1>5, <2>1, <2>2
<1>8. k * n <= p + Step * n + n
<2>1. (e + Step + 1 - k) * n >= 0 /\ (e + Step + 1 - k) * n = (e + Step + 1) * n - k * n
<3>1. e + Step + 1 - k \in Nat
  BY <1>1, <1>3, <1>4
<3> QED
  BY <1>1, <1>3, <1>4, <3>1
<2>2. k * n \in Int
  BY <1>1, <1>3
<2> QED
  BY <1>1, <1>5, <2>1, <2>2
<1>9. /\ FirstSlot(e) = p /\ LastSlot(e) = p + n - 1 /\ LastSlot(e + 1) = p + n + n - 1
      /\ LastSlot(e - 1) = p - 1
<2>1. /\ FirstSlot(e) = p /\ LastSlot(e) = (e + 1) * n - 1 /\ LastSlot(e + 1) = (e + 1 + 1) * n - 1
      /\ LastSlot(e - 1) = (e - 1 + 1) * n - 1
  BY Zenon DEF FirstSlot, LastSlot
<2> DEFINE a == (e + 1) * n
           b == (e + 1 + 1) * n
           c == (e - 1 + 1) * n
<2>2. a = p + n /\ b = p + n + n /\ c = p /\ p \in Int /\ n \in Int
  BY <1>1, <1>5
<2> HIDE DEF a, b, c, p
<2>3. a - 1 = p + n - 1 /\ b - 1 = p + n + n - 1 /\ c - 1 = p - 1
  BY <2>2
<2> QED
  BY <2>1, <2>3, Zenon DEF a, b, c
<1> HIDE DEF p
<1> QED
  BY <1>1, <1>3, <1>4, <1>5, <1>6, <1>7, <1>8, <1>9

\* Of the slots of its epochs a checkpoint sees those with a block.
LEMMA RootsOfDuties ==
  ASSUME CheckpointInv, NEW e \in DutyEpochs
  PROVE  /\ EpochSlots(e) \subseteq FirstSlot(e) .. LastSlot(e + 1)
         /\ \A s \in FirstSlot(e) .. LastSlot(e + 1) :
              s \in Nat /\ SelectBlockRoot(s) = IF HasBlock(s) THEN s ELSE None
<1>1. /\ FirstSlot(e) \in Nat /\ LastSlot(e) \in Int /\ LastSlot(e + 1) \in Int
      /\ LastSlot(e) < LastSlot(e + 1) /\ LastSlot(e + 1) < stateSlot
      /\ stateSlot <= FirstSlot(e) + RingSize
      /\ stateSlot \in Nat /\ RingSize \in Nat
  BY SlotsOfDuties, RingConstants DEF CheckpointInv, ChainTyped
<1>2. \A s \in FirstSlot(e) .. LastSlot(e + 1) :
        s \in Nat /\ s \in 0 .. stateSlot - 1 /\ stateSlot <= s + RingSize
  BY <1>1
<1>3. EpochSlots(e) \subseteq FirstSlot(e) .. LastSlot(e + 1)
  BY <1>1 DEF EpochSlots
<1> QED
  BY <1>2, <1>3, SelectedRoot

LEMMA DutiesMatch == CheckpointInv => DutiesMatchTheChain
<1> SUFFICES ASSUME CheckpointInv, NEW e \in DutyEpochs
             PROVE  /\ Proposed(e) = {s \in EpochSlots(e) : HasBlock(s)}
                    /\ AttMisses(e) =
                         {v \in UNION {Members(s) : s \in EpochSlots(e)} :
                            \A b \in FirstSlot(e) .. LastSlot(e + 1) :
                              HasBlock(b) => \A a \in chain[b + 1].attestations :
                                               Epoch(a.slot) = e => v \notin a.voters}
  BY DEF DutiesMatchTheChain
<1> DEFINE Slots == FirstSlot(e) .. LastSlot(e + 1)
<1>1. EpochSlots(e) \subseteq Slots
  BY RootsOfDuties
<1>2. \A s \in Slots : s \in Nat /\ s # None /\ SelectBlockRoot(s) = IF HasBlock(s) THEN s ELSE None
  BY RootsOfDuties, NoRootInZero
<1> HIDE DEF Slots
<1>3. Proposed(e) = {s \in EpochSlots(e) : HasBlock(s)}
  BY <1>1, <1>2 DEF Proposed
<1>4. BlocksToCheck(e) = {s \in Slots : HasBlock(s)}
<2>1. BlocksToCheck(e) = {SelectBlockRoot(s) : s \in Slots} \ {None}
  BY Zenon DEF BlocksToCheck, Slots
<2> QED
  BY <1>2, <2>1
<1>5. ASSUME NEW b \in Slots, NEW a \in chain[b + 1].attestations
      PROVE  Attested(a) = a.voters
<2>1. b + 1 \in 1 .. Len(chain) /\ chain \in Seq(Block)
<3>1. /\ FirstSlot(e) \in Nat /\ LastSlot(e + 1) \in Int /\ LastSlot(e + 1) < stateSlot
      /\ stateSlot \in Nat /\ Len(chain) = stateSlot /\ chain \in Seq(Block)
  BY SlotsOfDuties DEF CheckpointInv, ChainTyped
<3> QED
  BY <3>1 DEF Slots
<2>2. chain[b + 1] \in Block
  BY <2>1
<2>3. a \in Attestation
  BY <1>5, <2>2 DEF Block
<2> QED
  BY <2>3, AttestedIsVoters
<1> DEFINE of(b) == {a \in chain[b + 1].attestations : Epoch(a.slot) = e}
           seen(b) == UNION {Attested(a) : a \in of(b)}
           All == UNION {Members(s) : s \in EpochSlots(e)}
           B == {s \in Slots : HasBlock(s)}
<1>6. AttMisses(e) = All \ UNION {seen(b) : b \in B}
  BY <1>4, Zenon DEF AttMisses
<1>7. \A b \in Slots : \A v : v \in seen(b) <=> \E a \in of(b) : v \in a.voters
  BY <1>5
<1> HIDE DEF seen, All
<1>8. \A v : v \in UNION {seen(b) : b \in B}
              <=> \E b \in Slots : HasBlock(b) /\ \E a \in of(b) : v \in a.voters
  BY <1>7
<1>9. AttMisses(e) =
        {v \in All : \A b \in Slots :
           HasBlock(b) => \A a \in chain[b + 1].attestations : Epoch(a.slot) = e => v \notin a.voters}
<2>1. \A v : v \notin UNION {seen(b) : b \in B}
              <=> \A b \in Slots : HasBlock(b) => \A a \in chain[b + 1].attestations :
                                                    Epoch(a.slot) = e => v \notin a.voters
  BY <1>8
<2> HIDE DEF of, B
<2> QED
  BY <1>6, <2>1
<1> QED
  BY <1>3, <1>9 DEF All, Slots


\* There is a last block up to every slot so far.
LEMMA LastBlockExists ==
  ASSUME CheckpointInv, NEW s \in 0 .. stateSlot - 1
  PROVE  LastBlock(s) \in 0 .. s /\ IsLastBlock(LastBlock(s), s)
<1> DEFINE B == {b \in 0 .. s : HasBlock(b)}
<1>1. s \in Nat /\ 0 \in B
<2>1. stateSlot \in Nat /\ (stateSlot > 0 => There(chain, 0))
  BY DEF CheckpointInv, ChainTyped
<2>2. s \in Nat /\ There(chain, 0)
  BY <2>1
<2> QED
  BY <2>2, HasBlockIsThere
<1>2. Max(B) \in B /\ \A b \in B : b <= Max(B)
<2>1. B \in SUBSET (0 .. s) /\ B # {}
  BY <1>1
<2> HIDE DEF B
<2> QED
  BY <1>1, <2>1, MaxUpTo
<1> DEFINE b == Max(B)
<1>3. b \in 0 .. s /\ HasBlock(b)
  BY <1>2
<1>4. ASSUME NEW q \in b + 1 .. s PROVE ~HasBlock(q)
<2>1. q \in 0 .. s /\ ~(q <= b)
<3> HIDE DEF b
<3> QED
  BY <1>1, <1>3
<2> QED
  BY <1>2, <2>1
<1> HIDE DEF b
<1>5. b <= s
  BY <1>3
<1>6. \E x \in 0 .. s : IsLastBlock(x, s)
  BY <1>3, <1>4, <1>5 DEF IsLastBlock
<1> QED
  BY <1>6, Zenon DEF LastBlock

\* The root on which the proposer duties depend is of the last block before the epoch.
LEMMA DependentRootIsLast == CheckpointInv => DependentRootIsLastBlock
<1> SUFFICES ASSUME CheckpointInv, NEW e \in DutyEpochs
             PROVE  IsLastBlock(DependentRoot(e), FirstSlot(e) - 1)
  BY DEF DependentRootIsLastBlock
<1> DEFINE n == stateSlot
           R == RingSize
           t == FirstSlot(e) - 1
           inRing == {s \in n - R .. t : InRange(s) /\ SelectBlockRoot(s) # None}
<1>1. /\ n \in Nat /\ R \in Nat \ {0} /\ t \in Nat /\ t < n /\ n - R - 1 <= t
      /\ DependentSlot(e) = t
  BY SlotsOfDuties, RingConstants DEF CheckpointInv, ChainTyped, DependentSlot
<1>2. DependentRoot(e) = IF inRing # {} THEN SelectBlockRoot(Max(inRing)) ELSE LastBlock(Min({t, n - R - 1}))
  BY <1>1, Zenon DEF DependentRoot
<1> HIDE DEF t
<1>3. ASSUME NEW s \in n - R .. t
      PROVE  s \in Int /\ (s \in inRing <=> s >= 0 /\ HasBlock(s)) /\ (s \in inRing => SelectBlockRoot(s) = s)
<2>1. s \in Int /\ s <= t /\ s < n /\ n <= s + R
  BY <1>1
<2>2. s \in inRing <=> SelectBlockRoot(s) # None
  BY <2>1 DEF InRange
<2>3. CASE s < 0
  BY <2>1, <2>2, <2>3, NothingBeforeGenesis
<2>4. CASE s >= 0
<3>1. s \in 0 .. n - 1
  BY <1>1, <2>1, <2>4
<3>2. SelectBlockRoot(s) = IF HasBlock(s) THEN s ELSE None
  BY <2>1, <3>1, SelectedRoot
<3> HIDE DEF inRing
<3> QED
  BY <2>1, <2>2, <2>4, <3>2, NoRootInZero
<2> QED
  BY <2>1, <2>3, <2>4
<1>4. inRing \subseteq 0 .. t /\ inRing \subseteq n - R .. t
<2>1. ASSUME NEW s \in inRing PROVE s \in 0 .. t /\ s \in n - R .. t
<3>1. s \in n - R .. t
  OBVIOUS
<3> HIDE DEF inRing
<3>2. s \in Int /\ s >= 0 /\ s <= t
  BY <1>1, <1>3, <2>1, <3>1
<3> QED
  BY <1>1, <3>1, <3>2
<2> QED
  BY <2>1
<1> HIDE DEF inRing
<1>5. CASE inRing # {}
<2> DEFINE m == Max(inRing)
<2>1. m \in inRing /\ \A s \in inRing : s <= m
  BY <1>1, <1>4, <1>5, MaxUpTo
<2> HIDE DEF m
<2>2. m \in n - R .. t /\ m \in 0 .. t
  BY <1>4, <2>1
<2>3. DependentRoot(e) = m /\ HasBlock(m)
  BY <1>2, <1>3, <1>5, <2>1, <2>2 DEF m
<2>4. ASSUME NEW q \in m + 1 .. t PROVE ~HasBlock(q)
<3>1. q \in n - R .. t /\ q >= 0 /\ ~(q <= m)
  BY <1>1, <2>2
<3> QED
  BY <1>3, <2>1, <3>1
<2>5. m <= t
  BY <2>2
<2> QED
  BY <2>3, <2>4, <2>5 DEF IsLastBlock, t
<1>6. CASE inRing = {}
<2> DEFINE u == n - R - 1
<2>1. u \in Int /\ Min({t, u}) = u
<3>1. u \in Int /\ t \in Int /\ u <= t
  BY <1>1
<3> HIDE DEF u
<3>2. Min({t, u}) \in Int /\ Min({t, u}) <= u /\ (Min({t, u}) = t \/ Min({t, u}) = u)
  BY <3>1, MinOfTwo
<3> QED
  BY <3>1, <3>2
<2>2. u >= 0
<3> SUFFICES ASSUME u < 0 PROVE FALSE
  BY <2>1
<3>1. 0 \in n - R .. t
  BY <1>1
<3>2. HasBlock(0)
<4>1. n > 0
  BY <1>1
<4> QED
  BY <4>1, HasBlockIsThere DEF CheckpointInv, ChainTyped
<3> QED
  BY <1>3, <1>6, <3>1, <3>2
<2>3. u \in 0 .. n - 1
  BY <1>1, <2>1, <2>2
<2> DEFINE b == LastBlock(u)
<2>4. b \in 0 .. u /\ IsLastBlock(b, u)
  BY <2>3, LastBlockExists
<2>5. DependentRoot(e) = b
  BY <1>2, <1>6, <2>1
<2> HIDE DEF b
<2>6. ASSUME NEW q \in b + 1 .. t PROVE ~HasBlock(q)
<3>1. q \in Int /\ q >= 0 /\ (q \in b + 1 .. u \/ q \in n - R .. t)
  BY <1>1, <2>4
<3> QED
  BY <1>3, <1>6, <2>4, <3>1 DEF IsLastBlock
<2>7. b <= t
  BY <1>1, <2>4
<2> QED
  BY <2>4, <2>5, <2>6, <2>7 DEF IsLastBlock, t
<1> QED
  BY <1>5, <1>6

\* The cache has nothing but the committees of the periods.
TrueCommittees(held) == held = [p \in DOMAIN held |-> Rotation[p]]

LEMMA CacheIsTrue ==
  ASSUME NEW held, TrueCommittees(held), NEW e
  PROVE  /\ TrueCommittees(GetSyncCommittee(held, e))
         /\ SyncCommitteeIsKnown(e) => Period(e) \in DOMAIN GetSyncCommittee(held, e)
<1> DEFINE kept == Evicted(held)
           new == [p \in {Period(e)} \cup DOMAIN kept |-> IF p = Period(e) THEN Rotation[p] ELSE kept[p]]
<1>1. TrueCommittees(kept) /\ DOMAIN kept \subseteq DOMAIN held
  BY DEF TrueCommittees, Evicted
<1>2. GetSyncCommittee(held, e) =
        IF Period(e) \in DOMAIN held \/ ~SyncCommitteeIsKnown(e) THEN held ELSE new
  BY Zenon DEF GetSyncCommittee
<1>3. TrueCommittees(new) /\ DOMAIN new = {Period(e)} \cup DOMAIN kept
<2> HIDE DEF kept
<2> QED
  BY <1>1 DEF TrueCommittees
<1> HIDE DEF new, kept
<1> QED
  BY <1>2, <1>3

LEMMA SyncDutiesMatch == CheckpointInv => SyncDutiesMatchTheChain
<1> SUFFICES ASSUME CheckpointInv, NEW e \in DutyEpochs, NEW d, NEW f, SyncCommitteeIsKnown(e)
             PROVE  SyncDuties(GetSyncCommittee(GetSyncCommittee(<<>>, d), f), e) =
                      [i \in DOMAIN Rotation[Period(e)] |->
                         [validator |-> Rotation[Period(e)][i],
                          missed |-> Cardinality({s \in EpochSlots(e) : HasBlock(s) /\ i \in chain[s + 1].unsigned})]]
  BY DEF SyncDutiesMatchTheChain
<1> DEFINE held == GetSyncCommittee(GetSyncCommittee(<<>>, d), f)
           committee == GetSyncCommittee(held, e)[Period(e)]
<1>1. committee = Rotation[Period(e)]
<2>1. TrueCommittees(<<>>)
  BY DEF TrueCommittees
<2>2. TrueCommittees(held)
  BY <2>1, CacheIsTrue
<2> HIDE DEF held
<2>3. /\ TrueCommittees(GetSyncCommittee(held, e))
      /\ Period(e) \in DOMAIN GetSyncCommittee(held, e)
  BY <2>2, CacheIsTrue
<2> QED
  BY <2>3 DEF TrueCommittees
<1>2. SyncBlocks(e) = {s \in EpochSlots(e) : HasBlock(s)}
<2>1. Proposed(e) = {s \in EpochSlots(e) : HasBlock(s)}
  BY DutiesMatch DEF DutiesMatchTheChain
<2>2. \A s \in Proposed(e) : SelectBlockRoot(s) = s
  BY <2>1, RootsOfDuties
<2> QED
  BY <2>1, <2>2 DEF SyncBlocks
<1>3. ASSUME NEW i
      PROVE  {b \in SyncBlocks(e) : i \in chain[b + 1].unsigned}
             = {s \in EpochSlots(e) : HasBlock(s) /\ i \in chain[s + 1].unsigned}
  BY <1>2
<1>4. SyncDuties(held, e) =
        [i \in DOMAIN committee |->
          [validator |-> committee[i],
           missed |-> Cardinality({b \in SyncBlocks(e) : i \in chain[b + 1].unsigned})]]
  BY Zenon DEF SyncDuties
<1> HIDE DEF committee, held
<1>5. SyncDuties(held, e) =
        [i \in DOMAIN Rotation[Period(e)] |->
          [validator |-> Rotation[Period(e)][i],
           missed |-> Cardinality({s \in EpochSlots(e) : HasBlock(s) /\ i \in chain[s + 1].unsigned})]]
  BY <1>1, <1>3, <1>4
<1> QED
  BY <1>5 DEF held

\* checkpoint.py:175-243, 270-303, 336-436: what a checkpoint reads of its epochs through the ring of
\* block roots, namely proposals, attestations, sync duties and the dependent roots, is what
\* the chain has: for every length of epochs, ring and sync periods, any committees and validators,
\* whatever slots were missed and however attestations were aggregated.
THEOREM CheckpointsMatch == CheckpointSpec => []CheckpointMatchesTheChain
<1>1. CheckpointInv => CheckpointMatchesTheChain
  BY DutiesMatch, SyncDutiesMatch, DependentRootIsLast DEF CheckpointMatchesTheChain
<1> QED
  BY <1>1, CheckpointInvariant, PTL

-----------------------------------------------------------------------------
(* How many payloads a sweep takes *)

\* Division with the result rounded up.
LEMMA RoundedUp ==
  ASSUME NEW a \in Nat, NEW b \in Nat \ {0}
  PROVE  DivUp(a, b) \in Nat /\ a <= DivUp(a, b) * b /\ DivUp(a, b) * b < a + b
<1>1. PICK q \in Int : q = (a + b - 1) \div b
  OBVIOUS
<1>2. b * q <= a + b - 1 /\ a + b - 1 < b * q + b
  BY <1>1
<1>3. b * q = q * b /\ q * b \in Int
  OBVIOUS
<1>4. q >= 0
<2>1. ASSUME q < 0 PROVE FALSE
<3>1. q * b + b <= 0 * b
  BY <2>1, Multiples
<3> QED
  BY <1>2, <1>3, <3>1
<2> QED
  BY <2>1
<1> QED
  BY <1>1, <1>2, <1>3, <1>4 DEF DivUp

\* n payloads have room for r withdrawals of the sweep besides e partial ones.
Fits(r, e, n) == r + Min({n * PartialsPerPayload, e}) <= n * PerPayload

\* k is the least such number.
IsNeed(r, e, k) ==
  /\ k \in Nat /\ Fits(r, e, k)
  /\ \A n \in 0 .. k - 1 : ~Fits(r, e, n)

\* A payload takes t partial withdrawals and fills up with d of the sweep's.
LEMMA FitsStep ==
  ASSUME NEW r \in Nat \ {0}, NEW e \in Nat, NEW n \in Nat,
         NEW t \in Nat, t = Min({PartialsPerPayload, e}),
         NEW d \in Nat, d = Min({r, PerPayload - t})
  PROVE  Fits(r - d, e - t, n) <=> Fits(r, e, n + 1)
<1> DEFINE p == PartialsPerPayload
           s == PerPayload
           x == n * p
           y == n * s
<1>1. p \in Nat \ {0} /\ s \in Nat /\ p < s /\ s \in Nat \ {0}
  BY SweepAssumption
<1> HIDE DEF p, s
<1>2. x \in Nat /\ y \in Nat /\ (n + 1) * p = x + p /\ (n + 1) * s = y + s /\ x <= y
<2>1. n * (s - p) \in Nat /\ n * (s - p) = y - x
  BY <1>1
<2> QED
  BY <1>1, <2>1
<1> HIDE DEF x, y
<1>3. t <= p /\ t <= e /\ (t = p \/ t = e)
<2>1. p \in Int /\ e \in Int /\ t = Min({p, e})
  BY <1>1 DEF p
<2> QED
  BY <2>1, MinOfTwo, Zenon
<1>4. d <= r /\ d <= s - t /\ (d = r \/ d = s - t)
<2>1. r \in Int /\ s - t \in Int /\ d = Min({r, s - t})
  BY <1>1 DEF s
<2> QED
  BY <2>1, MinOfTwo, Zenon
<1>5. PICK f \in Int : f = Min({x, e - t}) /\ f <= x /\ f <= e - t /\ (f = x \/ f = e - t)
<2>1. x \in Int /\ e - t \in Int
  BY <1>2
<2> QED
  BY <2>1, MinOfTwo, Zenon
<1>6. PICK g \in Int : g = Min({x + p, e}) /\ g <= x + p /\ g <= e /\ (g = x + p \/ g = e)
<2>1. x + p \in Int /\ e \in Int
  BY <1>1, <1>2
<2> QED
  BY <2>1, MinOfTwo, Zenon
<1>7. Fits(r - d, e - t, n) <=> r - d + f <= y
  BY <1>5 DEF Fits, p, s, x, y
<1>8. Fits(r, e, n + 1) <=> r + g <= y + s
  BY <1>2, <1>6 DEF Fits, p, s
<1> QED
  BY <1>1, <1>2, <1>3, <1>4, <1>5, <1>6, <1>7, <1>8

\* So that one payload less is needed after it,
LEMMA NeedStep ==
  ASSUME NEW r \in Nat \ {0}, NEW e \in Nat, NEW k, IsNeed(r, e, k),
         NEW t \in Nat, t = Min({PartialsPerPayload, e}),
         NEW d \in Nat, d = Min({r, PerPayload - t})
  PROVE  IsNeed(r - d, e - t, k - 1)
<1>1. k \in Nat /\ Fits(r, e, k) /\ \A n \in 0 .. k - 1 : ~Fits(r, e, n)
  BY DEF IsNeed
<1>2. ~Fits(r, e, 0)
<2>1. /\ PartialsPerPayload \in Int /\ PerPayload \in Int
  BY SweepAssumption
<2>2. 0 * PartialsPerPayload = 0 /\ 0 * PerPayload = 0
  BY <2>1
<2>3. Min({0, e}) \in Int /\ (Min({0, e}) = 0 \/ Min({0, e}) = e)
<3>1. 0 \in Int /\ e \in Int
  OBVIOUS
<3> QED
  BY <3>1, MinOfTwo, Zenon
<2> QED
  BY <2>2, <2>3 DEF Fits
<1>3. k >= 1
  BY <1>1, <1>2
<1>4. k - 1 \in Nat /\ (k - 1) + 1 = k
  BY <1>1, <1>3
<1>0. \A n \in Nat : Fits(r - d, e - t, n) <=> Fits(r, e, n + 1)
  BY FitsStep, Zenon
<1>5. Fits(r - d, e - t, k - 1)
  BY <1>0, <1>1, <1>4
<1>6. ASSUME NEW n \in 0 .. (k - 1) - 1 PROVE ~Fits(r - d, e - t, n)
<2>1. n \in Nat /\ n + 1 \in 0 .. k - 1
  BY <1>1
<2> QED
  BY <1>0, <1>1, <2>1
<1> QED
  BY <1>4, <1>5, <1>6 DEF IsNeed

\* The closed form of the code: partial withdrawals in the ratio that a payload allows.
LEMMA NeedPredicted ==
  ASSUME NEW r \in Nat, NEW e \in Nat
  PROVE  IsNeed(r, e, DivUp(r + Min({e, DivUp(r * PartialsPerPayload,
                                               PerPayload - PartialsPerPayload)}), PerPayload))
<1> DEFINE p == PartialsPerPayload
           s == PerPayload
           q == s - p
           c == DivUp(r * p, q)
           m == Min({e, c})
           k == DivUp(r + m, s)
<1>1. p \in Nat \ {0} /\ s \in Nat \ {0} /\ q \in Nat \ {0} /\ s = q + p
  BY SweepAssumption
<1> HIDE DEF p, s, q
<1>2. c \in Nat /\ r * p <= c * q /\ c * q < r * p + q
<2>1. r * p \in Nat
  BY <1>1
<2> QED
  BY <1>1, <2>1, RoundedUp
<1> HIDE DEF c
<1>3. m \in Nat /\ m <= e /\ m <= c /\ (m = e \/ m = c)
<2>1. e \in Int /\ c \in Int
  BY <1>2
<2>2. m <= e /\ m <= c /\ (m = e \/ m = c)
  BY <2>1, MinOfTwo, Zenon
<2> QED
  BY <1>2, <2>2
<1> HIDE DEF m
<1>4. k \in Nat /\ r + m <= k * s /\ k * s < r + m + s
<2>1. r + m \in Nat
  BY <1>3
<2> QED
  BY <1>1, <2>1, RoundedUp
<1> HIDE DEF k
<1>5. Fits(r, e, k)
<2>1. PICK z \in Int : z = Min({k * p, e}) /\ z <= k * p /\ z <= e /\ (z = k * p \/ z = e)
<3>1. k * p \in Int /\ e \in Int
  BY <1>1, <1>4
<3> QED
  BY <3>1, MinOfTwo, Zenon
<2>2. Fits(r, e, k) <=> r + z <= k * s
  BY <2>1 DEF Fits, p, s
<2>3. CASE m = e
<3>1. PICK b \in Int : b = k * s
  BY <1>1, <1>4
<3> QED
  BY <1>4, <2>1, <2>2, <2>3, <3>1
<2>4. CASE m = c
<3>1. r <= k * q
<4>1. SUFFICES ASSUME k * q < r PROVE FALSE
  BY <1>1, <1>4
<4>2. PICK u \in Int : u = k * q
  BY <1>1, <1>4
<4>3. u * s + s <= r * s
  BY <1>1, <4>1, <4>2, Multiples
<4>4. (r + c) * q <= (k * s) * q
<5>1. k * s \in Int
  BY <1>1, <1>4
<5> QED
  BY <1>1, <1>2, <1>4, <2>4, <5>1, Multiples
<4>5. (k * s) * q = u * s /\ (r + c) * q = r * q + c * q /\ r * s = r * q + r * p
<5>1. (k * s) * q = (k * q) * s
  BY <1>1, <1>4
<5>2. (r + c) * q = r * q + c * q
  BY <1>1, <1>2
<5>3. r * s = r * q + r * p
  BY <1>1
<5> QED
  BY <4>2, <5>1, <5>2, <5>3
<4>6. PICK a1 \in Int, a2 \in Int, a3 \in Int, a4 \in Int :
        a1 = u * s /\ a2 = r * q /\ a3 = c * q /\ a4 = r * p
  BY <1>1, <1>2, <4>2
<4> QED
  BY <1>1, <1>2, <4>3, <4>4, <4>5, <4>6
<3>2. k * s = k * q + k * p
  BY <1>1, <1>4
<3>3. PICK b1 \in Int, b2 \in Int : b1 = k * q /\ b2 = k * p
  BY <1>1, <1>4
<3> QED
  BY <2>1, <2>2, <3>1, <3>2, <3>3
<2> QED
  BY <1>3, <2>3, <2>4
<1>6. ASSUME NEW n \in 0 .. k - 1, Fits(r, e, n) PROVE FALSE
<2>1. n \in Int /\ n < k
  BY <1>4
<2>2. PICK x \in Int, y \in Int, w \in Int : x = n * p /\ y = n * q /\ w = n * s
  BY <1>1, <2>1
<2>3. w = y + x
  BY <1>1, <2>1, <2>2
<2>4. w < r + m
<3>1. n * s + s <= k * s
  BY <1>1, <1>4, <2>1, Multiples
<3>2. PICK b \in Int : b = k * s
  BY <1>1, <1>4
<3> QED
  BY <1>1, <1>3, <1>4, <2>2, <3>1, <3>2
<2>5. PICK z \in Int : z = Min({x, e}) /\ z <= x /\ z <= e /\ (z = x \/ z = e)
<3>1. x \in Int /\ e \in Int
  OBVIOUS
<3>2. /\ Min({x, e}) \in Int /\ Min({x, e}) <= x /\ Min({x, e}) <= e
      /\ (Min({x, e}) = x \/ Min({x, e}) = e)
  BY <3>1, MinOfTwo, Zenon
<3> QED
  BY <3>2
<2>6. r + z <= w
  BY <1>6, <2>2, <2>5 DEF Fits, p, s
<2>7. z = x /\ r <= y
  BY <1>3, <2>3, <2>4, <2>5, <2>6
<2>8. c <= x
<3>1. SUFFICES ASSUME x < c PROVE FALSE
  BY <1>2
<3>2. x * q + q <= c * q
  BY <1>1, <1>2, <3>1, Multiples
<3>3. r * p <= y * p
  BY <1>1, <2>7, Multiples
<3>4. y * p = x * q
  BY <1>1, <2>1, <2>2
<3>5. PICK b1 \in Int, b2 \in Int, b3 \in Int : b1 = x * q /\ b2 = c * q /\ b3 = r * p
  BY <1>1, <1>2
<3> QED
  BY <1>1, <1>2, <3>2, <3>3, <3>4, <3>5
<2> QED
  BY <1>2, <1>3, <2>2, <2>3, <2>4, <2>7, <2>8
<1>7. IsNeed(r, e, k)
  BY <1>4, <1>5, <1>6 DEF IsNeed
<1> QED
  BY <1>7 DEF k, m, c, q, p, s

-----------------------------------------------------------------------------
(* What pending partial withdrawals take *)

Request == [validator : DOMAIN set, amount : Nat]

SweepTypes ==
  /\ IsFiniteSet(DOMAIN set)
  /\ \A i \in DOMAIN set :
       set[i] \in [executable : BOOLEAN, compounding : BOOLEAN, effective : Nat,
                   balance : Nat, exit : {"none", "leaving", "done"}]
  /\ balances \in [DOMAIN set -> Nat]
  /\ partials \in Seq(Request)
  /\ processed \in 0 .. Len(partials)

LEMMA MaxEffectiveFacts ==
  ASSUME NEW v PROVE MaxEffective(v) \in Nat /\ MinActivationBalance <= MaxEffective(v)
BY SweepAssumption DEF MaxEffective

\* A validator that can be asked has the amount taken, or what it has above the minimum.
LEMMA AmountFacts ==
  ASSUME NEW p \in Request, NEW held \in Int
  PROVE  LET able == /\ set[p.validator].exit = "none"
                     /\ set[p.validator].effective >= MinActivationBalance
             amount == PartialAmount(p, held)
         IN /\ amount \in Nat
            /\ amount > 0 => /\ able /\ held > MinActivationBalance
                             /\ amount <= p.amount /\ amount <= held - MinActivationBalance
                             /\ amount = p.amount \/ amount = held - MinActivationBalance
            /\ able /\ held > MinActivationBalance /\ p.amount > 0 => amount > 0
<1> DEFINE m == Min({held - MinActivationBalance, p.amount})
           able == set[p.validator].exit = "none" /\ set[p.validator].effective >= MinActivationBalance
           amount == PartialAmount(p, held)
<1>1. MinActivationBalance \in Nat /\ p.amount \in Nat /\ held - MinActivationBalance \in Int
  BY SweepAssumption DEF Request
<1>2. /\ m \in Int /\ m <= held - MinActivationBalance /\ m <= p.amount
      /\ (m = held - MinActivationBalance \/ m = p.amount)
<2>1. p.amount \in Int
  BY <1>1
<2> QED
  BY <1>1, <2>1, MinOfTwo, Zenon
<1>3. amount = IF able /\ held > MinActivationBalance THEN m ELSE 0
  BY DEF PartialAmount
<1> HIDE DEF m, able, amount
<1>4. PICK a \in Nat : a = p.amount
  BY <1>1
<1>5. CASE able /\ held > MinActivationBalance
<2>1. amount = m
  BY <1>3, <1>5
<2>2. /\ m \in Nat /\ m <= a /\ (m > 0 => m = a \/ m = held - MinActivationBalance)
      /\ (a > 0 => m > 0)
  BY <1>1, <1>2, <1>4, <1>5
<2>3. /\ amount \in Nat
      /\ amount > 0 => /\ able /\ held > MinActivationBalance
                       /\ amount <= p.amount /\ amount <= held - MinActivationBalance
                       /\ amount = p.amount \/ amount = held - MinActivationBalance
      /\ able /\ held > MinActivationBalance /\ p.amount > 0 => amount > 0
  BY <1>1, <1>2, <1>4, <1>5, <2>1, <2>2
<2> QED
  BY <2>3 DEF able, amount
<1>6. CASE ~(able /\ held > MinActivationBalance)
<2>1. amount = 0
  BY <1>3, <1>6
<2>2. /\ amount \in Nat
      /\ amount > 0 => /\ able /\ held > MinActivationBalance
                       /\ amount <= p.amount /\ amount <= held - MinActivationBalance
                       /\ amount = p.amount \/ amount = held - MinActivationBalance
      /\ able /\ held > MinActivationBalance /\ p.amount > 0 => amount > 0
  BY <1>6, <2>1
<2> QED
  BY <2>2 DEF able, amount
<1> QED
  BY <1>5, <1>6

\* Where it has enough for all, what others took before makes no difference.
LEMMA AmountStays ==
  ASSUME NEW p \in Request, NEW held \in Nat, NEW before \in Nat,
         PartialAmount(p, held) > 0 =>
           before + PartialAmount(p, held) <= held - MinActivationBalance
  PROVE  PartialAmount(p, held - before) = PartialAmount(p, held)
<1> DEFINE a == PartialAmount(p, held)
           b == PartialAmount(p, held - before)
           able == set[p.validator].exit = "none" /\ set[p.validator].effective >= MinActivationBalance
<1>1. PICK q \in Nat : q = p.amount
  BY DEF Request
<1>2. MinActivationBalance \in Nat
  BY SweepAssumption
<1>3. /\ a \in Nat /\ (a > 0 => /\ able /\ held > MinActivationBalance
                                /\ a <= q /\ a <= held - MinActivationBalance
                                /\ a = q \/ a = held - MinActivationBalance)
      /\ (able /\ held > MinActivationBalance /\ q > 0 => a > 0)
<2>1. held \in Int
  OBVIOUS
<2> QED
  BY <1>1, <2>1, AmountFacts
<1>4. /\ b \in Nat /\ (b > 0 => /\ able /\ held - before > MinActivationBalance
                                /\ b <= q /\ b <= (held - before) - MinActivationBalance
                                /\ b = q \/ b = (held - before) - MinActivationBalance)
      /\ (able /\ held - before > MinActivationBalance /\ q > 0 => b > 0)
<2>1. held - before \in Int
  OBVIOUS
<2> QED
  BY <1>1, <2>1, AmountFacts
<1>5. a > 0 => before + a <= held - MinActivationBalance
  OBVIOUS
<1> HIDE DEF a, b, able
<1>6. a = b
  BY <1>2, <1>3, <1>4, <1>5
<1> QED
  BY <1>6 DEF a, b

\* Nor that the sweep came first and left enough.
LEMMA AmountAfterSweep ==
  ASSUME NEW p \in Request, NEW held \in Nat, NEW most \in Nat,
         MinActivationBalance <= most, most < held,
         PartialAmount(p, held) > 0 => PartialAmount(p, held) <= most - MinActivationBalance
  PROVE  PartialAmount(p, most) = PartialAmount(p, held)
<1> DEFINE a == PartialAmount(p, held)
           b == PartialAmount(p, most)
           able == set[p.validator].exit = "none" /\ set[p.validator].effective >= MinActivationBalance
<1>1. PICK q \in Nat : q = p.amount
  BY DEF Request
<1>2. MinActivationBalance \in Nat
  BY SweepAssumption
<1>3. /\ a \in Nat /\ (a > 0 => /\ able /\ held > MinActivationBalance
                                /\ a <= q /\ a <= held - MinActivationBalance
                                /\ a = q \/ a = held - MinActivationBalance)
      /\ (able /\ held > MinActivationBalance /\ q > 0 => a > 0)
<2>1. held \in Int
  OBVIOUS
<2> QED
  BY <1>1, <2>1, AmountFacts
<1>4. /\ b \in Nat /\ (b > 0 => /\ able /\ most > MinActivationBalance
                                /\ b <= q /\ b <= most - MinActivationBalance
                                /\ b = q \/ b = most - MinActivationBalance)
      /\ (able /\ most > MinActivationBalance /\ q > 0 => b > 0)
<2>1. most \in Int
  OBVIOUS
<2> QED
  BY <1>1, <2>1, AmountFacts
<1>5. a > 0 => a <= most - MinActivationBalance
  OBVIOUS
<1> HIDE DEF a, b, able
<1>6. a = b
  BY <1>2, <1>3, <1>4, <1>5
<1> QED
  BY <1>6 DEF a, b

-----------------------------------------------------------------------------
(* Sums over places of the queue *)

\* A set of numbers and the rest.
LEMMA SumRest ==
  ASSUME NEW S, IsFiniteSet(S), NEW T \in SUBSET S, NEW f, \A x \in S : f[x] \in Nat
  PROVE  /\ SumFunctionOnSet(f, S) = SumFunctionOnSet(f, T) + SumFunctionOnSet(f, S \ T)
         /\ SumFunctionOnSet(f, S) \in Nat /\ SumFunctionOnSet(f, T) \in Nat
         /\ SumFunctionOnSet(f, S \ T) \in Nat
<1>1. IsFiniteSet(T) /\ IsFiniteSet(S \ T)
  BY FS_Subset, FS_Difference
<1>2. /\ \A x \in T : f[x] \in Nat /\ f[x] \in Int
      /\ \A x \in S \ T : f[x] \in Nat /\ f[x] \in Int
  OBVIOUS
<1>3. /\ SumFunctionOnSet(f, S) \in Nat /\ SumFunctionOnSet(f, T) \in Nat
      /\ SumFunctionOnSet(f, S \ T) \in Nat
  BY <1>1, <1>2, SumFacts
<1>4. SumFunctionOnSet(f, T) + SumFunctionOnSet(f, S \ T) = SumFunctionOnSet(f, S)
<2>1. /\ S \ T \in SUBSET S /\ T \cap (S \ T) = {}
      /\ \A x \in S : f[x] = IF x \in T THEN f[x] ELSE IF x \in S \ T THEN f[x] ELSE 0
  OBVIOUS
<2> QED
  BY <1>2, <2>1, SumOfParts
<1> QED
  BY <1>3, <1>4

\* What the request at a place takes from validator i.
Asks(i) == [j \in DOMAIN partials |-> IF partials[j].validator = i THEN Amounts[j] ELSE 0]

\* What the requests at places a to b take from validator i.
Takes(i, a, b) == SumFunctionOnSet(Asks(i), a .. b)

\* The places of the requests with an effect.
Effective(a, b) == {j \in a .. b : Amounts[j] > 0}

LEMMA PlacesTyped ==
  ASSUME SweepTypes
  PROVE  /\ Len(partials) \in Nat /\ DOMAIN partials = 1 .. Len(partials)
         /\ \A j \in 1 .. Len(partials) :
              /\ partials[j] \in Request /\ partials[j].validator \in DOMAIN set
              /\ balances[partials[j].validator] \in Nat
              /\ Amounts[j] = PartialAmount(partials[j], balances[partials[j].validator])
              /\ Amounts[j] \in Nat
              /\ \A i : Asks(i)[j] = (IF partials[j].validator = i THEN Amounts[j] ELSE 0)
                        /\ Asks(i)[j] \in Nat
<1>1. partials \in Seq(Request) /\ balances \in [DOMAIN set -> Nat]
  BY DEF SweepTypes
<1>2. Len(partials) \in Nat /\ DOMAIN partials = 1 .. Len(partials)
  BY <1>1
<1>3. ASSUME NEW j \in 1 .. Len(partials)
      PROVE  /\ partials[j] \in Request /\ partials[j].validator \in DOMAIN set
             /\ balances[partials[j].validator] \in Nat
<2>1. partials[j] \in Request
  BY <1>1, <1>2
<2>2. partials[j].validator \in DOMAIN set
  BY <2>1 DEF Request
<2> QED
  BY <1>1, <2>1, <2>2
<1>4. ASSUME NEW j \in 1 .. Len(partials)
      PROVE  /\ Amounts[j] = PartialAmount(partials[j], balances[partials[j].validator])
             /\ Amounts[j] \in Nat
<2>1. Amounts[j] = PartialAmount(partials[j], balances[partials[j].validator])
  BY <1>2 DEF Amounts
<2>2. balances[partials[j].validator] \in Int
  BY <1>3
<2>3. PartialAmount(partials[j], balances[partials[j].validator]) \in Nat
  BY <1>3, <2>2, AmountFacts
<2> QED
  BY <2>1, <2>3
<1>5. ASSUME NEW j \in 1 .. Len(partials), NEW i
      PROVE  Asks(i)[j] = IF partials[j].validator = i THEN Amounts[j] ELSE 0
  BY <1>2 DEF Asks
<1> QED
  BY <1>2, <1>3, <1>4, <1>5

LEMMA TakesFacts ==
  ASSUME SweepTypes, NEW i, NEW a \in 1 .. Len(partials) + 1, NEW b \in a - 1 .. Len(partials)
  PROVE  /\ Takes(i, a, b) \in Nat
         /\ \A j \in a .. b : Asks(i)[j] <= Takes(i, a, b)
         /\ b < a => Takes(i, a, b) = 0
         /\ b >= a => Takes(i, a, b) = Takes(i, a, b - 1) + Asks(i)[b]
<1>1. Len(partials) \in Nat /\ \A j \in 1 .. Len(partials) : Asks(i)[j] \in Nat
  BY PlacesTyped
<1>2. a \in Int /\ b \in Int /\ IsFiniteSet(a .. b) /\ \A j \in a .. b : j \in 1 .. Len(partials)
<2>1. a \in Int /\ b \in Int /\ \A j \in a .. b : j \in 1 .. Len(partials)
  BY <1>1
<2> QED
  BY <2>1, FS_Interval
<1>3. \A j \in a .. b : Asks(i)[j] \in Nat
  BY <1>1, <1>2
<1>4. Takes(i, a, b) \in Nat /\ \A j \in a .. b : Asks(i)[j] <= Takes(i, a, b)
  BY <1>2, <1>3, SumOfNats DEF Takes
<1>5. ASSUME b < a PROVE Takes(i, a, b) = 0
<2>1. a .. b = {}
  BY <1>2, <1>5
<2>2. IsFiniteSet({}) /\ \A j \in {} : Asks(i)[j] \in Nat
  BY FS_EmptySet
<2>3. SumFunctionOnSet(Asks(i), {}) = 0
  BY <2>2, SumFacts
<2> QED
  BY <2>1, <2>3 DEF Takes
<1>6. ASSUME b >= a PROVE Takes(i, a, b) = Takes(i, a, b - 1) + Asks(i)[b]
<2>1. b \in a .. b /\ (a .. b) \ {b} = a .. b - 1
  BY <1>2, <1>6
<2>2. SumFunctionOnSet(Asks(i), a .. b) = Asks(i)[b] + SumFunctionOnSet(Asks(i), (a .. b) \ {b})
  BY <1>2, <1>3, <2>1, SumFacts
<2>3. \A j \in a .. b - 1 : Asks(i)[j] \in Nat
  BY <1>1, <1>2
<2>4. SumFunctionOnSet(Asks(i), a .. b - 1) \in Nat
<3>1. b - 1 \in Int
  BY <1>2
<3>2. IsFiniteSet(a .. b - 1)
  BY <1>2, <3>1, FS_Interval
<3> QED
  BY <2>3, <3>2, SumOfNats, Zenon
<2>5. Asks(i)[b] \in Nat
  BY <1>3, <2>1
<2>6. PICK x \in Int, y \in Int : x = Asks(i)[b] /\ y = SumFunctionOnSet(Asks(i), a .. b - 1)
  BY <2>4, <2>5
<2>7. SumFunctionOnSet(Asks(i), a .. b) = Asks(i)[b] + SumFunctionOnSet(Asks(i), a .. b - 1)
  BY <2>1, <2>2, Zenon
<2>8. Takes(i, a, b) = x + y
  BY <2>6, <2>7, Zenon DEF Takes
<2>9. x + y = y + x
  OBVIOUS
<2> QED
  BY <2>6, <2>8, <2>9, Zenon DEF Takes
<1> QED
  BY <1>4, <1>5, <1>6

\* The requests taken first and the others.
LEMMA TakesSplit ==
  ASSUME SweepTypes, NEW i, NEW a \in 1 .. Len(partials) + 1, NEW d \in a - 1 .. Len(partials)
  PROVE  Takes(i, a, Len(partials)) = Takes(i, a, d) + Takes(i, d + 1, Len(partials))
<1> DEFINE N == Len(partials)
           S == a .. N
           f == Asks(i)
<1>1. N \in Nat /\ \A j \in 1 .. N : f[j] \in Nat
  BY PlacesTyped
<1>2. a \in Int /\ d \in Int /\ IsFiniteSet(S) /\ \A j \in S : j \in 1 .. N
  BY <1>1, FS_Interval
<1>3. (a .. d) \in SUBSET S /\ S \ (a .. d) = d + 1 .. N
  BY <1>1, <1>2
<1> HIDE DEF f, S
<1>4. \A j \in S : f[j] \in Nat
  BY <1>1, <1>2
<1>5. SumFunctionOnSet(f, S) = SumFunctionOnSet(f, a .. d) + SumFunctionOnSet(f, S \ (a .. d))
  BY <1>2, <1>3, <1>4, SumRest, Zenon
<1> QED
  BY <1>3, <1>5 DEF Takes, f, S

\* The code adds up the requests that have an effect.
LEMMA EffectiveIsTaken ==
  ASSUME SweepTypes, NEW i, NEW a \in 1 .. Len(partials) + 1
  PROVE  SumFunctionOnSet(Amounts, {j \in Effective(a, Len(partials)) : partials[j].validator = i})
           = Takes(i, a, Len(partials))
<1> DEFINE N == Len(partials)
           S == a .. N
           P == {j \in Effective(a, N) : partials[j].validator = i}
           f == Asks(i)
<1>1. N \in Nat /\ a \in 1 .. N + 1
      /\ \A j \in 1 .. N : Amounts[j] \in Nat /\ f[j] \in Nat
                           /\ f[j] = (IF partials[j].validator = i THEN Amounts[j] ELSE 0)
  BY PlacesTyped
<1>2. IsFiniteSet(S) /\ \A j \in S : j \in 1 .. N
  BY <1>1, FS_Interval
<1>3. P \in SUBSET S /\ \A j \in S : j \in P <=> Amounts[j] > 0 /\ partials[j].validator = i
  BY DEF Effective
<1> HIDE DEF P, S, f
<1>4. \A j \in S : f[j] \in Nat
  BY <1>1, <1>2
<1>5. /\ SumFunctionOnSet(f, S) = SumFunctionOnSet(f, P) + SumFunctionOnSet(f, S \ P)
      /\ SumFunctionOnSet(f, P) \in Nat /\ SumFunctionOnSet(f, S \ P) \in Nat
  BY <1>2, <1>3, <1>4, SumRest, Zenon
<1>6. SumFunctionOnSet(f, S \ P) = 0
<2>1. \A j \in S \ P : f[j] = 0
  BY <1>1, <1>2, <1>3
<2>2. IsFiniteSet(S \ P) /\ \A j \in S \ P : f[j] \in Nat
<3>1. (S \ P) \in SUBSET S
  OBVIOUS
<3>2. IsFiniteSet(S \ P)
  BY <1>2, <3>1, FS_Subset
<3> QED
  BY <2>1, <3>2
<2>3. SumFunctionOnSet(f, S \ P) # 0 => \E j \in S \ P : f[j] # 0
  BY <2>2, SumOfNats, Zenon
<2> QED
  BY <2>1, <2>3
<1>7. SumFunctionOnSet(Amounts, P) = SumFunctionOnSet(f, P)
<2>1. IsFiniteSet(P)
  BY <1>2, <1>3, FS_Subset
<2>2. \A j \in P : f[j] \in Int /\ Amounts[j] = f[j]
  BY <1>1, <1>2, <1>3
<2> QED
  BY <2>1, <2>2, SumSame, Zenon
<1>8. SumFunctionOnSet(Amounts, P) = SumFunctionOnSet(f, S)
  BY <1>5, <1>6, <1>7
<1> QED
  BY <1>8 DEF Takes, P, S, f

\* The prediction's sum is what all the requests that are left take.
LEMMA WithdrawnIsTaken ==
  ASSUME SweepTypes, NEW i
  PROVE  PartiallyWithdrawn(i) = Takes(i, processed + 1, Len(partials))
<1>1. processed + 1 \in 1 .. Len(partials) + 1
  BY PlacesTyped DEF SweepTypes
<1>2. PendingPartialWithdrawals = Effective(processed + 1, Len(partials))
  BY DEF PendingPartialWithdrawals, Effective
<1> QED
  BY <1>1, <1>2, EffectiveIsTaken DEF PartiallyWithdrawn

-----------------------------------------------------------------------------
(* Enough for the partial withdrawals and for the sweep *)

LEMMA SweepableBefore ==
  ASSUME NEW v, NEW less \in Int, NEW held \in Int, less <= held, Sweepable(v, less)
  PROVE  Sweepable(v, held)
<1>1. MaxEffective(v) \in Nat
  BY MaxEffectiveFacts
<1> QED
  BY <1>1 DEF Sweepable, FullyWithdrawable, PartiallyWithdrawable

\* What requests take is part of what is predicted.
LEMMA TakesBounded ==
  ASSUME SweepTypes, NEW i \in DOMAIN set, NEW d \in processed .. Len(partials)
  PROVE  /\ Takes(i, processed + 1, d) \in Nat /\ balances[i] \in Nat
         /\ PartiallyWithdrawn(i) \in Nat
         /\ Takes(i, processed + 1, d) <= PartiallyWithdrawn(i)
         /\ \A j \in d + 1 .. Len(partials) :
              partials[j].validator = i =>
                Takes(i, processed + 1, d) + Amounts[j] <= PartiallyWithdrawn(i)
<1> DEFINE N == Len(partials)
           p == processed + 1
<1>1. N \in Nat /\ processed \in 0 .. N /\ d \in processed .. N /\ balances[i] \in Nat
  BY PlacesTyped DEF SweepTypes
<1>2. p \in 1 .. N + 1 /\ d \in p - 1 .. N /\ N \in p - 1 .. N /\ d + 1 \in 1 .. N + 1 /\ N \in (d + 1) - 1 .. N
  BY <1>1
<1> HIDE DEF p
<1>3. Takes(i, p, d) \in Nat /\ Takes(i, p, N) \in Nat
  BY <1>2, TakesFacts, Zenon
<1>4. Takes(i, d + 1, N) \in Nat /\ \A j \in d + 1 .. N : Asks(i)[j] <= Takes(i, d + 1, N)
  BY <1>2, TakesFacts, Zenon
<1>5. Takes(i, p, N) = Takes(i, p, d) + Takes(i, d + 1, N)
  BY <1>2, TakesSplit, Zenon
<1>6. PartiallyWithdrawn(i) = Takes(i, p, N)
  BY WithdrawnIsTaken DEF p
<1>7. ASSUME NEW j \in d + 1 .. N, partials[j].validator = i
      PROVE  Takes(i, p, d) + Amounts[j] <= PartiallyWithdrawn(i)
<2>1. j \in 1 .. N
  BY <1>1
<2>2. Asks(i)[j] = Amounts[j] /\ Amounts[j] \in Nat
  BY <1>7, <2>1, PlacesTyped
<2>3. Amounts[j] <= Takes(i, d + 1, N)
  BY <1>4, <2>2
<2>4. PICK a \in Nat, b \in Nat, c \in Nat :
        a = Takes(i, p, d) /\ b = Amounts[j] /\ c = Takes(i, d + 1, N)
  BY <1>3, <1>4, <2>2
<2>5. PartiallyWithdrawn(i) = a + c
  BY <1>5, <1>6, <2>4, Zenon
<2>6. b <= c
  BY <2>3, <2>4, Zenon
<2>7. a + b <= a + c
  BY <2>6
<2> QED
  BY <2>4, <2>5, <2>7, Zenon
<1>8. Takes(i, p, d) <= PartiallyWithdrawn(i)
  BY <1>3, <1>4, <1>5, <1>6
<1> QED
  BY <1>1, <1>3, <1>6, <1>7, <1>8 DEF p

\* A request takes what the prediction says, whichever requests came before it.
LEMMA EnoughForAll ==
  ASSUME SweepTypes, Uncontested, NEW d \in processed .. Len(partials),
         NEW j \in d + 1 .. Len(partials)
  PROVE  LET i == partials[j].validator
         IN PartialAmount(partials[j], balances[i] - Takes(i, processed + 1, d)) = Amounts[j]
<1> DEFINE i == partials[j].validator
           t == Takes(i, processed + 1, d)
<1>1. Len(partials) \in Nat /\ j \in 1 .. Len(partials)
  BY PlacesTyped DEF SweepTypes
<1>2. /\ partials[j] \in Request /\ i \in DOMAIN set /\ balances[i] \in Nat
      /\ Amounts[j] = PartialAmount(partials[j], balances[i]) /\ Amounts[j] \in Nat
  BY <1>1, PlacesTyped
<1> HIDE DEF i
<1>3. /\ t \in Nat /\ PartiallyWithdrawn(i) \in Nat /\ t + Amounts[j] <= PartiallyWithdrawn(i)
  BY <1>2, TakesBounded DEF i
<1> HIDE DEF t
<1>4. MinActivationBalance \in Nat
  BY SweepAssumption
<1>5. ASSUME Amounts[j] > 0 PROVE t + Amounts[j] <= balances[i] - MinActivationBalance
<2>1. PartiallyWithdrawn(i) > 0
  BY <1>2, <1>3, <1>5
<2>2. PartiallyWithdrawn(i) <= balances[i] - MinActivationBalance
  BY <1>2, <2>1 DEF Uncontested
<2>3. PICK b \in Nat, w \in Nat, a \in Nat : b = balances[i] /\ w = PartiallyWithdrawn(i) /\ a = Amounts[j]
  BY <1>2, <1>3
<2>4. t + a <= w /\ w <= b - MinActivationBalance
  BY <1>3, <2>2, <2>3, Zenon
<2>5. t + a <= b - MinActivationBalance
  BY <1>3, <1>4, <2>4
<2> QED
  BY <2>3, <2>5, Zenon
<1>6. PartialAmount(partials[j], balances[i] - t) = PartialAmount(partials[j], balances[i])
  BY <1>2, <1>3, <1>5, AmountStays
<1> QED
  BY <1>2, <1>6 DEF t, i

\* And what it says if the sweep came before.
LEMMA EnoughAfterSweep ==
  ASSUME SweepTypes, Uncontested, NEW d \in processed .. Len(partials),
         NEW j \in d + 1 .. Len(partials),
         Sweepable(set[partials[j].validator], balances[partials[j].validator])
  PROVE  LET v == set[partials[j].validator]
         IN PartialAmount(partials[j], IF v.exit = "done" THEN 0 ELSE MaxEffective(v)) = Amounts[j]
<1> DEFINE i == partials[j].validator
           t == Takes(i, processed + 1, d)
           m == MaxEffective(set[i])
<1>1. Len(partials) \in Nat /\ j \in 1 .. Len(partials)
  BY PlacesTyped DEF SweepTypes
<1>2. /\ partials[j] \in Request /\ i \in DOMAIN set /\ balances[i] \in Nat
      /\ Amounts[j] = PartialAmount(partials[j], balances[i]) /\ Amounts[j] \in Nat
  BY <1>1, PlacesTyped
<1>3. MinActivationBalance \in Nat /\ m \in Nat /\ MinActivationBalance <= m
  BY SweepAssumption, MaxEffectiveFacts
<1>4. CASE set[i].exit = "done"
<2>1. /\ PartialAmount(partials[j], 0) = 0
      /\ PartialAmount(partials[j], balances[i]) = 0
  BY <1>4 DEF PartialAmount
<2> QED
  BY <1>2, <1>4, <2>1
<1>5. CASE set[i].exit # "done"
<2>1. balances[i] > m
  BY <1>5 DEF Sweepable, FullyWithdrawable, PartiallyWithdrawable
<2> HIDE DEF m
<2>2. /\ t \in Nat /\ PartiallyWithdrawn(i) \in Nat /\ t + Amounts[j] <= PartiallyWithdrawn(i)
  BY <1>2, TakesBounded
<2> HIDE DEF t
<2>3. ASSUME Amounts[j] > 0 PROVE Amounts[j] <= m - MinActivationBalance
<3>1. PartiallyWithdrawn(i) > 0
  BY <1>2, <2>2, <2>3
<3>2. PartiallyWithdrawn(i) <= m - MinActivationBalance
  BY <1>2, <3>1 DEF Uncontested, m
<3> QED
  BY <1>2, <1>3, <2>2, <3>2
<2>4. PartialAmount(partials[j], m) = PartialAmount(partials[j], balances[i])
<3> HIDE DEF i
<3> QED
  BY <1>2, <1>3, <2>1, <2>3, AmountAfterSweep
<2> QED
  BY <1>2, <1>5, <2>4 DEF m
<1> QED
  BY <1>4, <1>5

\* Nor do requests take away what the sweep comes for.
LEMMA SweptAnyway ==
  ASSUME SweepTypes, Uncontested, NEW d \in processed .. Len(partials), NEW i \in DOMAIN set
  PROVE  Sweepable(set[i], balances[i] - Takes(i, processed + 1, d)) <=> Sweepable(set[i], balances[i])
<1> DEFINE t == Takes(i, processed + 1, d)
           w == PartiallyWithdrawn(i)
<1>1. t \in Nat /\ balances[i] \in Nat /\ w \in Nat /\ t <= w
  BY TakesBounded
<1> HIDE DEF t, w
<1>2. balances[i] - t \in Int /\ balances[i] - t <= balances[i] /\ balances[i] \in Int
      /\ balances[i] - w \in Int /\ balances[i] - w <= balances[i] - t
<2>1. PICK b \in Nat : b = balances[i]
  BY <1>1
<2>2. b - t \in Int /\ b - t <= b /\ b \in Int /\ b - w \in Int /\ b - w <= b - t
  BY <1>1
<2> QED
  BY <2>1, <2>2, Zenon
<1>3. ASSUME Sweepable(set[i], balances[i] - t) PROVE Sweepable(set[i], balances[i])
  BY <1>2, <1>3, SweepableBefore
<1>4. ASSUME Sweepable(set[i], balances[i]) PROVE Sweepable(set[i], balances[i] - t)
<2>1. CASE w = 0
<3>1. t = 0 /\ balances[i] - t = balances[i]
  BY <1>1, <2>1
<3> QED
  BY <1>4, <3>1
<2>2. CASE w > 0
<3>1. i \in ValidatorsWithdrawals
  BY <1>4, <2>2 DEF Uncontested, w
<3>2. Sweepable(set[i], balances[i] - w)
  BY <3>1 DEF ValidatorsWithdrawals, w
<3> QED
  BY <1>2, <3>2, SweepableBefore
<2> QED
  BY <1>1, <2>1, <2>2
<1> QED
  BY <1>3, <1>4 DEF t

-----------------------------------------------------------------------------
(* The partial withdrawals of a payload *)

\* TakePartials as a recursion: where it begins, its step and its values.
Began == [balances |-> balances, count |-> 0, processed |-> processed]

TakeNext(s, j) ==
  LET i == partials[j].validator
      amount == PartialAmount(partials[j], s.balances[i])
  IN IF s.count = PartialsPerPayload THEN s
     ELSE [balances |-> [s.balances EXCEPT ![i] = @ - amount],
           count |-> s.count + (IF amount > 0 THEN 1 ELSE 0), processed |-> j]

AreTaken(f) ==
  f = [j \in 0 .. Len(partials) |-> IF j <= processed THEN Began ELSE TakeNext(f[j - 1], j)]

TakeState == [balances : [DOMAIN set -> Int], count : Nat, processed : Nat]

LEMMA TakeNextTyped ==
  ASSUME SweepTypes, NEW s \in TakeState, NEW j \in 1 .. Len(partials)
  PROVE  TakeNext(s, j) \in TakeState
<1> DEFINE i == partials[j].validator
           amount == PartialAmount(partials[j], s.balances[i])
           held == [s.balances EXCEPT ![i] = @ - amount]
           count == s.count + (IF amount > 0 THEN 1 ELSE 0)
<1>1. partials[j] \in Request /\ i \in DOMAIN set /\ Len(partials) \in Nat
  BY PlacesTyped
<1>2. s.balances \in [DOMAIN set -> Int] /\ s.count \in Nat
  BY DEF TakeState
<1>3. s.balances[i] \in Int
  BY <1>1, <1>2
<1>4. amount \in Nat
  BY <1>1, <1>3, AmountFacts
<1> HIDE DEF i, amount
<1>5. held \in [DOMAIN set -> Int] /\ count \in Nat
<2>1. PICK b \in [DOMAIN set -> Int] : b = s.balances
  BY <1>2
<2>2. PICK c \in Nat : c = s.count
  BY <1>2
<2>3. PICK x \in Int : x = b[i]
  BY <1>3, <2>1
<2>4. PICK y \in Int : y = x - amount
  BY <1>4
<2>6. [b EXCEPT ![i] = y] \in [DOMAIN set -> Int]
  BY <1>1
<2>7. held = [b EXCEPT ![i] = y]
  BY <2>1, <2>3, <2>4
<2>5. c + (IF amount > 0 THEN 1 ELSE 0) \in Nat
  BY <1>4
<2> QED
  BY <2>2, <2>5, <2>6, <2>7
<1> HIDE DEF held, count
<1>6. TakeNext(s, j) = IF s.count = PartialsPerPayload THEN s
                       ELSE [balances |-> held, count |-> count, processed |-> j]
  BY DEF TakeNext, held, count, amount, i
<1>7. j \in Nat
  BY <1>1
<1> QED
  BY <1>5, <1>6, <1>7 DEF TakeState

LEMMA TakenExist ==
  ASSUME SweepTypes
  PROVE  \E f \in [0 .. Len(partials) -> TakeState] : AreTaken(f)
<1> DEFINE N == Len(partials)
           D == 0 .. N
           X == TakeState
           m == [j \in D |-> j]
           G == [j \in D |-> [f \in [D -> X] |-> IF j <= processed THEN Began ELSE TakeNext(f[j - 1], j)]]
<1>1. N \in Nat /\ processed \in 0 .. N /\ m \in [D -> 0 .. N]
  BY PlacesTyped DEF SweepTypes
<1>2. Began \in X
<2>1. balances \in [DOMAIN set -> Int] /\ processed \in Nat
  BY <1>1 DEF SweepTypes
<2> QED
  BY <2>1 DEF Began, TakeState
<1>3. ASSUME NEW j \in D, ~(j <= processed)
      PROVE  j \in 1 .. N /\ j - 1 \in D /\ m[j - 1] < m[j]
  BY <1>1, <1>3
<1>4. G \in [D -> [[D -> X] -> X]]
<2>1. ASSUME NEW j \in D, NEW f \in [D -> X]
      PROVE  (IF j <= processed THEN Began ELSE TakeNext(f[j - 1], j)) \in X
<3>1. CASE j <= processed
  BY <1>2, <3>1
<3>2. CASE ~(j <= processed)
<4>1. j \in 1 .. N /\ f[j - 1] \in X
  BY <1>3, <3>2
<4>2. TakeNext(f[j - 1], j) \in X
  BY <4>1, TakeNextTyped
<4> QED
  BY <3>2, <4>2
<3> QED
  BY <3>1, <3>2
<2> HIDE DEF D, X
<2> QED
  BY <2>1
<1>5. ASSUME NEW j \in D, NEW f \in [D -> X], NEW g \in [D -> X],
             \A e \in D : m[e] < m[j] => f[e] = g[e]
      PROVE  G[j][f] = G[j][g]
<2>1. ~(j <= processed) => f[j - 1] = g[j - 1]
<3> HIDE DEF D, m
<3> QED
  BY <1>3, <1>5
<2> HIDE DEF D, X, m
<2> QED
  BY <2>1
<1> HIDE DEF D, m, X
<1>6. LooksBelow(D, X, m, G)
<2> HIDE DEF G
<2> QED
  BY <1>5 DEF LooksBelow
<1>7. PICK f : Solves(f, D, X, G)
<2>1. WellFounded(D, X, N, m, G)
<3> HIDE DEF G, N
<3>1. X # {}
  BY <1>2
<3> QED
  BY <1>1, <1>4, <1>6, <3>1, Zenon DEF WellFounded
<2> HIDE DEF G
<2> QED
  BY <2>1, Recursion
<1>8. AreTaken(f)
<2>1. \A j \in D : G[j][f] = IF j <= processed THEN Began ELSE TakeNext(f[j - 1], j)
  BY <1>7 DEF Solves
<2>2. f = [j \in D |-> IF j <= processed THEN Began ELSE TakeNext(f[j - 1], j)]
<3> HIDE DEF G, N
<3> QED
  BY <1>7, <2>1 DEF Solves
<2> QED
  BY <2>2, Zenon DEF AreTaken, D, N
<1> QED
  BY <1>7, <1>8 DEF Solves, D, X

LEMMA EffectiveFacts ==
  ASSUME SweepTypes, NEW a \in 1 .. Len(partials) + 1, NEW b \in a - 1 .. Len(partials)
  PROVE  /\ IsFiniteSet(Effective(a, b)) /\ Cardinality(Effective(a, b)) \in Nat
         /\ b < a => Cardinality(Effective(a, b)) = 0
         /\ b >= a => Cardinality(Effective(a, b)) =
                        Cardinality(Effective(a, b - 1)) + (IF Amounts[b] > 0 THEN 1 ELSE 0)
<1>1. Len(partials) \in Nat /\ a \in Int /\ b \in Int
  BY PlacesTyped
<1>2. IsFiniteSet(a .. b)
  BY <1>1, FS_Interval
<1>3. Effective(a, b) \in SUBSET (a .. b)
  BY DEF Effective
<1>4. IsFiniteSet(Effective(a, b)) /\ Cardinality(Effective(a, b)) \in Nat
  BY <1>2, <1>3, FS_Subset, FS_CardinalityType
<1>5. ASSUME b < a PROVE Cardinality(Effective(a, b)) = 0
<2>1. Effective(a, b) = {}
  BY <1>1, <1>5 DEF Effective
<2> QED
  BY <2>1, FS_EmptySet
<1>6. ASSUME b >= a
      PROVE  Cardinality(Effective(a, b)) =
               Cardinality(Effective(a, b - 1)) + (IF Amounts[b] > 0 THEN 1 ELSE 0)
<2> DEFINE E == Effective(a, b - 1)
<2>1. b \notin E /\ \A j : j \in a .. b <=> j \in a .. b - 1 \/ j = b
  BY <1>1, <1>6 DEF Effective
<2>2. IsFiniteSet(E) /\ Cardinality(E) \in Nat
<3>1. b - 1 \in Int /\ E \in SUBSET (a .. b - 1)
  BY <1>1 DEF Effective
<3>2. IsFiniteSet(a .. b - 1)
  BY <1>1, <3>1, FS_Interval
<3> QED
  BY <3>1, <3>2, FS_Subset, FS_CardinalityType
<2>3. CASE Amounts[b] > 0
<3>1. Effective(a, b) = E \cup {b}
  BY <2>1, <2>3 DEF Effective
<3>2. Cardinality(E \cup {b}) = Cardinality(E) + 1
<4> HIDE DEF E
<4> QED
  BY <2>1, <2>2, FS_AddElement
<3> QED
  BY <2>3, <3>1, <3>2
<2>4. CASE ~(Amounts[b] > 0)
<3>1. Effective(a, b) = E
  BY <2>1, <2>4 DEF Effective
<3> QED
  BY <2>2, <2>4, <3>1
<2> QED
  BY <2>3, <2>4
<1> QED
  BY <1>4, <1>5, <1>6

\* The state after the first j requests, when those at most that a payload takes are taken.
TakenUpTo(s, j) ==
  LET d == s.processed
  IN /\ d \in processed .. j
     /\ s = [balances |-> [i \in DOMAIN set |-> balances[i] - Takes(i, processed + 1, d)],
             count |-> Cardinality(Effective(processed + 1, d)), processed |-> d]
     /\ s.count <= PartialsPerPayload
     /\ s.count = PartialsPerPayload \/ d = j

LEMMA TakenBegins == ASSUME SweepTypes PROVE TakenUpTo(Began, processed)
<1>1. Len(partials) \in Nat /\ processed \in 0 .. Len(partials) /\ balances \in [DOMAIN set -> Nat]
  BY PlacesTyped DEF SweepTypes
<1> DEFINE p == processed + 1
<1>2. p \in 1 .. Len(partials) + 1 /\ processed \in p - 1 .. Len(partials) /\ processed < p
  BY <1>1
<1> HIDE DEF p
<1>3. ASSUME NEW i \in DOMAIN set PROVE balances[i] - Takes(i, p, processed) = balances[i]
<2>1. Takes(i, p, processed) = 0
  BY <1>2, TakesFacts
<2>2. balances[i] \in Nat
  BY <1>1
<2> QED
  BY <2>1, <2>2
<1>4. [i \in DOMAIN set |-> balances[i] - Takes(i, p, processed)] = balances
  BY <1>1, <1>3
<1>5. Cardinality(Effective(p, processed)) = 0
  BY <1>2, EffectiveFacts
<1>6. 0 <= PartialsPerPayload /\ processed \in processed .. processed
  BY <1>1, SweepAssumption
<1> QED
  BY <1>4, <1>5, <1>6 DEF TakenUpTo, Began, p

\* The next request takes what the prediction says, unless the payload is full of them.
LEMMA TakenGoesOn ==
  ASSUME SweepTypes, Uncontested, NEW j \in processed + 1 .. Len(partials),
         NEW s, TakenUpTo(s, j - 1)
  PROVE  TakenUpTo(TakeNext(s, j), j)
<1> DEFINE N == Len(partials)
           p == processed + 1
           d == s.processed
           i == partials[j].validator
           a == Amounts[j]
           after(e) == [k \in DOMAIN set |-> balances[k] - Takes(k, p, e)]
           many(e) == Cardinality(Effective(p, e))
<1>1. N \in Nat /\ processed \in 0 .. N /\ balances \in [DOMAIN set -> Nat]
  BY PlacesTyped DEF SweepTypes
<1>2. /\ d \in processed .. j - 1
      /\ s = [balances |-> after(d), count |-> many(d), processed |-> d]
      /\ s.count <= PartialsPerPayload
      /\ s.count = PartialsPerPayload \/ d = j - 1
  BY DEF TakenUpTo
<1>3. CASE s.count = PartialsPerPayload
<2>1. TakeNext(s, j) = s
  BY <1>3 DEF TakeNext
<2>2. d \in processed .. j
  BY <1>1, <1>2
<2> QED
  BY <1>2, <1>3, <2>1, <2>2 DEF TakenUpTo
<1>4. CASE s.count # PartialsPerPayload
<2>1. d = j - 1 /\ j \in 1 .. N /\ d \in processed .. N /\ j \in d + 1 .. N
  BY <1>1, <1>2, <1>4
<2>2. /\ partials[j] \in Request /\ i \in DOMAIN set /\ a \in Nat
      /\ \A k : Asks(k)[j] = (IF i = k THEN a ELSE 0)
  BY <2>1, PlacesTyped
<2>3. PartialAmount(partials[j], balances[i] - Takes(i, p, d)) = a
  BY <2>1, EnoughForAll
<2>4. p \in 1 .. N + 1 /\ j \in p - 1 .. N /\ d \in p - 1 .. N /\ j >= p /\ j - 1 = d
  BY <1>1, <2>1
<2>5. ASSUME NEW k \in DOMAIN set
      PROVE  /\ Takes(k, p, j) = Takes(k, p, d) + (IF i = k THEN a ELSE 0)
             /\ Takes(k, p, d) \in Nat /\ balances[k] \in Nat
<3> HIDE DEF p, i, a
<3>1. Takes(k, p, j) = Takes(k, p, j - 1) + Asks(k)[j]
  BY <2>4, TakesFacts
<3>2. Takes(k, p, d) \in Nat
  BY <2>4, TakesFacts
<3> QED
  BY <1>1, <2>2, <2>4, <3>1, <3>2
<2>6. many(j) = many(d) + (IF a > 0 THEN 1 ELSE 0) /\ many(d) \in Nat
<3> HIDE DEF p
<3>1. many(j) = many(j - 1) + (IF a > 0 THEN 1 ELSE 0)
  BY <2>4, EffectiveFacts
<3>2. many(d) \in Nat
  BY <2>4, EffectiveFacts
<3> QED
  BY <2>4, <3>1, <3>2
<2>7. s.balances = after(d) /\ s.count = many(d) /\ s.balances[i] = balances[i] - Takes(i, p, d)
  BY <1>2, <2>2
<2>8. TakeNext(s, j) =
        [balances |-> [after(d) EXCEPT ![i] = @ - a], count |-> many(d) + (IF a > 0 THEN 1 ELSE 0),
         processed |-> j]
<3> HIDE DEF after, many, p, a, d
<3> QED
  BY <1>4, <2>3, <2>7, Zenon DEF TakeNext, i
<2>9. [after(d) EXCEPT ![i] = @ - a] = after(j)
<3> HIDE DEF i, a, p, d
<3>1. ASSUME NEW k \in DOMAIN set
      PROVE  (IF k = i THEN (balances[k] - Takes(k, p, d)) - a ELSE balances[k] - Takes(k, p, d))
             = balances[k] - Takes(k, p, j)
<4>1. PICK x \in Nat : x = Takes(k, p, d)
  BY <2>5
<4>2. PICK b \in Nat : b = balances[k]
  BY <2>5
<4>3. Takes(k, p, j) = x + (IF i = k THEN a ELSE 0)
  BY <2>5, <4>1
<4>4. PICK c \in Nat : c = a
  BY <2>2
<4>5. CASE k = i
<5>1. Takes(k, p, j) = x + c
  BY <4>3, <4>4, <4>5
<5>2. b - (x + c) = (b - x) - c
  OBVIOUS
<5> QED
  BY <4>1, <4>2, <4>4, <4>5, <5>1, <5>2
<4>6. CASE k # i
<5>1. Takes(k, p, j) = x
  BY <4>3, <4>6
<5> QED
  BY <4>1, <4>6, <5>1
<4> QED
  BY <4>5, <4>6
<3>2. [after(d) EXCEPT ![i] = @ - a]
        = [k \in DOMAIN set |-> IF k = i THEN (balances[k] - Takes(k, p, d)) - a
                                 ELSE balances[k] - Takes(k, p, d)]
  BY <2>2
<3> QED
  BY <3>1, <3>2
<2>10. many(j) <= PartialsPerPayload
<3>1. many(d) <= PartialsPerPayload /\ many(d) # PartialsPerPayload /\ PartialsPerPayload \in Nat
  BY <1>2, <1>4, <2>7, SweepAssumption
<3> HIDE DEF many
<3> QED
  BY <2>6, <3>1
<2>11. j \in processed .. j
  BY <1>1
<2> HIDE DEF after, many, p, a, i, d
<2>12. TakeNext(s, j) = [balances |-> after(j), count |-> many(j), processed |-> j]
  BY <2>6, <2>8, <2>9
<2>13. TakenUpTo([balances |-> after(j), count |-> many(j), processed |-> j], j)
  BY <2>10, <2>11 DEF TakenUpTo, after, many, p
<2> QED
  BY <2>12, <2>13
<1> QED
  BY <1>3, <1>4

\* What a payload takes off the queue: as many requests with an effect as it may.
LEMMA TakenFacts ==
  ASSUME SweepTypes, Uncontested
  PROVE  TakenUpTo(TakePartials, Len(partials))
<1> DEFINE N == Len(partials)
           f == CHOOSE f : AreTaken(f)
           S == {k \in 0 .. N - processed : TakenUpTo(f[processed + k], processed + k)}
<1>1. N \in Nat /\ processed \in 0 .. N
  BY PlacesTyped DEF SweepTypes
<1>2. AreTaken(f)
  BY TakenExist
<1>3. TakePartials = f[N]
  BY Zenon DEF TakePartials, AreTaken, Began, TakeNext
<1> HIDE DEF f
<1>4. \A j \in 0 .. N : f[j] = IF j <= processed THEN Began ELSE TakeNext(f[j - 1], j)
  BY <1>2 DEF AreTaken
<1>5. 0 \in S
<2>1. processed \in 0 .. N /\ processed <= processed /\ 0 \in 0 .. N - processed /\ processed + 0 = processed
  BY <1>1
<2>2. f[processed] = Began
  BY <1>4, <2>1
<2> QED
  BY <2>1, <2>2, TakenBegins
<1>6. ASSUME NEW k \in 1 .. N - processed, k - 1 \in S PROVE k \in S
<2> DEFINE j == processed + k
<2>1. /\ j \in 0 .. N /\ ~(j <= processed) /\ j \in processed + 1 .. N
      /\ processed + (k - 1) = j - 1 /\ k \in 0 .. N - processed
  BY <1>1
<2>2. TakenUpTo(f[processed + (k - 1)], processed + (k - 1))
  BY <1>6
<2> HIDE DEF j
<2>3. f[j] = TakeNext(f[j - 1], j)
  BY <1>4, <2>1
<2>4. TakenUpTo(TakeNext(f[j - 1], j), j)
  BY <2>1, <2>2, TakenGoesOn
<2> QED
  BY <2>1, <2>3, <2>4 DEF j
<1>7. N - processed \in S
<2>1. N - processed \in Nat /\ N - processed \in 0 .. N - processed
  BY <1>1
<2> HIDE DEF S
<2> QED
  BY <1>5, <1>6, <2>1, Upward
<1>8. processed + (N - processed) = N
  BY <1>1
<1> QED
  BY <1>3, <1>7, <1>8

\* The validators the sweep withdraws from in this cycle.
Waiting == {i \in DOMAIN set : Sweepable(set[i], balances[i])}

LEMMA WaitingFacts ==
  ASSUME SweepTypes
  PROVE  IsFiniteSet(Waiting) /\ Cardinality(Waiting) \in Nat /\ Waiting \subseteq DOMAIN set
<1>1. Waiting \in SUBSET DOMAIN set
  BY DEF Waiting
<1> QED
  BY <1>1, FS_Subset, FS_CardinalityType DEF SweepTypes

\* The effective requests, and those up to a place and after it.
LEMMA EffectiveSplit ==
  ASSUME SweepTypes, NEW a \in 1 .. Len(partials) + 1, NEW d \in a - 1 .. Len(partials)
  PROVE  /\ Cardinality(Effective(a, Len(partials))) \in Nat
         /\ Cardinality(Effective(a, d)) \in Nat
         /\ Cardinality(Effective(d + 1, Len(partials))) \in Nat
         /\ Cardinality(Effective(a, Len(partials)))
              = Cardinality(Effective(a, d)) + Cardinality(Effective(d + 1, Len(partials)))
<1> DEFINE N == Len(partials)
           A == Effective(a, d)
           B == Effective(d + 1, N)
<1>1. N \in Nat /\ a \in Int /\ d \in Int /\ N \in a - 1 .. N
      /\ d + 1 \in 1 .. N + 1 /\ N \in (d + 1) - 1 .. N
  BY PlacesTyped
<1>2. IsFiniteSet(A) /\ IsFiniteSet(B) /\ Cardinality(A) \in Nat /\ Cardinality(B) \in Nat
  BY <1>1, EffectiveFacts
<1>3. Effective(a, N) = A \cup B
<2>1. \A j : j \in a .. N <=> j \in a .. d \/ j \in d + 1 .. N
  BY <1>1
<2> QED
  BY <2>1 DEF Effective
<1>4. A \cap B = {}
<2>1. \A j : ~(j \in a .. d /\ j \in d + 1 .. N)
  BY <1>1
<2> QED
  BY <2>1 DEF Effective
<1> HIDE DEF A, B
<1>5. Cardinality(A \cup B) = Cardinality(A) + Cardinality(B) - Cardinality(A \cap B)
  BY <1>2, FS_Union
<1>6. Cardinality(A \cap B) = 0
  BY <1>4, FS_EmptySet
<1> QED
  BY <1>2, <1>3, <1>5, <1>6 DEF A, B

\* What a payload takes off the queue is what it has room for.
LEMMA TakenCount ==
  ASSUME SweepTypes, Uncontested
  PROVE  LET taken == TakePartials
             d == taken.processed
             e == Cardinality(PendingPartialWithdrawals)
         IN /\ d \in processed .. Len(partials) /\ d \in Nat
            /\ \A i \in DOMAIN set : taken.balances[i] = balances[i] - Takes(i, processed + 1, d)
            /\ taken.count \in Nat /\ e \in Nat
            /\ taken.count = Min({PartialsPerPayload, e}) /\ taken.count <= PartialsPerPayload
            /\ Cardinality(Effective(d + 1, Len(partials))) = e - taken.count
<1> DEFINE N == Len(partials)
           p == processed + 1
           d == TakePartials.processed
           e == Cardinality(PendingPartialWithdrawals)
           t == Cardinality(Effective(p, d))
           u == Cardinality(Effective(d + 1, N))
<1>1. N \in Nat /\ processed \in 0 .. N
  BY PlacesTyped DEF SweepTypes
<1>2. /\ d \in processed .. N
      /\ TakePartials = [balances |-> [i \in DOMAIN set |-> balances[i] - Takes(i, p, d)],
                         count |-> t, processed |-> d]
      /\ TakePartials.count <= PartialsPerPayload
      /\ TakePartials.count = PartialsPerPayload \/ d = N
  BY TakenFacts DEF TakenUpTo
<1>3. TakePartials.count = t
  BY <1>2
<1>4. \A i \in DOMAIN set : TakePartials.balances[i] = balances[i] - Takes(i, p, d)
<2> HIDE DEF d, t
<2> QED
  BY <1>2
<1>5. PendingPartialWithdrawals = Effective(p, N)
  BY DEF PendingPartialWithdrawals, Effective
<1> HIDE DEF d
<1>6. p \in 1 .. N + 1 /\ d \in p - 1 .. N /\ d \in Nat
  BY <1>1, <1>2
<1>7. e \in Nat /\ t \in Nat /\ u \in Nat /\ e = t + u
<2> HIDE DEF p
<2> QED
  BY <1>5, <1>6, EffectiveSplit
<1>8. d = N => u = 0
<2>1. ASSUME d = N PROVE u = 0
<3>1. N + 1 \in 1 .. N + 1 /\ N \in (N + 1) - 1 .. N /\ N < N + 1
  BY <1>1
<3> QED
  BY <2>1, <3>1, EffectiveFacts
<2> QED
  BY <2>1
<1> HIDE DEF e, t, u
<1>9. t = Min({PartialsPerPayload, e})
<2>1. PartialsPerPayload \in Int /\ e \in Int
  BY <1>7, SweepAssumption
<2>2. /\ Min({PartialsPerPayload, e}) <= PartialsPerPayload /\ Min({PartialsPerPayload, e}) <= e
      /\ Min({PartialsPerPayload, e}) = PartialsPerPayload \/ Min({PartialsPerPayload, e}) = e
  BY <2>1, MinOfTwo, Zenon
<2>3. t <= PartialsPerPayload /\ (t = PartialsPerPayload \/ d = N)
  BY <1>2, <1>3
<2> QED
  BY <1>7, <1>8, <2>1, <2>2, <2>3
<1>10. u = e - t
  BY <1>7
<1>11. t <= PartialsPerPayload
  BY <1>2, <1>3
<1> QED
  BY <1>2, <1>3, <1>4, <1>6, <1>7, <1>9, <1>10, <1>11 DEF d, e, u, p

\* The prediction sees who waits, and a payload's requests do not change that.
LEMMA WaitingAnyway ==
  ASSUME SweepTypes, Uncontested
  PROVE  /\ ValidatorsWithdrawals = Waiting
         /\ {i \in DOMAIN set : Sweepable(set[i], TakePartials.balances[i])} = Waiting
<1>1. processed \in 0 .. Len(partials) /\ Len(partials) \in Nat
  BY PlacesTyped DEF SweepTypes
<1>2. Len(partials) \in processed .. Len(partials)
  BY <1>1
<1>3. ASSUME NEW i \in DOMAIN set
      PROVE  Sweepable(set[i], balances[i] - PartiallyWithdrawn(i)) <=> Sweepable(set[i], balances[i])
  BY <1>2, <1>3, SweptAnyway, WithdrawnIsTaken
<1>4. ASSUME NEW i \in DOMAIN set
      PROVE  Sweepable(set[i], TakePartials.balances[i]) <=> Sweepable(set[i], balances[i])
  BY <1>4, TakenCount, SweptAnyway
<1> QED
  BY <1>3, <1>4 DEF ValidatorsWithdrawals, Waiting

\* Only a validator that stays can be asked.
LEMMA AskedStay ==
  ASSUME SweepTypes, NEW i, PartiallyWithdrawn(i) # 0
  PROVE  set[i].exit = "none"
<1> DEFINE N == Len(partials)
           p == processed + 1
           S == p .. N
<1>1. N \in Nat /\ processed \in 0 .. N /\ p \in Int
  BY PlacesTyped DEF SweepTypes
<1>2. IsFiniteSet(S) /\ \A j \in S : j \in 1 .. N
<2>1. IsFiniteSet(S)
  BY <1>1, FS_Interval
<2> QED
  BY <1>1, <2>1
<1>3. SumFunctionOnSet(Asks(i), S) # 0
  BY WithdrawnIsTaken DEF Takes
<1> HIDE DEF S
<1>4. \A j \in S : Asks(i)[j] \in Nat
  BY <1>2, PlacesTyped
<1>5. PICK j \in S : Asks(i)[j] # 0
  BY <1>2, <1>3, <1>4, SumOfNats, Zenon
<1>6. /\ partials[j].validator = i /\ Amounts[j] # 0
      /\ Amounts[j] = PartialAmount(partials[j], balances[i])
  BY <1>2, <1>5, PlacesTyped
<1> QED
  BY <1>6 DEF PartialAmount

LEMMA SweptFacts ==
  ASSUME NEW v \in [executable : BOOLEAN, compounding : BOOLEAN, effective : Nat,
                    balance : Nat, exit : {"none", "leaving", "done"}],
         NEW b, b = IF v.exit = "done" THEN 0 ELSE MaxEffective(v)
  PROVE  b \in Nat /\ ~Sweepable(v, b)
<1>1. MaxEffective(v) \in Nat
  BY MaxEffectiveFacts
<1>2. 0 \in Nat /\ ~(0 > 0) /\ ~(0 > MaxEffective(v)) /\ ~(MaxEffective(v) > MaxEffective(v))
  BY <1>1
<1> QED
  BY <1>1, <1>2 DEF Sweepable, FullyWithdrawable, PartiallyWithdrawable

\* The sum with a request's share taken is what is still asked for.
LEMMA StillAsked ==
  ASSUME SweepTypes, NEW i \in DOMAIN set, NEW d \in processed .. Len(partials)
  PROVE  /\ Takes(i, processed + 1, d) \in Nat /\ Takes(i, d + 1, Len(partials)) \in Nat
         /\ PartiallyWithdrawn(i) = Takes(i, processed + 1, d) + Takes(i, d + 1, Len(partials))
<1> DEFINE N == Len(partials)
           p == processed + 1
<1>1. N \in Nat /\ processed \in 0 .. N
  BY PlacesTyped DEF SweepTypes
<1>2. /\ p \in 1 .. N + 1 /\ d \in p - 1 .. N
      /\ d + 1 \in 1 .. N + 1 /\ N \in (d + 1) - 1 .. N
  BY <1>1
<1>3. PartiallyWithdrawn(i) = Takes(i, p, N)
  BY WithdrawnIsTaken
<1> HIDE DEF p
<1>4. Takes(i, p, d) \in Nat /\ Takes(i, d + 1, N) \in Nat
  BY <1>2, TakesFacts
<1>5. Takes(i, p, N) = Takes(i, p, d) + Takes(i, d + 1, N)
  BY <1>2, TakesSplit
<1> QED
  BY <1>3, <1>4, <1>5 DEF p

\* Nothing is asked for that is not there.
LEMMA AskedIsThere ==
  ASSUME SweepTypes, Uncontested, NEW i \in DOMAIN set, NEW d \in processed .. Len(partials)
  PROVE  LET t == Takes(i, processed + 1, d)
             u == Takes(i, d + 1, Len(partials))
         IN /\ t \in Nat /\ u \in Nat /\ balances[i] \in Nat /\ balances[i] - t \in Nat
            /\ u > 0 => u <= balances[i] - t - MinActivationBalance
            /\ u > 0 /\ Sweepable(set[i], balances[i]) =>
                 /\ u <= MaxEffective(set[i]) - MinActivationBalance
                 /\ set[i].exit = "none"
                 /\ Sweepable(set[i], balances[i] - t - u)
<1> DEFINE t == Takes(i, processed + 1, d)
           u == Takes(i, d + 1, Len(partials))
           w == PartiallyWithdrawn(i)
           m == MaxEffective(set[i])
<1>1. t \in Nat /\ u \in Nat /\ w = t + u
  BY StillAsked
<1>2. balances[i] \in Nat /\ MinActivationBalance \in Nat /\ m \in Nat
  BY MaxEffectiveFacts, SweepAssumption DEF SweepTypes
<1>3. /\ w > 0 => w <= balances[i] - MinActivationBalance
      /\ w > 0 /\ Sweepable(set[i], balances[i]) =>
           /\ Sweepable(set[i], balances[i] - w) /\ w <= m - MinActivationBalance
  BY DEF Uncontested, ValidatorsWithdrawals
<1>4. w # 0 => set[i].exit = "none"
  BY AskedStay
<1> HIDE DEF t, u, w, m
<1>5. PICK b \in Nat : b = balances[i]
  BY <1>2
<1>6. b - t \in Nat
<2>1. CASE w > 0
  BY <1>1, <1>2, <1>3, <1>5, <2>1
<2>2. CASE ~(w > 0)
  BY <1>1, <1>5, <2>2
<2> QED
  BY <2>1, <2>2
<1>7. ASSUME u > 0 PROVE w > 0 /\ u <= b - t - MinActivationBalance /\ w # 0
  BY <1>1, <1>2, <1>3, <1>5, <1>7
<1>8. ASSUME u > 0, Sweepable(set[i], balances[i])
      PROVE  /\ u <= m - MinActivationBalance /\ set[i].exit = "none"
             /\ Sweepable(set[i], b - t - u)
<2>1. b - w = b - t - u
  BY <1>1
<2>2. w > 0 /\ w # 0
  BY <1>7, <1>8
<2>3. Sweepable(set[i], b - w) /\ w <= m - MinActivationBalance
  BY <1>3, <1>5, <1>8, <2>2
<2>4. u <= m - MinActivationBalance
  BY <1>1, <1>2, <2>3
<2> QED
  BY <1>4, <2>1, <2>2, <2>3, <2>4
<1> QED
  BY <1>1, <1>2, <1>5, <1>6, <1>7, <1>8 DEF t, u, m

\* While the sweep lasts: nothing is contested, those that wait are those it still has to
\* come to, and the blocks that are left of the prediction are the blocks that are needed.
Foreseen ==
  /\ SweepTypes /\ payloads \in Nat /\ report.payloads \in Nat
  /\ Uncontested /\ remaining = Waiting
  /\ IsNeed(Cardinality(Waiting), Cardinality(PendingPartialWithdrawals), report.payloads - payloads)

\* A payload in terms of the prediction.
LEMMA PayloadTakes ==
  ASSUME Foreseen, Payload
  PROVE  \E swept \in SUBSET Waiting :
           LET taken == TakePartials
               d == taken.processed
           IN /\ Waiting # {}
              /\ Cardinality(swept) = Min({Cardinality(Waiting), PerPayload - taken.count})
              /\ balances' = [i \in DOMAIN set |->
                   IF i \notin swept THEN balances[i] - Takes(i, processed + 1, d)
                   ELSE IF set[i].exit = "done" THEN 0 ELSE MaxEffective(set[i])]
              /\ remaining' = Waiting \ swept
              /\ processed' = d /\ payloads' = payloads + 1
              /\ set' = set /\ partials' = partials /\ report' = report
<1>1. SweepTypes /\ Uncontested /\ remaining = Waiting
  BY DEF Foreseen
<1> DEFINE taken == TakePartials
           all == {i \in DOMAIN set : Sweepable(set[i], taken.balances[i])}
           d == taken.processed
           after(swept) == [i \in DOMAIN set |->
               IF i \notin swept THEN taken.balances[i]
               ELSE IF set[i].exit = "done" THEN 0 ELSE MaxEffective(set[i])]
<1>2. /\ remaining # {} /\ processed' = d /\ payloads' = payloads + 1
      /\ set' = set /\ partials' = partials /\ report' = report
  BY DEF Payload
<1>3. PICK swept \in SUBSET all :
        /\ Cardinality(swept) = Min({Cardinality(all), PerPayload - taken.count})
        /\ balances' = after(swept)
        /\ remaining' = {i \in remaining \ swept : Sweepable(set[i], taken.balances[i])}
  BY DEF Payload
<1>4. all = Waiting
  BY <1>1, WaitingAnyway
<1>5. \A i \in DOMAIN set : taken.balances[i] = balances[i] - Takes(i, processed + 1, d)
  BY <1>1, TakenCount
<1> HIDE DEF taken, d
<1>6. remaining' = Waiting \ swept
<2>1. \A i \in Waiting : i \in DOMAIN set /\ Sweepable(set[i], taken.balances[i])
  BY <1>4
<2> QED
  BY <1>1, <1>3, <2>1
<1>7. balances' = [i \in DOMAIN set |->
                   IF i \notin swept THEN balances[i] - Takes(i, processed + 1, d)
                   ELSE IF set[i].exit = "done" THEN 0 ELSE MaxEffective(set[i])]
  BY <1>3, <1>5
<1> QED
  BY <1>1, <1>2, <1>3, <1>4, <1>6, <1>7 DEF taken, d

\* A payload leaves the requests it does not come to as they were.
LEMMA PayloadKeeps ==
  ASSUME Foreseen, Payload
  PROVE  Foreseen'
<1> DEFINE N == Len(partials)
           p == processed + 1
           d == TakePartials.processed
           c == TakePartials.count
           t(i) == Takes(i, p, d)
           u(i) == Takes(i, d + 1, N)
           swept(v) == IF v.exit = "done" THEN 0 ELSE MaxEffective(v)
           e == Cardinality(PendingPartialWithdrawals)
           k == report.payloads - payloads
<1>1. /\ SweepTypes /\ Uncontested /\ remaining = Waiting
      /\ IsNeed(Cardinality(Waiting), e, k)
  BY DEF Foreseen
<1>2. N \in Nat /\ processed \in 0 .. N /\ IsFiniteSet(DOMAIN set)
  BY <1>1, PlacesTyped DEF SweepTypes
<1>3. PICK taken \in SUBSET Waiting :
        /\ Waiting # {}
        /\ Cardinality(taken) = Min({Cardinality(Waiting), PerPayload - c})
        /\ balances' = [i \in DOMAIN set |-> IF i \notin taken THEN balances[i] - t(i)
                                             ELSE swept(set[i])]
        /\ remaining' = Waiting \ taken
        /\ processed' = d /\ payloads' = payloads + 1
        /\ set' = set /\ partials' = partials /\ report' = report
  BY PayloadTakes
<1>4. /\ d \in processed .. N /\ d \in Nat
      /\ c \in Nat /\ e \in Nat /\ c = Min({PartialsPerPayload, e}) /\ c <= PartialsPerPayload
      /\ Cardinality(Effective(d + 1, N)) = e - c
  BY <1>1, TakenCount
<1> HIDE DEF d, c
<1>5. ASSUME NEW i \in DOMAIN set
      PROVE  /\ t(i) \in Nat /\ u(i) \in Nat /\ balances[i] \in Nat /\ balances[i] - t(i) \in Nat
             /\ u(i) > 0 => u(i) <= balances[i] - t(i) - MinActivationBalance
             /\ u(i) > 0 /\ Sweepable(set[i], balances[i]) =>
                  /\ u(i) <= MaxEffective(set[i]) - MinActivationBalance
                  /\ set[i].exit = "none"
                  /\ Sweepable(set[i], balances[i] - t(i) - u(i))
  BY <1>1, <1>4, <1>5, AskedIsThere
<1>6. ASSUME NEW i \in DOMAIN set
      PROVE  /\ i \notin taken => balances'[i] = balances[i] - t(i)
             /\ i \in taken => /\ balances'[i] = swept(set[i])
                               /\ Sweepable(set[i], balances[i])
             /\ swept(set[i]) \in Nat /\ ~Sweepable(set[i], swept(set[i]))
<2>1. balances'[i] = (IF i \notin taken THEN balances[i] - t(i) ELSE swept(set[i]))
<3> HIDE DEF t, swept
<3> QED
  BY <1>3, <1>6
<2>2. i \in taken => Sweepable(set[i], balances[i])
  BY <1>3 DEF Waiting
<2>3. swept(set[i]) \in Nat /\ ~Sweepable(set[i], swept(set[i]))
  BY <1>1, <1>6, SweptFacts DEF SweepTypes
<2> QED
  BY <2>1, <2>2, <2>3
<1> HIDE DEF t, u, swept, p
<1>7. SweepTypes'
<2>1. balances' \in [DOMAIN set -> Nat]
  BY <1>3, <1>5, <1>6
<2>2. processed' \in 0 .. N
  BY <1>2, <1>3, <1>4
<2> QED
  BY <1>1, <1>3, <2>1, <2>2 DEF SweepTypes, Request
<1>8. ASSUME NEW j \in d + 1 .. N
      PROVE  /\ Amounts'[j] = Amounts[j] /\ Amounts[j] \in Nat /\ Amounts[j] \in Int
             /\ partials[j].validator \in DOMAIN set
<2> DEFINE i == partials[j].validator
<2>1. /\ j \in 1 .. N /\ j \in DOMAIN partials /\ i \in DOMAIN set
      /\ Amounts[j] \in Nat
  BY <1>1, <1>2, <1>4, PlacesTyped
<2>2. Amounts'[j] = PartialAmount(partials[j], balances'[i])
  BY <1>3, <2>1 DEF Amounts, PartialAmount
<2>3. CASE i \notin taken
<3>1. PartialAmount(partials[j], balances[i] - t(i)) = Amounts[j]
  BY <1>1, <1>4, EnoughForAll DEF t, p
<3>2. balances'[i] = balances[i] - t(i)
  BY <1>6, <2>1, <2>3
<3> QED
  BY <2>1, <2>2, <3>1, <3>2
<2>4. CASE i \in taken
<3>1. balances'[i] = swept(set[i]) /\ Sweepable(set[i], balances[i])
  BY <1>6, <2>1, <2>4
<3>2. PartialAmount(partials[j], swept(set[i])) = Amounts[j]
  BY <1>1, <1>4, <3>1, EnoughAfterSweep DEF swept
<3> QED
  BY <2>1, <2>2, <3>1, <3>2
<2> QED
  BY <2>1, <2>3, <2>4
<1>9. PendingPartialWithdrawals' = Effective(d + 1, N)
<2>1. PendingPartialWithdrawals' = {j \in d + 1 .. N : Amounts'[j] > 0}
  BY <1>3 DEF PendingPartialWithdrawals
<2> QED
  BY <1>8, <2>1 DEF Effective
<1>10. ASSUME NEW i \in DOMAIN set PROVE PartiallyWithdrawn(i)' = u(i)
<2> DEFINE S == {j \in Effective(d + 1, N) : partials[j].validator = i}
           f == Amounts
           g == Amounts'
<2>1. PartiallyWithdrawn(i)' = SumFunctionOnSet(g, S)
  BY <1>3, <1>9 DEF PartiallyWithdrawn
<2>2. d + 1 \in 1 .. N + 1 /\ N \in (d + 1) - 1 .. N
  BY <1>2, <1>4
<2>3. SumFunctionOnSet(f, S) = u(i)
  BY <1>1, <2>2, EffectiveIsTaken DEF u
<2>4. IsFiniteSet(S)
<3>1. IsFiniteSet(Effective(d + 1, N)) /\ S \in SUBSET Effective(d + 1, N)
  BY <1>1, <2>2, EffectiveFacts
<3> QED
  BY <3>1, FS_Subset
<2>5. \A j \in S : f[j] \in Int /\ g[j] = f[j]
  BY <1>8 DEF Effective
<2> HIDE DEF S, f, g
<2>6. SumFunctionOnSet(g, S) = SumFunctionOnSet(f, S)
  BY <2>4, <2>5, SumSame, Zenon
<2> QED
  BY <2>1, <2>3, <2>6
<1>11. Waiting' = Waiting \ taken
<2>1. Waiting' = {i \in DOMAIN set : Sweepable(set[i], balances'[i])}
  BY <1>3 DEF Waiting
<2>2. ASSUME NEW i \in DOMAIN set
      PROVE  Sweepable(set[i], balances'[i]) <=> Sweepable(set[i], balances[i]) /\ i \notin taken
<3>1. CASE i \in taken
  BY <1>6, <2>2, <3>1
<3>2. CASE i \notin taken
<4>1. Sweepable(set[i], balances[i] - t(i)) <=> Sweepable(set[i], balances[i])
  BY <1>1, <1>4, <2>2, SweptAnyway DEF t, p
<4> QED
  BY <1>6, <2>2, <3>2, <4>1
<3> QED
  BY <3>1, <3>2
<2> QED
  BY <2>1, <2>2 DEF Waiting
<1>12. Uncontested'
<2>1. ASSUME NEW i \in DOMAIN set, u(i) > 0
      PROVE  /\ u(i) <= balances'[i] - MinActivationBalance
             /\ Sweepable(set[i], balances'[i]) =>
                  /\ Sweepable(set[i], balances'[i] - u(i))
                  /\ u(i) <= MaxEffective(set[i]) - MinActivationBalance
<3>1. CASE i \in taken
<4>1. /\ balances'[i] = swept(set[i]) /\ ~Sweepable(set[i], balances'[i])
      /\ Sweepable(set[i], balances[i])
  BY <1>6, <2>1, <3>1
<4>2. set[i].exit = "none" /\ u(i) <= MaxEffective(set[i]) - MinActivationBalance
  BY <1>5, <2>1, <4>1
<4>3. swept(set[i]) = MaxEffective(set[i])
  BY <4>2 DEF swept
<4> QED
  BY <4>1, <4>2, <4>3
<3>2. CASE i \notin taken
<4>1. balances'[i] = balances[i] - t(i)
  BY <1>6, <2>1, <3>2
<4>2. Sweepable(set[i], balances[i] - t(i)) <=> Sweepable(set[i], balances[i])
  BY <1>1, <1>4, <2>1, SweptAnyway DEF t, p
<4> QED
  BY <1>5, <2>1, <4>1, <4>2
<3> QED
  BY <3>1, <3>2
<2>2. ASSUME NEW i \in DOMAIN set, Sweepable(set[i], balances'[i] - u(i))
      PROVE  i \in ValidatorsWithdrawals'
  BY <1>3, <1>10, <2>2 DEF ValidatorsWithdrawals
<2>3. ASSUME NEW i \in DOMAIN set', PartiallyWithdrawn(i)' > 0
      PROVE  /\ PartiallyWithdrawn(i)' <= balances'[i] - MinActivationBalance
             /\ Sweepable(set'[i], balances'[i]) =>
                  /\ i \in ValidatorsWithdrawals'
                  /\ PartiallyWithdrawn(i)' <= MaxEffective(set'[i]) - MinActivationBalance
<3>1. i \in DOMAIN set /\ set' = set
  BY <1>3, <2>3
<3>2. PartiallyWithdrawn(i)' = u(i) /\ u(i) > 0
  BY <1>10, <2>3, <3>1
<3> QED
  BY <2>1, <2>2, <3>1, <3>2
<2> QED
  BY <2>3 DEF Uncontested
<1>13. IsNeed(Cardinality(Waiting \ taken), e - c, k - 1)
<2> DEFINE r == Cardinality(Waiting)
           s == Cardinality(taken)
<2>1. IsFiniteSet(Waiting) /\ r \in Nat
  BY <1>1, WaitingFacts
<2>2. r # 0
  BY <1>3, <2>1, FS_EmptySet
<2>3. IsFiniteSet(taken) /\ s \in Nat
  BY <1>3, <2>1, FS_Subset, FS_CardinalityType
<2>4. Cardinality(Waiting \ taken) = r - s
<3>1. Cardinality(Waiting \ taken) = r - Cardinality(Waiting \cap taken)
  BY <2>1, FS_Difference
<3>2. Waiting \cap taken = taken
  BY <1>3
<3> QED
  BY <3>1, <3>2
<2>5. s = Min({r, PerPayload - c})
  BY <1>3
<2> HIDE DEF r, s, e, k
<2>6. IsNeed(r, e, k)
  BY <1>1 DEF r
<2>7. IsNeed(r - s, e - c, k - 1)
  BY <1>4, <2>1, <2>2, <2>3, <2>5, <2>6, NeedStep
<2> QED
  BY <2>4, <2>7
<1>14. (report.payloads - payloads)' = k - 1
<2>1. PICK a \in Nat : a = report.payloads
  BY DEF Foreseen
<2>2. PICK b \in Nat : b = payloads
  BY DEF Foreseen
<2>3. report'.payloads = a /\ payloads' = b + 1 /\ k = a - b
  BY <1>3, <2>1, <2>2
<2>4. a - (b + 1) = (a - b) - 1
  OBVIOUS
<2> QED
  BY <2>3, <2>4
<1>15. remaining' = Waiting'
  BY <1>3, <1>11
<1>16. Cardinality(Waiting)' = Cardinality(Waiting \ taken)
       /\ Cardinality(PendingPartialWithdrawals)' = e - c
  BY <1>4, <1>9, <1>11
<1>17. IsNeed(Cardinality(Waiting), Cardinality(PendingPartialWithdrawals), report.payloads - payloads)'
  BY <1>13, <1>14, <1>16 DEF IsNeed, Fits
<1>18. payloads' \in Nat /\ report'.payloads \in Nat
<2>1. payloads \in Nat /\ report.payloads \in Nat
  BY DEF Foreseen
<2> QED
  BY <1>3, <2>1
<1> QED
  BY <1>7, <1>12, <1>15, <1>17, <1>18 DEF Foreseen

-----------------------------------------------------------------------------
(* The time a sweep takes *)

\* The inductive invariant.
SweepInv ==
  /\ payloads \in Nat \cup {-1}
  /\ payloads = -1 => SweepTypes
  /\ payloads >= 0 /\ report.uncontested =>
       Foreseen /\ report.delay = report.payloads \div 2

LEMMA SweepBegins == SweepInit => SweepInv
<1> SUFFICES ASSUME SweepInit PROVE SweepInv
  OBVIOUS
<1>1. PICK n \in Populations : set \in [1 .. n -> Profiles]
  BY DEF SweepInit
<1>2. n \in Nat /\ DOMAIN set = 1 .. n /\ IsFiniteSet(1 .. n)
  BY <1>1, SweepAssumption, FS_Interval
<1>3. \A i \in DOMAIN set :
        set[i] \in [executable : BOOLEAN, compounding : BOOLEAN, effective : Nat,
                    balance : Nat, exit : {"none", "leaving", "done"}]
  BY <1>1, <1>2, SweepAssumption
<1>4. balances \in [DOMAIN set -> Nat]
<2>1. balances = [i \in DOMAIN set |-> set[i].balance]
  BY DEF SweepInit
<2>2. \A i \in DOMAIN set : set[i].balance \in Nat
  BY <1>3
<2> QED
  BY <2>1, <2>2
<1>5. partials \in Seq(Request) /\ Len(partials) \in Nat
<2>1. /\ partials \in Seq([validator : Nat, amount : Nat \ {0}])
      /\ \A j \in DOMAIN partials : partials[j].validator \in DOMAIN set
  BY SweepAssumption DEF SweepInit
<2>2. Len(partials) \in Nat /\ DOMAIN partials = 1 .. Len(partials)
  BY <2>1, LenProperties
<2>3. \A j \in 1 .. Len(partials) : partials[j] \in Request
<3>1. ASSUME NEW j \in 1 .. Len(partials) PROVE partials[j] \in Request
<4>1. partials[j] \in [validator : Nat, amount : Nat \ {0}]
  BY <2>1, <2>2, <3>1, ElementOfSeq
<4>2. partials[j].validator \in DOMAIN set
  BY <2>1, <2>2
<4> QED
  BY <4>1, <4>2 DEF Request
<3> QED
  BY <3>1
<2>4. partials \in [1 .. Len(partials) -> Request]
<3>1. partials \in [1 .. Len(partials) -> [validator : Nat, amount : Nat \ {0}]]
  BY <2>1, LenProperties
<3> QED
  BY <2>3, <3>1
<2> QED
  BY <2>2, <2>4, Z3
<1>6. processed \in 0 .. Len(partials) /\ payloads = -1 /\ ~(payloads >= 0)
  BY <1>5 DEF SweepInit
<1> QED
  BY <1>2, <1>3, <1>4, <1>5, <1>6 DEF SweepInv, SweepTypes

\* What a step that takes nothing leaves alone.
LEMMA SweepStays ==
  ASSUME set' = set, balances' = balances, partials' = partials, processed' = processed
  PROVE  /\ SweepTypes => SweepTypes'
         /\ Uncontested => Uncontested'
         /\ Waiting' = Waiting
         /\ PendingPartialWithdrawals' = PendingPartialWithdrawals
<1>1. (SweepTypes => SweepTypes') /\ Waiting' = Waiting
  BY DEF SweepTypes, Request, Waiting
<1>2. Amounts' = Amounts
  BY DEF Amounts, PartialAmount
<1>3. PendingPartialWithdrawals' = PendingPartialWithdrawals
  BY <1>2 DEF PendingPartialWithdrawals
<1>4. ASSUME NEW i PROVE PartiallyWithdrawn(i)' = PartiallyWithdrawn(i)
  BY <1>2, <1>3 DEF PartiallyWithdrawn
<1>5. ValidatorsWithdrawals' = ValidatorsWithdrawals
<2>1. ValidatorsWithdrawals'
        = {i \in DOMAIN set : Sweepable(set[i], balances[i] - PartiallyWithdrawn(i)')}
  BY DEF ValidatorsWithdrawals
<2>2. ASSUME NEW i PROVE PartiallyWithdrawn(i)' = PartiallyWithdrawn(i)
  BY <1>4
<2> QED
  BY <2>1, <2>2, Zenon DEF ValidatorsWithdrawals
<1>6. ASSUME Uncontested PROVE Uncontested'
<2>1. ASSUME NEW i \in DOMAIN set, PartiallyWithdrawn(i)' > 0
      PROVE  /\ PartiallyWithdrawn(i)' <= balances[i] - MinActivationBalance
             /\ Sweepable(set[i], balances[i]) =>
                  /\ i \in ValidatorsWithdrawals'
                  /\ PartiallyWithdrawn(i)' <= MaxEffective(set[i]) - MinActivationBalance
<3>1. PartiallyWithdrawn(i)' = PartiallyWithdrawn(i)
  BY <1>4
<3> QED
  BY <1>5, <1>6, <2>1, <3>1 DEF Uncontested
<2> QED
  BY <2>1 DEF Uncontested
<1> QED
  BY <1>1, <1>3, <1>6

LEMMA PredictForesees ==
  ASSUME SweepTypes, Predict, report'.uncontested
  PROVE  Foreseen' /\ report'.delay = report'.payloads \div 2
<1> DEFINE r == Cardinality(Waiting)
           e == Cardinality(PendingPartialWithdrawals)
           k == DivUp(r + Min({e, DivUp(r * PartialsPerPayload, PerPayload - PartialsPerPayload)}),
                      PerPayload)
<1>1. /\ set' = set /\ balances' = balances /\ partials' = partials /\ processed' = processed
      /\ payloads' = 0 /\ remaining' = Waiting
  BY DEF Predict, Waiting
<1>2. /\ report'.payloads = DivUp(WithdrawalsInSweepCycle, PerPayload)
      /\ report'.delay = SweepDelay /\ report'.uncontested = Uncontested
  BY DEF Predict
<1>3. Uncontested
  BY <1>2
<1>4. ValidatorsWithdrawals = Waiting
  BY <1>3, WaitingAnyway
<1>5. report'.payloads = k
  BY <1>2, <1>4 DEF WithdrawalsInSweepCycle
<1>6. report'.delay = report'.payloads \div 2
  BY <1>2 DEF SweepDelay
<1>7. r \in Nat /\ e \in Nat
  BY <1>3, WaitingFacts, TakenCount
<1> HIDE DEF r, e
<1>8. IsNeed(r, e, k) /\ k \in Nat
  BY <1>7, NeedPredicted DEF IsNeed
<1>9. /\ SweepTypes' /\ Waiting' = Waiting /\ Uncontested'
      /\ PendingPartialWithdrawals' = PendingPartialWithdrawals
  BY <1>1, <1>3, SweepStays
<1> HIDE DEF k
<1>10. k - 0 = k
  BY <1>8
<1>11. IsNeed(Cardinality(Waiting), Cardinality(PendingPartialWithdrawals), report.payloads - payloads)'
  BY <1>1, <1>5, <1>8, <1>9, <1>10 DEF IsNeed, Fits, r, e
<1> QED
  BY <1>1, <1>5, <1>6, <1>8, <1>9, <1>11 DEF Foreseen

LEMMA SweepSteps == SweepInv /\ [SweepNext]_sweepVars => SweepInv'
<1> SUFFICES ASSUME SweepInv, [SweepNext]_sweepVars PROVE SweepInv'
  OBVIOUS
<1>1. CASE Predict
<2>1. payloads = -1 /\ payloads' = 0
  BY <1>1 DEF Predict
<2> QED
  BY <1>1, <2>1, PredictForesees DEF SweepInv
<1>2. CASE Payload
<2>1. payloads \in Nat /\ payloads' = payloads + 1 /\ report' = report
  BY <1>2 DEF Payload, SweepInv
<2>2. payloads' \in Nat /\ payloads >= 0 /\ payloads' # -1
  BY <2>1
<2>3. ASSUME report.uncontested PROVE Foreseen' /\ report.delay = report.payloads \div 2
<3>1. Foreseen /\ report.delay = report.payloads \div 2
  BY <2>2, <2>3 DEF SweepInv
<3> QED
  BY <1>2, <3>1, PayloadKeeps
<2> QED
  BY <2>1, <2>2, <2>3 DEF SweepInv
<1>3. CASE UNCHANGED sweepVars
<2>1. /\ set' = set /\ balances' = balances /\ partials' = partials /\ processed' = processed
      /\ remaining' = remaining /\ payloads' = payloads /\ report' = report
  BY <1>3 DEF sweepVars
<2>2. /\ SweepTypes => SweepTypes'
      /\ Uncontested => Uncontested'
      /\ Waiting' = Waiting /\ PendingPartialWithdrawals' = PendingPartialWithdrawals
  BY <2>1, SweepStays
<2>3. IsNeed(Cardinality(Waiting), Cardinality(PendingPartialWithdrawals), report.payloads - payloads)
      => IsNeed(Cardinality(Waiting), Cardinality(PendingPartialWithdrawals), report.payloads - payloads)'
  BY <2>1, <2>2 DEF IsNeed, Fits
<2>4. Foreseen => Foreseen'
  BY <2>1, <2>2, <2>3 DEF Foreseen
<2> QED
  BY <2>1, <2>2, <2>4 DEF SweepInv
<1> QED
  BY <1>1, <1>2, <1>3 DEF SweepNext

LEMMA SweepEnds == SweepInv => SweepTakesAsLongAsPredicted
<1> SUFFICES ASSUME SweepInv, payloads >= 0, remaining = {}, report.uncontested
             PROVE  payloads = report.payloads /\ report.delay = payloads \div 2
  BY DEF SweepTakesAsLongAsPredicted
<1>1. Foreseen /\ report.delay = report.payloads \div 2
  BY DEF SweepInv
<1> DEFINE e == Cardinality(PendingPartialWithdrawals)
<1>2. e \in Nat
  BY <1>1, TakenCount DEF Foreseen
<1>3. Cardinality(Waiting) = 0
  BY <1>1, FS_EmptySet DEF Foreseen
<1> HIDE DEF e
<1>4. PICK a \in Nat : a = report.payloads
  BY <1>1 DEF Foreseen
<1>5. PICK b \in Nat : b = payloads
  BY <1>1 DEF Foreseen
<1>6. IsNeed(0, e, a - b)
  BY <1>1, <1>3, <1>4, <1>5 DEF Foreseen, e
<1>7. Fits(0, e, 0)
<2>1. 0 * PartialsPerPayload = 0 /\ 0 * PerPayload = 0
  BY SweepAssumption
<2>2. 0 \in Int /\ e \in Int
  BY <1>2
<2>3. Min({0, e}) \in Int /\ Min({0, e}) <= 0
  BY <2>2, MinOfTwo, Zenon
<2> QED
  BY <2>1, <2>3 DEF Fits
<1>8. a = b
  BY <1>6, <1>7 DEF IsNeed
<1> QED
  BY <1>1, <1>4, <1>5, <1>8

\* sweep.py:28-99: the cycle takes as many blocks as the ejector predicted, for any validators and
\* balances, any queue of partial withdrawals and any limits of a payload, however the two
\* kinds of withdrawals share the blocks, where none contests another.
THEOREM SweepIsForeseen == SweepSpec => []SweepTakesAsLongAsPredicted
<1> QED
  BY SweepBegins, SweepSteps, SweepEnds, PTL DEF SweepSpec
=============================================================================
