-------------------------------- MODULE Ipfs --------------------------------
(***************************************************************************)
(* How an oracle uses several IPFS providers (web3py/extensions/ipfs.py,   *)
(* providers/ipfs/types.py).  It reads the trees of the last report from   *)
(* one of them, moving on round a ring when a provider fails; it publishes *)
(* the new ones at all of them, and the CID it settles on goes into the    *)
(* report, on which a quorum of oracles must agree.                        *)
(*                                                                         *)
(* Each oracle shuffles its ring when it starts.  A provider fails when    *)
(* all its retries did.                                                    *)
(***************************************************************************)
EXTENDS Integers, FiniteSets, FiniteSetsExt, SequencesExt

CONSTANTS
  Oracle,
  Readers,     \* oracles whose fetches are explored: they share nothing
  Providers,   \* in the order of their priority
  Cids,        \* the CIDs a provider may give to the content
  RightCid,    \* and that of CARConverter.create_unixfs_based_cid
  Shuffled,    \* rings an oracle may have
  Completions, \* uploads that may succeed, in the order they complete
  MaxFetchFrame, MaxFetches   \* bounds of the exploration

Provider == ToSet(Providers)
Ring == Len(Providers)

ASSUME IpfsAssumption ==
  /\ Providers \in Seq(Provider) /\ IsInjective(Providers) /\ Ring > 0
  /\ RightCid \in Cids
  /\ Shuffled \subseteq SetToSeqs(Provider)
  /\ Completions \subseteq SetToAllKPermutations(Provider)
  /\ MaxFetchFrame \in Nat

VARIABLES
  validate,    \* IPFS_VALIDATE_CID
  cidOf,       \* the CID a provider gives to the content
  ring,        \* providers of an oracle, and its place in them:
  frame, current, lastWorking,
  tried,       \* providers asked by the call in progress, or by the last one
  call,        \* "none", or what became of the last fetch
  fetches,     \* bound: fetches so far
  uploads      \* successful uploads of an oracle, in the order they completed

ipfsVars == <<validate, cidOf, ring, frame, current, lastWorking, tried, call, fetches, uploads>>

-----------------------------------------------------------------------------
(* fetch *)

\* Mutant: a new frame moves the ring on, but not the mark at which it stops.
SetProviderForFrame_KeepMark(o, f) ==
  /\ frame' = [frame EXCEPT ![o] = f]
  /\ current' = [current EXCEPT ![o] = IF frame[o] = f THEN @ ELSE f % Ring]
  /\ UNCHANGED lastWorking

\* _set_provider_for_frame.
SetProviderForFrame(o, f) ==
  /\ frame' = [frame EXCEPT ![o] = f]
  /\ current' = [current EXCEPT ![o] = IF frame[o] = f THEN @ ELSE f % Ring]
  /\ lastWorking' = [lastWorking EXCEPT ![o] = IF frame[o] = f THEN @ ELSE f % Ring]

Fetch(o, f) ==
  /\ call[o] # "trying" /\ uploads[o] = <<>> /\ f >= frame[o] /\ fetches[o] < MaxFetches
  /\ SetProviderForFrame(o, f)
  /\ call' = [call EXCEPT ![o] = "trying"]
  /\ tried' = [tried EXCEPT ![o] = <<>>]
  /\ fetches' = [fetches EXCEPT ![o] = @ + 1]
  /\ UNCHANGED <<validate, cidOf, ring, uploads>>

\* with_fallback, around one provider's retries.
Attempt(o, answers) ==
  LET next == (current[o] + 1) % Ring
  IN /\ call[o] = "trying"
     /\ tried' = [tried EXCEPT ![o] = Append(@, ring[o][current[o] + 1])]
     /\ IF answers
        THEN /\ call' = [call EXCEPT ![o] = "fetched"]
             /\ lastWorking' = [lastWorking EXCEPT ![o] = current[o]]
             /\ UNCHANGED current
        ELSE /\ current' = [current EXCEPT ![o] = next]
             /\ call' = [call EXCEPT ![o] = IF lastWorking[o] = next THEN "failed" ELSE @]
             /\ UNCHANGED lastWorking
     /\ UNCHANGED <<validate, cidOf, ring, frame, fetches, uploads>>

-----------------------------------------------------------------------------
(* publish *)

\* IPFSProvider.publish succeeds only with the right CID when CIDs are validated.
MaySucceed(p) == validate => cidOf[p] = RightCid

Votes(done, cid) == Cardinality({i \in DOMAIN done : cidOf[done[i]] = cid})

SelectFirst(order, done) == order[SelectInSeq(order, LAMBDA p : p \in ToSet(done))]

\* Mutant: without a quorum the oracle's own order of providers decides.
PriorityProvider_OwnRing(o, done) == SelectFirst(ring[o], done)

\* The provider that decides without a quorum.
PriorityProvider(o, done) == SelectFirst(Providers, done)

\* _select_cid_with_quorum, of the uploads that succeeded.
SelectedCid(o, done) ==
  LET quorum == {cid \in Cids : Votes(done, cid) >= Len(done) \div 2 + 1}
  IN IF quorum # {} THEN CHOOSE cid \in quorum : TRUE ELSE cidOf[PriorityProvider(o, done)]

\* publish, for one content; without a successful upload there is no report, and another try.
Publish(o, done) ==
  /\ call[o] # "trying" /\ uploads[o] = <<>> /\ done # <<>>
  /\ \A i \in DOMAIN done : MaySucceed(done[i])
  /\ uploads' = [uploads EXCEPT ![o] = done]
  /\ call' = [call EXCEPT ![o] = "none"] /\ tried' = [tried EXCEPT ![o] = <<>>]
  /\ fetches' = [fetches EXCEPT ![o] = 0]
  /\ UNCHANGED <<validate, cidOf, ring, frame, current, lastWorking>>

-----------------------------------------------------------------------------

IpfsInit ==
  /\ validate \in BOOLEAN /\ cidOf \in [Provider -> Cids]
  /\ ring \in [Oracle -> Shuffled]
  /\ frame = [o \in Oracle |-> -1]
  /\ current = [o \in Oracle |-> 0] /\ lastWorking = [o \in Oracle |-> 0]
  /\ tried = [o \in Oracle |-> <<>>] /\ call = [o \in Oracle |-> "none"]
  /\ fetches = [o \in Oracle |-> 0] /\ uploads = [o \in Oracle |-> <<>>]

IpfsNext ==
  \E o \in Oracle :
    \/ o \in Readers /\ \E f \in 0 .. MaxFetchFrame : Fetch(o, f)
    \/ \E answers \in BOOLEAN : Attempt(o, answers)
    \/ \E done \in Completions : Publish(o, done)

IpfsSpec == IpfsInit /\ [][IpfsNext]_ipfsVars

-----------------------------------------------------------------------------
(* Properties *)

\* ipfs.py:63-78, 107-112: a fetch gives up only when it has asked every provider once, and
\* never asks one twice, whichever worked last, also in the first fetch of a new frame.
FetchAsksEveryProvider ==
  \A o \in Oracle :
    /\ call[o] = "failed" => ToSet(tried[o]) = Provider
    /\ IsInjective(tried[o])

\* The providers of a CID outnumber those of other CIDs and the failed uploads together.
Outnumbers(cid, done) ==
  LET givers == {p \in Provider : cidOf[p] = cid}
  IN Cardinality(givers)
       > Cardinality(Provider \ givers) + Cardinality(Provider \ ToSet(done))

\* ipfs.py:130-176: oracles settle on the same CID for the same content when they validate it,
\* whatever uploads of theirs failed; otherwise when the same uploads succeeded, in whatever
\* order and however their rings are shuffled, or when, different uploads having failed, the
\* providers of one CID outnumber the rest and the failures of each.
OraclesAgreeOnCid ==
  \A o, u \in Oracle :
    /\ uploads[o] # <<>> /\ uploads[u] # <<>>
    /\ \/ validate
       \/ ToSet(uploads[o]) = ToSet(uploads[u])
       \/ \E cid \in Cids : Outnumbers(cid, uploads[o]) /\ Outnumbers(cid, uploads[u])
    => SelectedCid(o, uploads[o]) = SelectedCid(u, uploads[u])
=============================================================================
