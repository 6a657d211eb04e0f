---------------------- MODULE PerformanceSidecar_proofs ----------------------
(***************************************************************************)
(* The sidecar for every retention, frame length, checkpoint size, number  *)
(* of workers and of consumers, and every order of their steps: the values *)
(* of its variables, the retained window that the collector's threads keep *)
(* and come to rest in, and what a collector has stored when it sleeps.    *)
(***************************************************************************)
EXTENDS PerformanceSidecar, FiniteSetTheorems, WellFoundedInduction, TLAPS

-----------------------------------------------------------------------------
(* Least and greatest elements *)

\* A nonempty set of natural numbers has a least element.
LEMMA LeastNat ==
  ASSUME NEW S \in SUBSET Nat, S # {}
  PROVE  \E x \in S : \A y \in S : x <= y
<1>0. S \subseteq Nat
  OBVIOUS
<1>1. PICK x \in S : \A y \in S : <<y, x>> \notin OpToRel(<, Nat)
  BY <1>0, NatLessThanWellFounded, WFMin, Zenon
<1>2. ASSUME NEW y \in S PROVE ~(y < x)
<2>1. /\ x \in Nat /\ y \in Nat
      /\ <<y, x>> \in Nat \X Nat
      /\ <<y, x>>[1] = y /\ <<y, x>>[2] = x
  BY <1>0
<2>2. OpToRel(<, Nat) = {ss \in Nat \X Nat : ss[1] < ss[2]}
  BY Zenon DEF OpToRel
<2>3. <<y, x>> \notin {ss \in Nat \X Nat : ss[1] < ss[2]}
  BY <1>1, <2>2, Zenon
<2> QED
  BY <2>1, <2>3
<1>3. \A y \in S : x <= y
  BY <1>0, <1>2
<1> QED
  BY <1>3

\* Min of FiniteSetsExt.
LEMMA MinFacts ==
  ASSUME NEW S \in SUBSET Nat, S # {}
  PROVE  Min(S) \in S /\ \A y \in S : Min(S) <= y
  BY LeastNat DEF Min

\* Max of FiniteSetsExt, for the epochs of the table.
LEMMA MaxFacts ==
  ASSUME NEW S \in SUBSET Epoch, S # {}
  PROVE  Max(S) \in S /\ \A y \in S : y <= Max(S)
<1> DEFINE D == {MaxHead - x : x \in S}
<1>1. MaxHead \in Nat /\ \A x \in S : x \in 0..MaxHead
  BY SidecarAssumption DEF Epoch
<1>2. D \in SUBSET Nat /\ D # {}
  BY <1>1
<1> HIDE DEF D
<1>3. PICK m \in D : \A y \in D : m <= y
  BY <1>2, LeastNat
<1>4. PICK x \in S : m = MaxHead - x
  BY <1>3 DEF D
<1>5. \A y \in S : x >= y
<2>1. SUFFICES ASSUME NEW y \in S PROVE x >= y
  OBVIOUS
<2>2. MaxHead - y \in D
  BY DEF D
<2> QED
  BY <1>1, <1>3, <1>4, <2>2
<1>6. Max(S) \in S /\ \A y \in S : Max(S) >= y
  BY <1>5 DEF Max
<1> QED
  BY <1>1, <1>6

\* LowestRetention is one of the settings, positive and below all others.
LEMMA LowestFacts ==
  /\ LowestRetention \in Nat \ {0}
  /\ \A r \in Retentions \cup {InitRetention} : LowestRetention <= r
<1>1. Retentions \cup {InitRetention} \in SUBSET (Nat \ {0})
  BY SidecarAssumption
<1> QED
  BY <1>1, MinFacts DEF LowestRetention

-----------------------------------------------------------------------------
(* The inductive invariant *)

\* What a thread of epoch e has done and read.  Once it has stored its epoch the
\* newest one is at least e, and stays so; the retention it works with is one that
\* was set at some time; and what it is about to delete lies below the window that
\* ends at the newest epoch, however old the newest epoch it has read.
ThreadOf(e) ==
  /\ job[e] \in [at : {"none", "queued", "stored", "sized", "prune"}, n : Int]
  /\ job[e].at \in {"stored", "sized", "prune"} => \E m \in epochs : e <= m
  /\ job[e].at = "sized" => job[e].n \in Retentions \cup {InitRetention}
  /\ job[e].at = "prune" => \E m \in epochs : job[e].n <= m - LowestRetention + 1

WindowInv ==
  /\ epochs \in SUBSET Epoch
  /\ retention \in Retentions \cup {InitRetention}
  /\ job \in [Epoch -> [at : {"none", "queued", "stored", "sized", "prune"}, n : Int]]
  /\ \A e \in Epoch : ThreadOf(e)

\* The steps that leave the table and the threads alone.
ThreadsKept == UNCHANGED <<epochs, job>>

\* A thread whose table only grows keeps what it knows.
LEMMA ThreadKept ==
  ASSUME NEW e \in Epoch, ThreadOf(e), job'[e] = job[e],
         \A m \in epochs : \E k \in epochs' : m <= k,
         epochs \in SUBSET Epoch, epochs' \in SUBSET Epoch
  PROVE  ThreadOf(e)'
<1>1. ASSUME NEW m \in epochs, e <= m PROVE \E k \in epochs' : e <= k
  BY <1>1, SidecarAssumption DEF Epoch
<1>2. ASSUME NEW m \in epochs, job[e].n <= m - LowestRetention + 1
      PROVE  \E k \in epochs' : job[e].n <= k - LowestRetention + 1
  BY <1>2, LowestFacts, SidecarAssumption DEF Epoch, ThreadOf
<1>3. LowestRetention' = LowestRetention
  BY DEF LowestRetention
<1> QED
  BY <1>1, <1>2, <1>3 DEF ThreadOf

\* Steps that leave the table and the settings alone and at most end threads or
\* queue new ones: the plan, the checkpoints, the consumers, the chain, the faults.
LEMMA IdleStep ==
  ASSUME WindowInv, epochs' = epochs,
         retention' \in Retentions \cup {InitRetention},
         job' \in [Epoch -> [at : {"none", "queued", "stored", "sized", "prune"}, n : Int]],
         \A e \in Epoch : job'[e] = job[e] \/ job'[e].at \in {"none", "queued"}
  PROVE  WindowInv'
<1>1. ASSUME NEW e \in Epoch PROVE ThreadOf(e)'
<2>1. CASE job'[e] = job[e]
<3>1. \A m \in epochs : \E k \in epochs' : m <= k
  BY SidecarAssumption DEF WindowInv, Epoch
<3> QED
  BY <2>1, <3>1, ThreadKept DEF WindowInv
<2>2. CASE job'[e].at \in {"none", "queued"}
  BY <2>2 DEF ThreadOf
<2> QED
  BY <2>1, <2>2
<1> QED
  BY <1>1 DEF WindowInv

\* A thread's own step changes no other thread's stage, and none of them sees the
\* newest epoch go.
LEMMA OneThread ==
  ASSUME WindowInv, NEW e \in Epoch, epochs' \in SUBSET Epoch, retention' = retention,
         NEW a \in {"none", "queued", "stored", "sized", "prune"}, NEW n \in Int,
         SetJob(e, a, n),
         \A m \in epochs : \E k \in epochs' : m <= k,
         ThreadOf(e)'
  PROVE  WindowInv'
<1>1. /\ job' = [job EXCEPT ![e] = [at |-> a, n |-> n]]
      /\ job \in [Epoch -> [at : {"none", "queued", "stored", "sized", "prune"}, n : Int]]
  BY DEF SetJob, WindowInv
<1>2. job' \in [Epoch -> [at : {"none", "queued", "stored", "sized", "prune"}, n : Int]]
  BY <1>1
<1>3. ASSUME NEW f \in Epoch, f # e PROVE ThreadOf(f)'
<2>1. job'[f] = job[f] /\ ThreadOf(f) /\ epochs \in SUBSET Epoch
  BY <1>1, <1>3 DEF WindowInv
<2> QED
  BY <2>1, ThreadKept
<1> QED
  BY <1>2, <1>3 DEF WindowInv

\* What a step of SetJob gives the thread.
LEMMA JobSet ==
  ASSUME WindowInv, NEW e \in Epoch, NEW a, NEW n, SetJob(e, a, n)
  PROVE  job'[e] = [at |-> a, n |-> n]
  BY DEF SetJob, WindowInv

\* What a thread deletes lies below the window that ends at the newest epoch, so
\* that the newest epoch stays (_prune).
LEMMA DeletedBelow ==
  ASSUME WindowInv, NEW e \in Epoch, PruneDelete(e)
  PROVE  /\ \A m \in epochs : \E k \in epochs' : m <= k
         /\ \A f \in epochs \ epochs' : f <= Max(epochs) - LowestRetention
<1> DEFINE n == job[e].n
<1>1. /\ epochs' = {f \in epochs : f >= n} /\ epochs \in SUBSET Nat
      /\ n \in Int /\ LowestRetention \in Nat \ {0}
      /\ epochs \in SUBSET Epoch
  BY LowestFacts, SidecarAssumption DEF WindowInv, ThreadOf, PruneDelete, Epoch
<1>2. PICK m \in epochs : n <= m - LowestRetention + 1
  BY DEF WindowInv, ThreadOf, PruneDelete
<1>3. Max(epochs) \in epochs /\ m <= Max(epochs)
  BY <1>1, <1>2, MaxFacts
<1> HIDE DEF n
<1>4. m \in epochs'
  BY <1>1, <1>2
<1>5. ASSUME NEW f \in epochs PROVE \E k \in epochs' : f <= k
<2>1. CASE f >= n
  BY <1>1, <2>1
<2>2. CASE f < n
  BY <1>1, <1>2, <1>4, <2>2
<2> QED
  BY <1>1, <2>1, <2>2
<1>6. ASSUME NEW f \in epochs \ epochs' PROVE f <= Max(epochs) - LowestRetention
<2>1. f \in epochs /\ f \notin epochs'
  BY <1>6
<2>2. f \in Nat /\ m \in Nat /\ Max(epochs) \in Nat /\ n \in Int
  BY <1>1, <1>3, <2>1
<2>3. f < n
  BY <1>1, <2>1, <2>2
<2> QED
  BY <1>1, <1>2, <1>3, <2>2, <2>3
<1> QED
  BY <1>5, <1>6

\* The newest epoch a thread finds is never below its own (_prune, max_epoch).
LEMMA PruneFromBelow ==
  ASSUME WindowInv, NEW e \in Epoch, job[e].at = "sized"
  PROVE  /\ PruneFrom(e, job[e].n) \in Int
         /\ \E m \in epochs : PruneFrom(e, job[e].n) <= m - LowestRetention + 1
<1> DEFINE r == job[e].n
<1>1. /\ r \in Nat /\ LowestRetention <= r /\ LowestRetention \in Nat
      /\ epochs \in SUBSET Epoch /\ epochs \in SUBSET Nat /\ e \in Nat
  BY LowestFacts, SidecarAssumption DEF WindowInv, ThreadOf, Epoch
<1>2. PICK m \in epochs : e <= m
  BY DEF WindowInv, ThreadOf
<1>3. Max(epochs) \in epochs
  BY <1>1, <1>2, MaxFacts
<1> HIDE DEF r
<1>4. CASE max_epoch = None
<2>1. PruneFrom(e, r) = e - r + 1
  BY <1>4 DEF PruneFrom
<2>2. m \in Nat
  BY <1>1
<2> QED
  BY <1>1, <1>2, <2>1, <2>2 DEF r
<1>5. CASE max_epoch # None
<2>1. PruneFrom(e, r) = max_epoch - r + 1
  BY <1>5 DEF PruneFrom
<2>2. max_epoch = Max(epochs)
  BY <1>2, <1>5 DEF max_epoch, OrNone
<2>3. Max(epochs) \in Nat
  BY <1>1, <1>3
<2> QED
  BY <1>1, <1>3, <2>1, <2>2, <2>3 DEF r
<1> QED
  BY <1>4, <1>5

-----------------------------------------------------------------------------
(* The window *)

\* Nothing is stored and no thread runs at first.
LEMMA WindowInit == Init => WindowInv
<1> SUFFICES ASSUME Init PROVE WindowInv
  OBVIOUS
<1>1. /\ epochs = {} /\ retention = InitRetention
      /\ job = [e \in Epoch |-> [at |-> "none", n |-> 0]]
  BY DEF Init, Idle
<1> QED
  BY <1>1 DEF WindowInv, ThreadOf

\* The stages of a thread: store, read the retention, read the newest epoch, delete.
LEMMA ThreadStep ==
  ASSUME WindowInv, NEW e \in Epoch, Thread(e)
  PROVE  WindowInv'
<1> USE DEF ThreadsOnly
<1>1. CASE StoreData(e)
<2>1. /\ epochs' = epochs \cup {e} /\ SetJob(e, "stored", 0) /\ retention' = retention
      /\ epochs \in SUBSET Epoch
  BY <1>1 DEF StoreData, WindowInv
<2>2. epochs' \in SUBSET Epoch /\ \A m \in epochs : \E k \in epochs' : m <= k
  BY <2>1, SidecarAssumption DEF Epoch
<2>3. e \in epochs' /\ e <= e
  BY <2>1, SidecarAssumption DEF Epoch
<2>4. job'[e] = [at |-> "stored", n |-> 0]
  BY <2>1, JobSet
<2>5. ThreadOf(e)'
  BY <2>3, <2>4 DEF ThreadOf
<2> QED
  BY <2>1, <2>2, <2>5, OneThread
<1>2. CASE PruneReadRetention(e)
<2>1. /\ epochs' = epochs /\ SetJob(e, "sized", retention) /\ retention' = retention
      /\ epochs \in SUBSET Epoch /\ job[e].at = "stored"
      /\ retention \in Retentions \cup {InitRetention} /\ retention \in Int
  BY <1>2, SidecarAssumption DEF PruneReadRetention, WindowInv
<2>2. epochs' \in SUBSET Epoch /\ \A m \in epochs : \E k \in epochs' : m <= k
  BY <2>1, SidecarAssumption DEF Epoch
<2>3. \E m \in epochs' : e <= m
  BY <2>1 DEF WindowInv, ThreadOf
<2>4. job'[e] = [at |-> "sized", n |-> retention]
  BY <2>1, JobSet
<2>5. ThreadOf(e)'
  BY <2>1, <2>3, <2>4 DEF ThreadOf
<2> QED
  BY <2>1, <2>2, <2>5, OneThread
<1>3. CASE PruneReadNewest(e)
<2>1. /\ epochs' = epochs /\ retention' = retention
      /\ epochs \in SUBSET Epoch /\ job[e].at = "sized"
      /\ \/ SetJob(e, "none", 0)
         \/ SetJob(e, "prune", PruneFrom(e, job[e].n))
  BY <1>3 DEF PruneReadNewest, WindowInv
<2>2. epochs' \in SUBSET Epoch /\ \A m \in epochs : \E k \in epochs' : m <= k
  BY <2>1, SidecarAssumption DEF Epoch
<2>3. CASE SetJob(e, "none", 0)
<3>1. job'[e] = [at |-> "none", n |-> 0]
  BY <2>3, JobSet
<3>2. ThreadOf(e)'
  BY <3>1 DEF ThreadOf
<3> QED
  BY <2>1, <2>2, <2>3, <3>2, OneThread
<2>4. CASE SetJob(e, "prune", PruneFrom(e, job[e].n))
<3> DEFINE p == PruneFrom(e, job[e].n)
<3>1. p \in Int /\ \E m \in epochs : p <= m - LowestRetention + 1
  BY <2>1, PruneFromBelow
<3>2. SetJob(e, "prune", p)
  BY <2>4
<3> HIDE DEF p
<3>3. job'[e] = [at |-> "prune", n |-> p]
  BY <3>2, JobSet
<3>4. \E m \in epochs' : e <= m
  BY <2>1 DEF WindowInv, ThreadOf
<3>5. LowestRetention' = LowestRetention
  BY DEF LowestRetention
<3>6. ThreadOf(e)'
  BY <2>1, <3>1, <3>3, <3>4, <3>5 DEF ThreadOf
<3> QED
  BY <2>1, <2>2, <3>1, <3>2, <3>6, OneThread
<2> QED
  BY <2>1, <2>3, <2>4
<1>4. CASE PruneDelete(e)
<2>1. /\ epochs' = {f \in epochs : f >= job[e].n} /\ SetJob(e, "none", 0)
      /\ retention' = retention /\ epochs \in SUBSET Epoch
  BY <1>4 DEF PruneDelete, WindowInv
<2>2. \A m \in epochs : \E k \in epochs' : m <= k
  BY <1>4, DeletedBelow
<2>3. job'[e] = [at |-> "none", n |-> 0]
  BY <2>1, JobSet
<2>4. ThreadOf(e)'
  BY <2>3 DEF ThreadOf
<2>5. epochs' \in SUBSET Epoch
  BY <2>1
<2> QED
  BY <2>1, <2>2, <2>4, <2>5, OneThread
<1> QED
  BY <1>1, <1>2, <1>3, <1>4 DEF Thread

\* Everything but the threads' own steps.
OtherStep ==
  \/ Collect
  \/ \E e \in Epoch : ThreadFails(e)
  \/ \E c \in Consumer : Consume(c) \/ RequestFails(c) \/ OthersReport(c)
  \/ TimerFires \/ CycleFails \/ Crash
  \/ Finalize
  \/ \E r \in Retentions : SetRetention(r)
  \/ UNCHANGED vars

\* None of those steps touches the table, or gives a thread something to store or
\* delete; the administrator sets one of Retentions.
LEMMA OtherStepKeeps ==
  ASSUME WindowInv, OtherStep
  PROVE  /\ epochs' = epochs
         /\ retention' \in Retentions \cup {InitRetention}
         /\ job' \in [Epoch -> [at : {"none", "queued", "stored", "sized", "prune"}, n : Int]]
         /\ \A e \in Epoch : job'[e] = job[e] \/ job'[e].at \in {"none", "queued"}
<1> USE DEF dbVars, collectorVars, consumerVars, chainVars, ThreadsOnly, ReadsOnly
<1> DEFINE Jobs == [Epoch -> [at : {"none", "queued", "stored", "sized", "prune"}, n : Int]]
<1>1. /\ retention \in Retentions \cup {InitRetention}
      /\ job \in Jobs
  BY DEF WindowInv
<1>2. ASSUME UNCHANGED <<epochs, retention, job>>
      PROVE  /\ epochs' = epochs
             /\ retention' \in Retentions \cup {InitRetention}
             /\ job' \in Jobs
             /\ \A e \in Epoch : job'[e] = job[e] \/ job'[e].at \in {"none", "queued"}
  BY <1>1, <1>2
<1>3. ASSUME UNCHANGED <<epochs, retention>>, job' = [e \in Epoch |-> Idle]
      PROVE  /\ job' \in Jobs
             /\ \A e \in Epoch : job'[e] = job[e] \/ job'[e].at \in {"none", "queued"}
  BY <1>3 DEF Idle
<1>4. CASE \E h \in Epoch : StartCycle(h)
  BY <1>2, <1>4 DEF StartCycle
<1>5. CASE ReadDemands \/ (\E d \in snapshot : LookAtDemand(d)) \/ ChooseStart \/ CheckDemands
  BY <1>2, <1>5 DEF ReadDemands, LookAtDemand, ChooseStart, CheckDemands
<1>6. CASE ProcessCheckpoint
<2>1. /\ UNCHANGED <<epochs, retention>>
      /\ job' = [e \in Epoch |-> IF e \in Checkpoint \ epochs
                                   THEN [Idle EXCEPT !.at = "queued"] ELSE Idle]
  BY <1>6 DEF ProcessCheckpoint
<2>2. [Idle EXCEPT !.at = "queued"] = [at |-> "queued", n |-> 0]
  BY DEF Idle
<2>3. \A e \in Epoch : job'[e] \in {[at |-> "queued", n |-> 0], [at |-> "none", n |-> 0]}
  BY <2>1, <2>2 DEF Idle
<2>4. job' \in Jobs
  BY <2>1, <2>2 DEF Idle
<2> QED
  BY <1>1, <2>1, <2>3, <2>4
<1>7. CASE Shutdown
<2>1. CASE Restart
  BY <1>1, <1>3, <2>1 DEF Restart
<2>2. CASE /\ job' = [e \in Epoch |-> IF Started(e) THEN job[e] ELSE Idle]
           /\ ThreadsOnly /\ UNCHANGED <<epochs, broken>>
<3>1. \A e \in Epoch : job'[e] = job[e] \/ job'[e] = [at |-> "none", n |-> 0]
  BY <2>2 DEF Idle
<3>2. job' \in Jobs
  BY <1>1, <2>2 DEF Idle
<3> QED
  BY <1>1, <2>2, <3>1, <3>2
<2> QED
  BY <1>7, <2>1, <2>2 DEF Shutdown
<1>8. ASSUME NEW e \in Epoch, ThreadFails(e)
      PROVE  /\ UNCHANGED <<epochs, retention>>
             /\ job' \in Jobs
             /\ \A f \in Epoch : job'[f] = job[f] \/ job'[f].at \in {"none", "queued"}
<2>1. job' = [job EXCEPT ![e] = [at |-> "none", n |-> 0]] /\ UNCHANGED <<epochs, retention>>
  BY <1>8 DEF ThreadFails, SetJob
<2> QED
  BY <1>1, <2>1
<1>9. CASE TimerFires \/ CycleFails
  BY <1>2, <1>9 DEF TimerFires, CycleFails
<1>10. CASE Crash
  BY <1>1, <1>3, <1>10 DEF Crash, Restart
<1>11. ASSUME NEW c \in Consumer, Consume(c) \/ RequestFails(c) \/ OthersReport(c)
       PROVE  UNCHANGED <<epochs, retention, job>>
  BY <1>11 DEF Consume, RequestFails, OthersReport, StartConsumer, ReadOwnDemand, CheckSpan,
       CheckNewest, PostDemand, CheckReport, Recheck, FetchBatch, SubmitReport
<1>12. CASE Finalize
  BY <1>2, <1>12 DEF Finalize
<1>13. ASSUME NEW r \in Retentions, SetRetention(r)
       PROVE  retention' \in Retentions /\ UNCHANGED <<epochs, job>>
  BY <1>13 DEF SetRetention
<1>14. CASE UNCHANGED vars
  BY <1>2, <1>14 DEF vars
<1> HIDE DEF Jobs
<1>15. CASE Collect
  BY <1>4, <1>5, <1>6, <1>7, <1>15 DEF Collect, Jobs
<1>16. CASE \E e \in Epoch : ThreadFails(e)
  BY <1>1, <1>8, <1>16 DEF Jobs
<1>17. CASE \E c \in Consumer : Consume(c) \/ RequestFails(c) \/ OthersReport(c)
  BY <1>2, <1>11, <1>17 DEF Jobs
<1>18. CASE \E r \in Retentions : SetRetention(r)
  BY <1>1, <1>13, <1>18 DEF Jobs
<1> QED
  BY <1>9, <1>10, <1>12, <1>14, <1>15, <1>16, <1>17, <1>18 DEF OtherStep, Jobs

\* A step is a thread's or another one.
LEMMA StepSplit ==
  ASSUME [Next]_vars
  PROVE  (\E e \in Epoch : Thread(e)) \/ OtherStep
  BY DEF Next, OtherStep

\* Every step keeps what the threads know.
LEMMA WindowStep == WindowInv /\ [Next]_vars => WindowInv'
<1> SUFFICES ASSUME WindowInv, [Next]_vars PROVE WindowInv'
  OBVIOUS
<1>1. CASE OtherStep
  BY <1>1, OtherStepKeeps, IdleStep
<1>2. CASE \E e \in Epoch : Thread(e)
  BY <1>2, ThreadStep
<1> QED
  BY <1>1, <1>2, StepSplit

\* At every moment, whatever order the threads ran in, a thread about to delete
\* deletes only below the retained window (store_epoch, _prune).
THEOREM WindowInvariant == Spec => []WindowInv
<1> QED
  BY WindowInit, WindowStep, PTL DEF Spec

\* For every retention and every change of it, every checkpoint size and number of
\* workers, crashes and failures included, no step of the system deletes an epoch of
\* the window of LowestRetention epochs that ends at the newest stored one (_prune).
THEOREM WindowIsKept == Spec => RetainedWindowIsKept
<1> DEFINE Kept == \A f \in epochs \ epochs' : f <= Max(epochs) - LowestRetention
<1>1. ASSUME WindowInv, [Next]_vars PROVE Kept
<2>1. CASE OtherStep
  BY <1>1, <2>1, OtherStepKeeps
<2>2. ASSUME NEW e \in Epoch, Thread(e) PROVE Kept
<3>1. CASE PruneDelete(e)
  BY <1>1, <3>1, DeletedBelow
<3>2. CASE ~PruneDelete(e)
<4>1. epochs \subseteq epochs'
  BY <2>2, <3>2 DEF Thread, StoreData, PruneReadRetention, PruneReadNewest
<4> QED
  BY <4>1
<3> QED
  BY <3>1, <3>2
<2> QED
  BY <1>1, <2>1, <2>2, StepSplit
<1>2. WindowInv /\ [Next]_vars
        => [\A e \in epochs \ epochs' : e <= Max(epochs) - LowestRetention]_vars
  BY <1>1
<1> QED
  BY <1>2, WindowInvariant, PTL DEF Spec, RetainedWindowIsKept

-----------------------------------------------------------------------------
(* The values of the variables *)

\* Division as the frames use it: the multiple of b at or below a.
LEMMA MultipleBelow ==
  ASSUME NEW a \in Nat, NEW b \in Nat \ {0}
  PROVE  /\ a \div b \in Nat
         /\ 0 <= (a \div b) * b /\ (a \div b) * b <= a
  OBVIOUS

\* The current frame starts between the first one and the head (FrameConfig).
LEMMA FrameStartBounds ==
  ASSUME NEW c \in Consumer, NEW h \in Int, FirstFrame[c] <= h
  PROVE  /\ FrameStart(c, h) \in Nat
         /\ FirstFrame[c] <= FrameStart(c, h) /\ FrameStart(c, h) <= h
<1>1. FirstFrame[c] \in Nat /\ FrameLen[c] \in Nat \ {0} /\ h - FirstFrame[c] \in Nat
  BY SidecarAssumption
<1> DEFINE a == h - FirstFrame[c]
           b == FrameLen[c]
           m == (a \div b) * b
<1>2. FrameStart(c, h) = FirstFrame[c] + m
  BY DEF FrameStart
<1>3. a \in Nat /\ b \in Nat \ {0}
  BY <1>1
<1> HIDE DEF a, b
<1>4. 0 <= m /\ m <= a /\ m \in Int
<2>1. a \div b \in Nat /\ 0 <= m /\ m <= a
  BY <1>3, MultipleBelow
<2> QED
  BY <1>3, <2>1
<1> HIDE DEF m
<1> QED
  BY <1>1, <1>2, <1>4 DEF a

Jobs == [Epoch -> [at : {"none", "queued", "stored", "sized", "prune"}, n : Nat]]

Steps == {"idle", "demand", "retention", "newest", "store",
          "report", "recheck", "fetch", "submit"}

\* What lands on chain leaves a later epoch to report.
ChainType ==
  /\ head \in Epoch
  /\ landed \in [Consumer -> 0 .. MaxHead - 1]
  /\ visible \in [Consumer -> 0 .. MaxHead - 1]

DbType ==
  /\ epochs \subseteq Epoch
  /\ demands \in [Consumer -> EpochRange \cup {None}]
  /\ retention \in Nat \ {0}

\* A checkpoint to be processed has an epoch.
PlanType ==
  /\ pc \in {"idle", "read", "plan", "checkpoint", "threads"}
  /\ threshold \in Epoch \cup {-1}
  /\ cycle \in Epoch /\ start \in Epoch
  /\ pc = "checkpoint" => start <= MaxAvailable(cycle)

CollectorType ==
  /\ PlanType
  /\ snapshot \subseteq [c : Consumer, r : EpochRange]
  /\ job \in Jobs /\ broken \in BOOLEAN
  /\ fresh \subseteq Consumer /\ seen \in 0..Cardinality(Consumer)

\* A consumer in its cycle has a range, and has seen the first frame; the range it
\* fetches ends at a finalized epoch.
ConsumerType ==
  /\ step \in [Consumer -> Steps]
  /\ waited \in [Consumer -> Epoch \cup {-1}]
  /\ from \in [Consumer -> Epoch]
  /\ range \in [Consumer -> EpochRange \cup {None}]
  /\ limit \in [Consumer -> Nat]
  /\ \A c \in Consumer :
       /\ step[c] # "idle" => range[c] \in EpochRange /\ FirstFrame[c] <= from[c]
       /\ step[c] \in {"recheck", "fetch"} => range[c].to \in Epoch

TypeInv ==
  /\ ChainType /\ DbType /\ CollectorType /\ ConsumerType
  /\ faults \in 0..MaxFaults

LEMMA TypeInvImpliesTypeOK == TypeInv => TypeOK
<1> SUFFICES ASSUME TypeInv PROVE TypeOK
  OBVIOUS
<1>1. 0 .. MaxHead - 1 \subseteq Epoch
  BY SidecarAssumption DEF Epoch
<1>2. landed \in [Consumer -> Epoch] /\ visible \in [Consumer -> Epoch]
  BY <1>1 DEF TypeInv, ChainType
<1> QED
  BY <1>2 DEF TypeOK, TypeInv, ChainType, DbType, CollectorType, PlanType, ConsumerType, Jobs, Steps

\* The chain has at least one epoch below a head that some frame has reached.
LEMMA TypeInit == Init => TypeInv
<1> SUFFICES ASSUME Init PROVE TypeInv
  OBVIOUS
<1> USE DEF Init
<1>1. ChainType
<2>1. \A c \in Consumer : FirstFrame[c] - FrameLen[c] - 1 \in 0 .. MaxHead - 1
  BY SidecarAssumption
<2> QED
  BY <2>1, SidecarAssumption DEF ChainType, Epoch
<1>2. DbType
  BY SidecarAssumption DEF DbType
<1>3. CollectorType
<2>1. Cardinality(Consumer) \in Nat
  BY FS_CardinalityType, SidecarAssumption
<2>2. job \in Jobs
  BY DEF Jobs, Idle
<2>3. PlanType
  BY SidecarAssumption DEF PlanType, Epoch
<2>4. snapshot \subseteq [c : Consumer, r : EpochRange] /\ fresh \subseteq Consumer
  OBVIOUS
<2>5. seen \in 0..Cardinality(Consumer)
  BY <2>1
<2>6. broken \in BOOLEAN
  OBVIOUS
<2> HIDE DEF Init
<2> QED
  BY <2>2, <2>3, <2>4, <2>5, <2>6 DEF CollectorType
<1>4. ConsumerType
<2>1. 0 \in Epoch
  BY SidecarAssumption DEF Epoch
<2>2. \A c \in Consumer : step[c] = "idle"
  OBVIOUS
<2> QED
  BY <2>1, <2>2 DEF ConsumerType, Steps
<1> QED
  BY <1>1, <1>2, <1>3, <1>4, SidecarAssumption DEF TypeInv

\* Cardinality of the demands, as last_demands_count keeps it.
LEMMA DemandsCountType == demands_count \in 0..Cardinality(Consumer)
  BY FS_CardinalityType, FS_Subset, SidecarAssumption DEF demands_count

\* What the two queries for the oldest and the newest epoch return.
LEMMA QueriesType ==
  ASSUME epochs \subseteq Epoch
  PROVE  /\ min_epoch \in Epoch \cup {None}
         /\ max_epoch \in Epoch \cup {None}
<1>1. CASE epochs = {}
  BY <1>1 DEF min_epoch, max_epoch
<1>2. CASE epochs # {}
<2>1. epochs \in SUBSET Epoch /\ epochs \in SUBSET Nat
  BY SidecarAssumption DEF Epoch
<2>2. Min(epochs) \in epochs /\ Max(epochs) \in epochs
  BY <1>2, <2>1, MinFacts, MaxFacts
<2> QED
  BY <1>2, <2>1, <2>2 DEF min_epoch, max_epoch, OrNone
<1> QED
  BY <1>1, <1>2

\* The range of a demand: from what is reported to the end of the current frame.
LEMMA PredictedRangeType ==
  ASSUME TypeInv, NEW c \in Consumer, FirstFrame[c] <= head
  PROVE  PredictedRange(c, head) \in EpochRange
<1>1. FrameStart(c, head) \in Nat /\ FirstFrame[c] \in Nat /\ FrameLen[c] \in Nat
      /\ FirstFrame[c] <= FrameStart(c, head) /\ FirstFrame[c] > FrameLen[c]
  BY FrameStartBounds, SidecarAssumption DEF TypeInv, ChainType, Epoch
<1>2. visible[c] + 1 \in Epoch
  BY SidecarAssumption DEF TypeInv, ChainType, Epoch
<1>3. RefEpoch(c, head) + FrameLen[c] \in Nat
  BY <1>1 DEF RefEpoch
<1> QED
  BY <1>2, <1>3 DEF PredictedRange, EpochRange

\* The reference epoch of a cycle is below its head.
LEMMA RefEpochType ==
  ASSUME NEW c \in Consumer, NEW h \in Epoch, FirstFrame[c] <= h
  PROVE  RefEpoch(c, h) \in 0 .. MaxHead - 1
<1>1. FrameStart(c, h) \in Nat /\ FirstFrame[c] \in Nat /\ FirstFrame[c] > 0
      /\ FirstFrame[c] <= FrameStart(c, h) /\ FrameStart(c, h) <= h
      /\ h \in 0..MaxHead /\ MaxHead \in Nat
  BY FrameStartBounds, SidecarAssumption DEF Epoch
<1> QED
  BY <1>1 DEF RefEpoch

\* The larger of two reported epochs (Land).
LEMMA LandType ==
  ASSUME TypeInv, NEW c \in Consumer, NEW e \in 0 .. MaxHead - 1, Land(c, e)
  PROVE  landed' \in [Consumer -> 0 .. MaxHead - 1]
<1>1. landed[c] \in 0 .. MaxHead - 1 /\ landed \in [Consumer -> 0 .. MaxHead - 1]
      /\ landed' = [landed EXCEPT ![c] = Max({landed[c], e})]
      /\ {landed[c], e} \in SUBSET Epoch
  BY SidecarAssumption DEF TypeInv, ChainType, Land, Epoch
<1>2. Max({landed[c], e}) \in 0 .. MaxHead - 1
  BY <1>1, MaxFacts
<1> QED
  BY <1>1, <1>2

LEMMA ChainKept == ASSUME TypeInv, UNCHANGED chainVars PROVE ChainType'
  BY DEF TypeInv, ChainType, chainVars

LEMMA DbKept == ASSUME TypeInv, UNCHANGED dbVars PROVE DbType'
  BY DEF TypeInv, DbType, dbVars

LEMMA CollectorKept == ASSUME TypeInv, UNCHANGED collectorVars PROVE CollectorType'
  BY DEF TypeInv, CollectorType, PlanType, collectorVars, MaxAvailable

LEMMA ConsumerKept == ASSUME TypeInv, UNCHANGED consumerVars PROVE ConsumerType'
  BY DEF TypeInv, ConsumerType, consumerVars

LEMMA FaultCounted ==
  ASSUME TypeInv, Fault \/ UNCHANGED faults
  PROVE  faults' \in 0..MaxFaults
  BY SidecarAssumption DEF TypeInv, Fault

\* The plan's own steps and the checkpoints touch the collector, but for the
\* demands they delete.
LEMMA PlanStepType ==
  ASSUME TypeInv,
         \/ \E h \in Epoch : StartCycle(h)
         \/ ReadDemands
         \/ \E d \in snapshot : LookAtDemand(d)
         \/ ChooseStart
  PROVE  TypeInv'
<1> USE DEF TypeInv
<1>0. /\ pc \in {"idle", "read", "plan", "checkpoint", "threads"}
      /\ threshold \in Epoch \cup {-1}
      /\ cycle \in Epoch /\ start \in Epoch
      /\ pc = "checkpoint" => start <= MaxAvailable(cycle)
      /\ snapshot \subseteq [c : Consumer, r : EpochRange]
      /\ job \in Jobs /\ broken \in BOOLEAN
      /\ fresh \subseteq Consumer /\ seen \in 0..Cardinality(Consumer)
      /\ 0 \in Epoch /\ MaxHead \in Nat /\ Epoch = 0..MaxHead
  BY SidecarAssumption DEF CollectorType, PlanType, Epoch
<1>1. ASSUME NEW h \in Epoch, StartCycle(h) PROVE TypeInv'
<2>1. UNCHANGED <<dbVars, job, broken, fresh, seen, consumerVars, chainVars>>
      /\ (Fault \/ UNCHANGED faults)
  BY <1>1 DEF StartCycle
<2>2. MaxAvailable(h) < 0 \/ MaxAvailable(h) \in Epoch
  BY <1>0 DEF MaxAvailable
<2>3. min_epoch \in Epoch \cup {None}
  BY QueriesType DEF DbType
<2>4. PlanType' /\ snapshot' \subseteq snapshot
<3>1. CASE EndCycle /\ (threshold' = h \/ UNCHANGED threshold)
  BY <1>0, <3>1 DEF EndCycle, PlanType
<3>2. CASE /\ ~(MaxAvailable(h) < 0)
           /\ pc' = "read" /\ cycle' = h
           /\ start' = IF min_epoch = None THEN MaxAvailable(h) ELSE min_epoch
           /\ UNCHANGED <<threshold, snapshot>>
<4>1. start' \in Epoch
  BY <2>2, <2>3, <3>2
<4> QED
  BY <1>0, <3>2, <4>1 DEF PlanType
<3> QED
  BY <1>1, <3>1, <3>2 DEF StartCycle
<2>5. CollectorType'
  BY <1>0, <2>1, <2>4 DEF CollectorType
<2> QED
  BY <2>1, <2>5, ChainKept, DbKept, ConsumerKept, FaultCounted
<1>2. CASE ReadDemands
<2>1. UNCHANGED <<threshold, cycle, start, job, broken, fresh, seen, dbVars,
                  consumerVars, chainVars, faults>>
      /\ pc' = "plan"
      /\ snapshot' = {[c |-> c, r |-> demands[c]] : c \in {d \in Consumer : demands[d] # None}}
  BY <1>2 DEF ReadDemands
<2>2. \A c \in Consumer : demands[c] # None => demands[c] \in EpochRange
  BY DEF DbType
<2>3. snapshot' \subseteq [c : Consumer, r : EpochRange]
  BY <2>1, <2>2
<2>4. PlanType'
  BY <1>0, <2>1 DEF PlanType
<2>5. CollectorType'
  BY <1>0, <2>1, <2>3, <2>4 DEF CollectorType
<2> QED
  BY <2>1, <2>5, ChainKept, DbKept, ConsumerKept, FaultCounted
<1>3. ASSUME NEW d \in snapshot, LookAtDemand(d) PROVE TypeInv'
<2>1. /\ UNCHANGED <<pc, threshold, cycle, job, broken, seen, epochs, retention,
                     consumerVars, chainVars, faults>>
      /\ pc = "plan" /\ snapshot' = snapshot \ {d}
      /\ \/ DeleteDemand(d.c) /\ UNCHANGED start
         \/ start' = Min({start, d.r.from}) /\ UNCHANGED <<demands, fresh>>
  BY <1>3 DEF LookAtDemand
<2>2. d.c \in Consumer /\ d.r.from \in Epoch
  BY <1>0 DEF EpochRange
<2>3. demands' \in [Consumer -> EpochRange \cup {None}] /\ fresh' \subseteq Consumer
  BY <1>0, <2>1 DEF DeleteDemand, DbType
<2>4. DbType'
  BY <2>1, <2>3 DEF DbType
<2>5. start' \in Epoch
<3>1. {start, d.r.from} \in SUBSET Nat
  BY <1>0, <2>2
<3>2. Min({start, d.r.from}) \in {start, d.r.from}
  BY <3>1, MinFacts
<3> QED
  BY <1>0, <2>1, <2>2, <3>2
<2>6. PlanType'
  BY <1>0, <2>1, <2>5 DEF PlanType
<2>7. CollectorType'
  BY <1>0, <2>1, <2>3, <2>6 DEF CollectorType
<2> QED
  BY <2>1, <2>4, <2>7, ChainKept, ConsumerKept, FaultCounted
<1>4. CASE ChooseStart
<2>1. /\ UNCHANGED <<job, broken, fresh, seen, dbVars, consumerVars, chainVars, faults>>
      /\ \/ /\ Missing # {} /\ start' = Min(Missing) /\ pc' = "checkpoint"
            /\ UNCHANGED <<threshold, cycle, snapshot>>
         \/ EndCycle /\ threshold' \in {threshold, cycle}
  BY <1>4 DEF ChooseStart
<2>2. PlanType' /\ snapshot' \subseteq snapshot
<3>1. CASE EndCycle /\ threshold' \in {threshold, cycle}
  BY <1>0, <3>1 DEF EndCycle, PlanType
<3>2. CASE /\ Missing # {} /\ start' = Min(Missing) /\ pc' = "checkpoint"
           /\ UNCHANGED <<threshold, cycle, snapshot>>
<4>1. Missing \in SUBSET Nat /\ \A e \in Missing : e \in Epoch /\ e <= MaxAvailable(cycle)
  BY <1>0 DEF Missing, MaxAvailable
<4>2. start' \in Epoch /\ start' <= MaxAvailable(cycle)
  BY <3>2, <4>1, MinFacts
<4> QED
  BY <1>0, <3>2, <4>2 DEF PlanType
<3> QED
  BY <2>1, <3>1, <3>2
<2>3. CollectorType'
  BY <1>0, <2>1, <2>2 DEF CollectorType
<2> QED
  BY <2>1, <2>3, ChainKept, DbKept, ConsumerKept, FaultCounted
<1> QED
  BY <1>1, <1>2, <1>3, <1>4

\* The first and the last epoch of a checkpoint (FrameCheckpointsIterator).
LEMMA CheckpointFacts ==
  ASSUME start \in Nat, cycle \in Epoch, start <= MaxAvailable(cycle)
  PROVE  /\ Checkpoint \in SUBSET Epoch /\ start \in Checkpoint
         /\ Checkpoint = start .. Max(Checkpoint)
         /\ start <= Max(Checkpoint) /\ Max(Checkpoint) <= MaxAvailable(cycle)
         /\ Max(Checkpoint) \in Nat
<1> DEFINE last == Min({start + MaxStep - 1, MaxAvailable(cycle)})
<1>1. MaxAvailable(cycle) \in Nat /\ MaxAvailable(cycle) + 3 <= MaxHead /\ MaxHead \in Nat
      /\ MaxStep \in Nat \ {0}
  BY SidecarAssumption DEF MaxAvailable, Epoch
<1>2. {start + MaxStep - 1, MaxAvailable(cycle)} \in SUBSET Nat
  BY <1>1
<1>3. last \in {start + MaxStep - 1, MaxAvailable(cycle)} /\ last <= MaxAvailable(cycle)
  BY <1>2, MinFacts
<1> HIDE DEF last
<1>4. last \in Nat /\ start <= last
  BY <1>1, <1>3
<1>5. Checkpoint = start..last
  BY DEF Checkpoint, last
<1>6. Checkpoint \in SUBSET Epoch /\ start \in Checkpoint /\ last \in Checkpoint
  BY <1>1, <1>3, <1>4, <1>5 DEF Epoch
<1>7. Max(Checkpoint) = last
<2>1. Max(Checkpoint) \in Checkpoint /\ last <= Max(Checkpoint)
  BY <1>6, MaxFacts
<2> QED
  BY <1>4, <1>5, <2>1
<1> QED
  BY <1>3, <1>4, <1>5, <1>6, <1>7

\* A checkpoint and its end, restarts and failures of the collector.
LEMMA CheckpointStepType ==
  ASSUME TypeInv,
         ProcessCheckpoint \/ CheckDemands \/ Shutdown \/ Crash \/ CycleFails \/ TimerFires
  PROVE  TypeInv'
<1> USE DEF TypeInv
<1>0. /\ pc \in {"idle", "read", "plan", "checkpoint", "threads"}
      /\ threshold \in Epoch \cup {-1}
      /\ cycle \in Epoch /\ start \in Epoch
      /\ pc = "checkpoint" => start <= MaxAvailable(cycle)
      /\ snapshot \subseteq [c : Consumer, r : EpochRange]
      /\ job \in Jobs /\ broken \in BOOLEAN
      /\ fresh \subseteq Consumer /\ seen \in 0..Cardinality(Consumer)
      /\ 0 \in Epoch /\ MaxHead \in Nat /\ Epoch = 0..MaxHead
  BY SidecarAssumption DEF CollectorType, PlanType, Epoch
<1>1. demands_count \in 0..Cardinality(Consumer)
  BY DemandsCountType
<1>2. ASSUME EndCycle, threshold' \in Epoch \cup {-1}
      PROVE  PlanType' /\ snapshot' \subseteq snapshot
  BY <1>0, <1>2 DEF EndCycle, PlanType
<1>3. CASE ProcessCheckpoint
<2>1. /\ UNCHANGED <<threshold, cycle, snapshot, broken, fresh, seen, dbVars,
                     consumerVars, chainVars, faults>>
      /\ pc = "checkpoint" /\ pc' = "threads" /\ start' = Max(Checkpoint) + 1
      /\ job' = [e \in Epoch |-> IF e \in Checkpoint \ epochs
                                   THEN [Idle EXCEPT !.at = "queued"] ELSE Idle]
  BY <1>3 DEF ProcessCheckpoint
<2>2. Max(Checkpoint) \in Nat /\ Max(Checkpoint) <= cycle - 1 - 2
  BY <1>0, <2>1, CheckpointFacts DEF MaxAvailable
<2>3. PlanType'
  BY <1>0, <2>1, <2>2 DEF PlanType
<2>4. job' \in Jobs
  BY <2>1 DEF Jobs, Idle
<2>5. CollectorType'
  BY <1>0, <2>1, <2>3, <2>4 DEF CollectorType
<2> QED
  BY <2>1, <2>5, ChainKept, DbKept, ConsumerKept, FaultCounted
<1>4. CASE CheckDemands
<2>1. /\ UNCHANGED <<job, broken, dbVars, consumerVars, chainVars, faults>>
      /\ fresh' \in {{}, fresh} /\ seen' \in {seen, demands_count}
      /\ \/ EndCycle /\ threshold' \in {threshold, cycle}
         \/ /\ pc' = "checkpoint" /\ UNCHANGED <<threshold, cycle, start, snapshot>>
            /\ ~(start > MaxAvailable(cycle))
  BY <1>4 DEF CheckDemands
<2>2. PlanType' /\ snapshot' \subseteq snapshot
<3>1. CASE EndCycle /\ threshold' \in {threshold, cycle}
  BY <1>0, <1>2, <3>1
<3>2. CASE /\ pc' = "checkpoint" /\ UNCHANGED <<threshold, cycle, start, snapshot>>
           /\ ~(start > MaxAvailable(cycle))
  BY <1>0, <3>2 DEF PlanType, MaxAvailable
<3> QED
  BY <2>1, <3>1, <3>2
<2>3. CollectorType'
  BY <1>0, <1>1, <2>1, <2>2 DEF CollectorType
<2> QED
  BY <2>1, <2>3, ChainKept, DbKept, ConsumerKept, FaultCounted
<1>5. ASSUME Restart PROVE /\ CollectorType'
                           /\ UNCHANGED <<dbVars, consumerVars, chainVars>>
<2>1. /\ EndCycle /\ threshold' = -1 /\ job' = [e \in Epoch |-> Idle] /\ broken' = FALSE
      /\ fresh' = {} /\ seen' = demands_count
      /\ UNCHANGED <<dbVars, consumerVars, chainVars>>
  BY <1>5 DEF Restart
<2>2. job' \in Jobs
  BY <2>1 DEF Jobs, Idle
<2>3. PlanType' /\ snapshot' \subseteq snapshot
  BY <1>2, <2>1
<2> QED
  BY <1>0, <1>1, <2>1, <2>2, <2>3 DEF CollectorType
<1>6. CASE Shutdown \/ Crash
<2>1. CASE Restart /\ (Fault \/ UNCHANGED faults)
  BY <1>5, <2>1, ChainKept, DbKept, ConsumerKept, FaultCounted
<2>2. CASE /\ job' = [e \in Epoch |-> IF Started(e) THEN job[e] ELSE Idle]
           /\ ThreadsOnly /\ UNCHANGED <<epochs, broken, faults>>
<3>1. job' \in Jobs
  BY <1>0, <2>2 DEF Jobs, Idle
<3>2. CollectorType'
  BY <1>0, <2>2, <3>1 DEF CollectorType, PlanType, ThreadsOnly, MaxAvailable
<3> QED
  BY <2>2, <3>2, ChainKept, DbKept, ConsumerKept, FaultCounted DEF ThreadsOnly, dbVars
<2> QED
  BY <1>6, <2>1, <2>2 DEF Shutdown, Crash
<1>7. CASE CycleFails
<2>1. /\ EndCycle /\ Fault
      /\ UNCHANGED <<threshold, job, broken, fresh, seen, dbVars, consumerVars, chainVars>>
  BY <1>7 DEF CycleFails
<2>2. CollectorType'
  BY <1>0, <1>2, <2>1 DEF CollectorType
<2> QED
  BY <2>1, <2>2, ChainKept, DbKept, ConsumerKept, FaultCounted
<1>8. CASE TimerFires
<2>1. broken' = TRUE /\ ThreadsOnly /\ UNCHANGED <<epochs, job>> /\ Fault
  BY <1>8 DEF TimerFires
<2>2. CollectorType'
  BY <1>0, <2>1 DEF CollectorType, PlanType, ThreadsOnly, MaxAvailable
<2> QED
  BY <2>1, <2>2, ChainKept, DbKept, ConsumerKept, FaultCounted DEF ThreadsOnly, dbVars
<1> QED
  BY <1>3, <1>4, <1>6, <1>7, <1>8

\* A thread's step stores or deletes epochs and gives the thread its next stage.
LEMMA ThreadStepType ==
  ASSUME TypeInv, NEW e \in Epoch, Thread(e) \/ ThreadFails(e)
  PROVE  TypeInv'
<1> USE DEF TypeInv
<1>1. /\ ThreadsOnly /\ (Fault \/ UNCHANGED faults) /\ broken' \in {broken, TRUE}
      /\ epochs' \subseteq epochs \cup {e}
      /\ \E a \in {"none", "queued", "stored", "sized", "prune"}, n \in Nat : SetJob(e, a, n)
<2>1. CASE StoreData(e)
  BY <2>1 DEF StoreData
<2>2. CASE PruneReadRetention(e)
  BY <2>2 DEF PruneReadRetention, DbType
<2>3. CASE PruneReadNewest(e)
<3>1. /\ ThreadsOnly /\ UNCHANGED <<epochs, broken, faults>>
      /\ \/ SetJob(e, "none", 0)
         \/ /\ ~(PruneFrom(e, job[e].n) <= 0)
            /\ SetJob(e, "prune", PruneFrom(e, job[e].n))
  BY <2>3 DEF PruneReadNewest
<3>2. PruneFrom(e, job[e].n) \in Int
<4>1. max_epoch \in Epoch \cup {None} /\ job[e].n \in Nat
  BY QueriesType DEF DbType, CollectorType, Jobs
<4> QED
  BY <4>1, SidecarAssumption DEF PruneFrom, Epoch
<3> QED
  BY <3>1, <3>2
<2>4. CASE PruneDelete(e)
  BY <2>4 DEF PruneDelete
<2>5. CASE ThreadFails(e)
  BY <2>5 DEF ThreadFails
<2> QED
  BY <2>1, <2>2, <2>3, <2>4, <2>5 DEF Thread
<1>2. PICK a \in {"none", "queued", "stored", "sized", "prune"}, n \in Nat : SetJob(e, a, n)
  BY <1>1
<1>3. job' \in Jobs
<2>1. job \in Jobs
  BY DEF CollectorType
<2> QED
  BY <1>2, <2>1 DEF SetJob, Jobs
<1>4. CollectorType'
<2>1. PlanType'
  BY <1>1 DEF CollectorType, PlanType, ThreadsOnly, MaxAvailable
<2>2. UNCHANGED <<snapshot, fresh, seen>> /\ broken' \in {broken, TRUE}
  BY <1>1 DEF ThreadsOnly
<2> QED
  BY <1>3, <2>1, <2>2 DEF CollectorType
<1>5. DbType'
  BY <1>1 DEF DbType, ThreadsOnly
<1> QED
  BY <1>1, <1>4, <1>5, ChainKept, ConsumerKept, FaultCounted DEF ThreadsOnly

\* A consumer that leaves its cycle (Stay, Wait).
LEMMA LeaveType ==
  ASSUME TypeInv, NEW c \in Consumer, Stay(c) \/ Wait(c)
  PROVE  ConsumerType'
<1> USE DEF TypeInv
<1>1. /\ step' = [step EXCEPT ![c] = "idle"]
      /\ range' = [range EXCEPT ![c] = None]
      /\ from' = [from EXCEPT ![c] = 0]
      /\ limit' = [limit EXCEPT ![c] = 0]
      /\ waited' = waited \/ waited' = [waited EXCEPT ![c] = from[c]]
  BY DEF Stay, Wait, Leave, Goto
<1>2. 0 \in Epoch
  BY SidecarAssumption DEF Epoch
<1>3. waited' \in [Consumer -> Epoch \cup {-1}]
  BY <1>1 DEF ConsumerType
<1>4. from' \in [Consumer -> Epoch] /\ limit' \in [Consumer -> Nat]
      /\ range' \in [Consumer -> EpochRange \cup {None}]
      /\ step' \in [Consumer -> Steps]
  BY <1>1, <1>2 DEF ConsumerType, Steps
<1>5. step'[c] = "idle"
      /\ \A d \in Consumer \ {c} : step'[d] = step[d] /\ range'[d] = range[d] /\ from'[d] = from[d]
  BY <1>1 DEF ConsumerType
<1> QED
  BY <1>3, <1>4, <1>5 DEF ConsumerType

\* A consumer that goes on in its cycle with the range and the head it has.
LEMMA GoOnType ==
  ASSUME TypeInv, NEW c \in Consumer, step[c] # "idle",
         NEW l \in Steps, Goto(c, l),
         l \in {"recheck", "fetch"} => range[c].to \in Epoch,
         UNCHANGED <<waited, from, range>>,
         limit' \in [Consumer -> Nat]
  PROVE  ConsumerType'
<1>1. step' = [step EXCEPT ![c] = l] /\ step \in [Consumer -> Steps]
  BY DEF Goto, TypeInv, ConsumerType
<1>2. step' \in [Consumer -> Steps] /\ step'[c] = l
      /\ \A d \in Consumer \ {c} : step'[d] = step[d]
  BY <1>1
<1> QED
  BY <1>2 DEF TypeInv, ConsumerType

\* The requests of a consumer and what it reports.
LEMMA ConsumerStepType ==
  ASSUME TypeInv, NEW c \in Consumer, Consume(c) \/ RequestFails(c)
  PROVE  TypeInv'
<1> USE DEF TypeInv
<1>1. ASSUME Consume(c) \/ RequestFails(c), ~StartConsumer(c), ~PostDemand(c), ~SubmitReport(c)
      PROVE  UNCHANGED <<collectorVars, dbVars, chainVars>> /\ (Fault \/ UNCHANGED faults)
  BY <1>1 DEF Consume, RequestFails, ReadOwnDemand, CheckSpan, CheckNewest, CheckReport,
              Recheck, FetchBatch, ReadsOnly
<1>2. ASSUME ConsumerType', UNCHANGED <<collectorVars, dbVars, chainVars>>,
             Fault \/ UNCHANGED faults
      PROVE  TypeInv'
  BY <1>2, ChainKept, DbKept, CollectorKept, FaultCounted
<1>3. CASE StartConsumer(c)
<2>1. /\ range' = [range EXCEPT ![c] = PredictedRange(c, head)]
      /\ step' \in {[step EXCEPT ![c] = "report"], [step EXCEPT ![c] = "demand"]}
      /\ from' = [from EXCEPT ![c] = head]
      /\ UNCHANGED <<waited, limit, collectorVars, dbVars, chainVars, faults>>
      /\ FirstFrame[c] <= head /\ head \in Epoch
  BY <1>3, SidecarAssumption DEF StartConsumer, Goto, ReadsOnly, ChainType, Epoch
<2>2. PredictedRange(c, head) \in EpochRange
  BY <2>1, PredictedRangeType
<2> DEFINE r == PredictedRange(c, head)
<2>3. r \in EpochRange /\ range' = [range EXCEPT ![c] = r]
  BY <2>1, <2>2
<2> HIDE DEF r
<2>4. step' \in [Consumer -> Steps] /\ from' \in [Consumer -> Epoch]
      /\ range' \in [Consumer -> EpochRange \cup {None}]
  BY <2>1, <2>3 DEF ConsumerType, Steps
<2>5. /\ step'[c] \in {"report", "demand"} /\ range'[c] \in EpochRange /\ from'[c] = head
      /\ \A d \in Consumer \ {c} :
           step'[d] = step[d] /\ range'[d] = range[d] /\ from'[d] = from[d]
  BY <2>1, <2>3 DEF ConsumerType
<2>6. ConsumerType'
  BY <2>1, <2>4, <2>5 DEF ConsumerType
<2> QED
  BY <1>2, <2>1, <2>6
<1>4. CASE ReadOwnDemand(c)
<2>1. /\ step[c] = "demand" /\ UNCHANGED <<waited, from, range, limit>>
      /\ Goto(c, "report") \/ Goto(c, "retention")
  BY <1>4 DEF ReadOwnDemand
<2>2. ConsumerType'
  BY <2>1, GoOnType DEF ConsumerType, Steps
<2> QED
  BY <1>1, <1>2, <1>4, <2>1, <2>2 DEF StartConsumer, PostDemand, SubmitReport
<1>5. CASE CheckSpan(c)
<2>1. /\ step[c] = "retention"
      /\ \/ Stay(c)
         \/ /\ Goto(c, "newest") /\ limit' = [limit EXCEPT ![c] = retention]
            /\ UNCHANGED <<waited, from, range>>
  BY <1>5 DEF CheckSpan
<2>2. [limit EXCEPT ![c] = retention] \in [Consumer -> Nat]
  BY DEF ConsumerType, DbType
<2>3. ConsumerType'
  BY <2>1, <2>2, GoOnType, LeaveType DEF Steps
<2> QED
  BY <1>1, <1>2, <1>5, <2>1, <2>3 DEF StartConsumer, PostDemand, SubmitReport
<1>6. CASE CheckNewest(c)
<2>1. /\ step[c] = "newest"
      /\ Stay(c) \/ (Goto(c, "store") /\ UNCHANGED <<waited, from, range, limit>>)
  BY <1>6 DEF CheckNewest
<2>2. ConsumerType'
  BY <2>1, GoOnType, LeaveType DEF Steps, ConsumerType
<2> QED
  BY <1>1, <1>2, <1>6, <2>1, <2>2 DEF StartConsumer, PostDemand, SubmitReport
<1>7. CASE PostDemand(c)
<2>1. /\ step[c] = "store" /\ Goto(c, "report")
      /\ demands' = [demands EXCEPT ![c] = range[c]] /\ fresh' = fresh \cup {c}
      /\ limit' = [limit EXCEPT ![c] = 0]
      /\ UNCHANGED <<epochs, retention, pc, threshold, cycle, start, snapshot, job,
                     broken, seen, waited, from, range, chainVars, faults>>
  BY <1>7 DEF PostDemand, StoreDemand
<2>2. [limit EXCEPT ![c] = 0] \in [Consumer -> Nat]
  BY DEF ConsumerType
<2>3. ConsumerType'
  BY <2>1, <2>2, GoOnType DEF Steps
<2>4. DbType'
<3>1. range[c] \in EpochRange
  BY <2>1 DEF ConsumerType
<3> QED
  BY <2>1, <3>1 DEF DbType
<2>5. CollectorType'
  BY <2>1 DEF CollectorType, PlanType, MaxAvailable
<2> QED
  BY <2>1, <2>3, <2>4, <2>5, ChainKept, FaultCounted
<1>8. CASE CheckReport(c)
<2>1. /\ step[c] = "report"
      /\ \/ Wait(c)
         \/ /\ range' = [range EXCEPT ![c] = ReportRange(c)] /\ Goto(c, "recheck")
            /\ UNCHANGED <<waited, from, limit>>
  BY <1>8 DEF CheckReport
<2>2. CASE Wait(c)
  BY <1>1, <1>2, <1>8, <2>1, <2>2, LeaveType DEF StartConsumer, PostDemand, SubmitReport
<2>3. CASE /\ range' = [range EXCEPT ![c] = ReportRange(c)] /\ Goto(c, "recheck")
           /\ UNCHANGED <<waited, from, limit>>
<3>1. from[c] \in Epoch /\ FirstFrame[c] <= from[c] /\ landed[c] \in 0 .. MaxHead - 1
  BY <2>1 DEF ConsumerType, ChainType
<3>2. RefEpoch(c, from[c]) \in 0 .. MaxHead - 1
  BY <3>1, RefEpochType
<3> DEFINE r == ReportRange(c)
<3>3. r \in EpochRange /\ r.to \in Epoch
  BY <3>1, <3>2, SidecarAssumption DEF ReportRange, EpochRange, Epoch
<3>4. range' = [range EXCEPT ![c] = r] /\ step' = [step EXCEPT ![c] = "recheck"]
  BY <2>3 DEF Goto
<3> HIDE DEF r
<3>5. /\ step' \in [Consumer -> Steps] /\ range' \in [Consumer -> EpochRange \cup {None}]
      /\ range'[c] = r
      /\ \A d \in Consumer \ {c} : step'[d] = step[d] /\ range'[d] = range[d]
  BY <3>3, <3>4 DEF ConsumerType, Steps
<3>6. ConsumerType'
  BY <2>3, <3>1, <3>3, <3>5 DEF ConsumerType
<3> QED
  BY <1>1, <1>2, <1>8, <2>1, <3>6 DEF StartConsumer, PostDemand, SubmitReport
<2> QED
  BY <2>1, <2>2, <2>3
<1>9. CASE Recheck(c)
<2>1. /\ step[c] = "recheck"
      /\ Stay(c) \/ (Goto(c, "fetch") /\ UNCHANGED <<waited, from, range, limit>>)
  BY <1>9 DEF Recheck
<2>2. range[c].to \in Epoch
  BY <2>1 DEF ConsumerType
<2>3. ConsumerType'
  BY <2>1, <2>2, GoOnType, LeaveType DEF Steps, ConsumerType
<2> QED
  BY <1>1, <1>2, <1>9, <2>1, <2>3 DEF StartConsumer, PostDemand, SubmitReport
<1>10. CASE FetchBatch(c)
<2> DEFINE last == Min({range[c].from + FetchStep - 1, range[c].to})
<2>1. /\ step[c] = "fetch"
      /\ \/ Stay(c)
         \/ Goto(c, "submit") /\ UNCHANGED <<waited, from, range, limit>>
         \/ /\ range' = [range EXCEPT ![c].from = last + 1] /\ last # range[c].to
            /\ UNCHANGED <<step, waited, from, limit>>
  BY <1>10 DEF FetchBatch
<2>2. CASE Stay(c) \/ (Goto(c, "submit") /\ UNCHANGED <<waited, from, range, limit>>)
<3>1. ConsumerType'
  BY <2>1, <2>2, GoOnType, LeaveType DEF Steps, ConsumerType
<3> QED
  BY <1>1, <1>2, <1>10, <2>1, <3>1 DEF StartConsumer, PostDemand, SubmitReport
<2>3. CASE /\ range' = [range EXCEPT ![c].from = last + 1] /\ last # range[c].to
           /\ UNCHANGED <<step, waited, from, limit>>
<3>1. /\ range[c] \in EpochRange /\ range[c].to \in Epoch /\ range[c].from \in Epoch
      /\ range \in [Consumer -> EpochRange \cup {None}]
  BY <2>1 DEF ConsumerType, EpochRange
<3>2. last + 1 \in Epoch
<4>1. {range[c].from + FetchStep - 1, range[c].to} \in SUBSET Nat
  BY <3>1, SidecarAssumption DEF Epoch
<4>2. last \in Nat /\ last <= range[c].to
  BY <4>1, MinFacts
<4> QED
  BY <2>3, <3>1, <4>2, SidecarAssumption DEF Epoch
<3> DEFINE r == [range[c] EXCEPT !.from = last + 1]
<3>3. r \in EpochRange /\ r.to = range[c].to
  BY <3>1, <3>2 DEF EpochRange
<3>4. range' = [range EXCEPT ![c] = r]
  BY <2>3
<3> HIDE DEF r
<3>5. /\ range' \in [Consumer -> EpochRange \cup {None}] /\ range'[c] = r
      /\ \A d \in Consumer \ {c} : range'[d] = range[d]
  BY <3>1, <3>3, <3>4
<3>6. ConsumerType'
  BY <2>3, <3>1, <3>3, <3>5 DEF ConsumerType
<3> QED
  BY <1>1, <1>2, <1>10, <2>1, <3>6 DEF StartConsumer, PostDemand, SubmitReport
<2> QED
  BY <2>1, <2>2, <2>3
<1>11. CASE SubmitReport(c)
<2>1. /\ step[c] = "submit" /\ Land(c, RefEpoch(c, from[c])) /\ Stay(c)
      /\ UNCHANGED <<collectorVars, dbVars, head, visible, faults>>
  BY <1>11 DEF SubmitReport
<2>2. RefEpoch(c, from[c]) \in 0 .. MaxHead - 1
  BY <2>1, RefEpochType DEF ConsumerType
<2>3. ChainType'
  BY <2>1, <2>2, LandType DEF ChainType
<2> QED
  BY <2>1, <2>3, DbKept, CollectorKept, LeaveType, FaultCounted
<1>12. CASE RequestFails(c)
<2>1. ConsumerType'
  BY <1>12, LeaveType DEF RequestFails
<2> QED
  BY <1>2, <1>12, <2>1 DEF RequestFails
<1> QED
  BY <1>3, <1>4, <1>5, <1>6, <1>7, <1>8, <1>9, <1>10, <1>11, <1>12 DEF Consume

\* The chain, the other oracles and the administrator.
LEMMA EnvironmentStepType ==
  ASSUME TypeInv,
         \/ \E c \in Consumer : OthersReport(c)
         \/ Finalize
         \/ \E r \in Retentions : SetRetention(r)
         \/ UNCHANGED vars
  PROVE  TypeInv'
<1> USE DEF TypeInv
<1>1. ASSUME NEW c \in Consumer, OthersReport(c) PROVE TypeInv'
<2>1. /\ FirstFrame[c] <= head /\ head \in Epoch /\ Land(c, RefEpoch(c, head))
      /\ UNCHANGED <<collectorVars, dbVars, consumerVars, head, visible, faults>>
  BY <1>1, SidecarAssumption DEF OthersReport, ChainType, Epoch
<2>2. ChainType'
  BY <2>1, RefEpochType, LandType DEF ChainType
<2> QED
  BY <2>1, <2>2, DbKept, CollectorKept, ConsumerKept, FaultCounted
<1>2. CASE Finalize
<2>1. /\ head < MaxHead /\ head' = head + 1 /\ visible' = landed
      /\ UNCHANGED <<landed, collectorVars, dbVars, consumerVars, faults>>
  BY <1>2 DEF Finalize
<2>2. ChainType'
  BY <2>1, SidecarAssumption DEF ChainType, Epoch
<2> QED
  BY <2>1, <2>2, DbKept, CollectorKept, ConsumerKept, FaultCounted
<1>3. ASSUME NEW r \in Retentions, SetRetention(r) PROVE TypeInv'
<2>1. Fault /\ retention' = r /\ UNCHANGED <<epochs, demands, collectorVars, consumerVars, chainVars>>
  BY <1>3 DEF SetRetention
<2>2. DbType'
  BY <2>1, SidecarAssumption DEF DbType
<2> QED
  BY <2>1, <2>2, ChainKept, CollectorKept, ConsumerKept, FaultCounted
<1>4. CASE UNCHANGED vars
<2>1. UNCHANGED <<chainVars, dbVars, collectorVars, consumerVars, faults>>
  BY <1>4 DEF vars, chainVars, dbVars, collectorVars, consumerVars
<2> QED
  BY <2>1, ChainKept, DbKept, CollectorKept, ConsumerKept, FaultCounted
<1> QED
  BY <1>1, <1>2, <1>3, <1>4

LEMMA TypeStep == TypeInv /\ [Next]_vars => TypeInv'
<1> SUFFICES ASSUME TypeInv, [Next]_vars PROVE TypeInv'
  OBVIOUS
<1>1. CASE Collect
  BY <1>1, PlanStepType, CheckpointStepType DEF Collect
<1>2. CASE \E e \in Epoch : Thread(e) \/ ThreadFails(e)
  BY <1>2, ThreadStepType
<1>3. CASE \E c \in Consumer : Consume(c) \/ RequestFails(c) \/ OthersReport(c)
  BY <1>3, ConsumerStepType, EnvironmentStepType
<1>4. CASE TimerFires \/ CycleFails \/ Crash
  BY <1>4, CheckpointStepType
<1>5. CASE Finalize \/ (\E r \in Retentions : SetRetention(r)) \/ UNCHANGED vars
  BY <1>5, EnvironmentStepType
<1> QED
  BY <1>1, <1>2, <1>3, <1>4, <1>5 DEF Next

LEMMA TypeInvariant == Spec => []TypeInv
<1> QED
  BY TypeInit, TypeStep, PTL DEF Spec

\* Whatever the threads, the failures and the consumers do, a plan starts at an epoch
\* that exists, no range begins after the chain does, and a report is of an epoch
\* that is finalized before the last one (_define_epochs_to_process_range,
\* _get_predicted_range).
THEOREM TypesAreKept == Spec => []TypeOK
<1> QED
  BY TypeInvariant, TypeInvImpliesTypeOK, PTL

-----------------------------------------------------------------------------
(* The table at rest *)

\* A thread that runs will delete epoch e: it has stored its own epoch and is still to
\* look at the newest one, or it has and e lies below what it keeps.
DoomedBy(f, e) ==
  job[f].at \in {"stored", "sized"} \/ (job[f].at = "prune" /\ e < job[f].n)

Doomed(e) == \E f \in Epoch : DoomedBy(f, e)

\* Without a fault, every epoch stored is of the window or some thread deletes it yet,
\* and no thread runs outside a checkpoint.
RestInv ==
  faults = 0 =>
    /\ retention = InitRetention /\ ~broken
    /\ pc # "threads" => \A e \in Epoch : job[e].at = "none"
    /\ \A e \in Epoch : job[e].at = "sized" => job[e].n = retention
    /\ \A e \in epochs : Doomed(e) \/ Max(epochs) - e < retention

LEMMA RestInit == Init => RestInv
  BY DEF Init, RestInv, Idle

\* Steps that leave the table and the threads alone, and enter or leave a checkpoint
\* only when no thread runs.
LEMMA RestKept ==
  ASSUME RestInv, faults' = 0 => faults = 0,
         faults = 0 => UNCHANGED <<epochs, retention, job, broken>>,
         faults = 0 => pc' = pc \/ pc' = "threads" \/ \A e \in Epoch : job[e].at = "none"
  PROVE  RestInv'
<1> SUFFICES ASSUME faults = 0
             PROVE  /\ retention' = InitRetention /\ ~broken'
                    /\ pc' # "threads" => \A e \in Epoch : job'[e].at = "none"
                    /\ \A e \in Epoch : job'[e].at = "sized" => job'[e].n = retention'
                    /\ \A e \in epochs' : Doomed(e)' \/ Max(epochs') - e < retention'
  BY DEF RestInv
<1>1. ASSUME NEW e PROVE Doomed(e)' = Doomed(e)
  BY DEF Doomed, DoomedBy
<1> QED
  BY <1>1 DEF RestInv

\* The largest epoch of a table without some of its smaller ones.
LEMMA MaxOfSubset ==
  ASSUME NEW S \in SUBSET Epoch, NEW T \in SUBSET S, T # {}
  PROVE  Max(T) <= Max(S) /\ Max(T) \in Epoch /\ Max(S) \in Epoch
  BY MaxFacts

\* The stages of a thread while nothing fails.
LEMMA RestThread ==
  ASSUME TypeInv, RestInv, faults = 0, NEW f \in Epoch, Thread(f)
  PROVE  RestInv'
<1> DEFINE Kept(e) == Doomed(e) \/ Max(epochs) - e < retention
<1>1. /\ retention = InitRetention /\ ~broken
      /\ pc # "threads" => \A e \in Epoch : job[e].at = "none"
      /\ \A e \in Epoch : job[e].at = "sized" => job[e].n = retention
      /\ \A e \in epochs : Kept(e)
  BY DEF RestInv
<1>2. /\ job \in Jobs /\ epochs \in SUBSET Epoch /\ epochs \in SUBSET Nat
      /\ retention \in Nat \ {0} /\ Epoch \in SUBSET Nat
  BY SidecarAssumption DEF TypeInv, DbType, CollectorType, Epoch
<1>3. /\ retention' = retention /\ broken' = broken /\ pc' = pc /\ pc = "threads"
<2>1. job[f].at # "none" /\ UNCHANGED <<retention, broken, pc>>
  BY DEF Thread, StoreData, PruneReadRetention, PruneReadNewest, PruneDelete, ThreadsOnly
<2> QED
  BY <1>1, <2>1
<1>4. ASSUME NEW a, NEW n, SetJob(f, a, n)
      PROVE  /\ job'[f] = [at |-> a, n |-> n]
             /\ \A e \in Epoch \ {f} : job'[e] = job[e]
  BY <1>2, <1>4 DEF SetJob, Jobs
<1>5. ASSUME \A e \in Epoch : job'[e].at = "sized" => job'[e].n = retention',
             \A e \in epochs' : Doomed(e)' \/ Max(epochs') - e < retention'
      PROVE  RestInv'
  BY <1>1, <1>3, <1>5 DEF RestInv
<1>6. CASE StoreData(f)
<2>1. SetJob(f, "stored", 0)
  BY <1>6 DEF StoreData
<2>2. job'[f] = [at |-> "stored", n |-> 0] /\ \A e \in Epoch \ {f} : job'[e] = job[e]
  BY <1>4, <2>1
<2>3. \A e \in epochs' : Doomed(e)'
  BY <2>2 DEF Doomed, DoomedBy
<2>4. \A e \in Epoch : job'[e].at = "sized" => job'[e].n = retention'
  BY <1>1, <1>3, <2>2
<2> QED
  BY <1>5, <2>3, <2>4
<1>7. CASE PruneReadRetention(f)
<2>1. SetJob(f, "sized", retention)
  BY <1>7 DEF PruneReadRetention
<2>2. job'[f] = [at |-> "sized", n |-> retention] /\ \A e \in Epoch \ {f} : job'[e] = job[e]
  BY <1>4, <2>1
<2>3. \A e \in epochs' : Doomed(e)'
  BY <2>2 DEF Doomed, DoomedBy
<2>4. \A e \in Epoch : job'[e].at = "sized" => job'[e].n = retention'
  BY <1>1, <1>3, <2>2
<2> QED
  BY <1>5, <2>3, <2>4
<1>8. CASE PruneReadNewest(f)
<2> DEFINE p == PruneFrom(f, retention)
<2>1. /\ epochs' = epochs /\ job[f].at = "sized" /\ job[f].n = retention
      /\ IF p <= 0 THEN SetJob(f, "none", 0) ELSE SetJob(f, "prune", p)
  BY <1>1, <1>8 DEF PruneReadNewest
<2>2. ASSUME NEW e \in epochs, p <= e PROVE Max(epochs) - e < retention
<3>1. Max(epochs) \in Nat /\ e \in Nat
  BY <1>2, MaxFacts
<3>2. CASE max_epoch = None
<4>1. Max(epochs) = 0 \/ Max(epochs) = None
  BY <3>2 DEF max_epoch, OrNone
<4>2. Max(epochs) # None
  BY <3>1, SidecarAssumption
<4> QED
  BY <1>2, <3>1, <4>1, <4>2
<3>3. CASE max_epoch # None
<4>1. max_epoch = Max(epochs)
  BY <3>3 DEF max_epoch, OrNone
<4>2. p = Max(epochs) - retention + 1
  BY <3>3, <4>1 DEF PruneFrom
<4> QED
  BY <1>2, <2>2, <3>1, <4>2
<3> QED
  BY <3>2, <3>3
<2>3. p \in Int
<3>1. max_epoch \in Epoch \cup {None}
  BY <1>2, QueriesType
<3> QED
  BY <1>2, <3>1, SidecarAssumption DEF PruneFrom, Epoch
<2> HIDE DEF p
<2>4. \A e \in Epoch : job'[e].at = "sized" => job'[e].n = retention'
<3>1. /\ \A e \in Epoch \ {f} : job'[e] = job[e]
      /\ job'[f] = [at |-> "none", n |-> 0] \/ job'[f] = [at |-> "prune", n |-> p]
  BY <1>4, <2>1
<3> QED
  BY <1>1, <1>3, <3>1
<2>5. ASSUME NEW e \in epochs' PROVE Doomed(e)' \/ Max(epochs') - e < retention'
<3>1. e \in Nat /\ e \in epochs
  BY <1>2, <2>1
<3>2. CASE p <= e
  BY <1>3, <2>1, <2>2, <3>1, <3>2
<3>3. CASE ~(p <= e)
<4>1. ~(p <= 0) /\ e < p
  BY <2>3, <3>1, <3>3
<4>2. job'[f] = [at |-> "prune", n |-> p]
  BY <1>4, <2>1, <4>1
<4> QED
  BY <4>1, <4>2 DEF Doomed, DoomedBy
<3> QED
  BY <3>2, <3>3
<2> QED
  BY <1>5, <2>4, <2>5
<1>9. CASE PruneDelete(f)
<2>1. /\ job[f].at = "prune" /\ SetJob(f, "none", 0)
      /\ epochs' = {e \in epochs : e >= job[f].n} /\ job[f].n \in Nat
  BY <1>2, <1>9 DEF PruneDelete, Jobs
<2>2. \A e \in Epoch : job'[e].at = "sized" => job'[e].n = retention'
<3>1. job'[f] = [at |-> "none", n |-> 0] /\ \A e \in Epoch \ {f} : job'[e] = job[e]
  BY <1>4, <2>1
<3> QED
  BY <1>1, <1>3, <3>1
<2>3. ASSUME NEW e \in epochs' PROVE Doomed(e)' \/ Max(epochs') - e < retention'
<3>1. e \in epochs /\ e >= job[f].n /\ e \in Nat
  BY <1>2, <2>1
<3>2. CASE Max(epochs) - e < retention
<4>1. epochs' \in SUBSET epochs /\ epochs' # {}
  BY <2>1, <2>3
<4>2. Max(epochs') <= Max(epochs) /\ Max(epochs) \in Nat /\ Max(epochs') \in Nat
  BY <1>2, <4>1, MaxOfSubset
<4> QED
  BY <1>2, <1>3, <3>1, <3>2, <4>2
<3>3. CASE Doomed(e)
<4>1. PICK g \in Epoch : DoomedBy(g, e)
  BY <3>3 DEF Doomed
<4>2. g # f
  BY <2>1, <3>1, <4>1 DEF DoomedBy
<4>3. job'[g] = job[g]
  BY <1>4, <2>1, <4>2
<4> QED
  BY <4>1, <4>3 DEF Doomed, DoomedBy
<3> QED
  BY <1>1, <3>1, <3>2, <3>3
<2> QED
  BY <1>5, <2>2, <2>3
<1> QED
  BY <1>6, <1>7, <1>8, <1>9 DEF Thread

\* A fault is counted.
LEMMA FaultSeen == ASSUME TypeInv, Fault PROVE faults' # 0
  BY SidecarAssumption DEF TypeInv, Fault

LEMMA RestStep == TypeInv /\ RestInv /\ [Next]_vars => RestInv'
<1> SUFFICES ASSUME TypeInv, RestInv, [Next]_vars, faults' = 0 PROVE RestInv'
  BY DEF RestInv
<1> USE DEF dbVars, collectorVars, consumerVars, chainVars, ThreadsOnly, ReadsOnly
<1>1. ~Fault /\ faults \in Nat
  BY FaultSeen, SidecarAssumption DEF TypeInv
<1>2. CASE \E e \in Epoch : Thread(e)
<2>1. PICK e \in Epoch : Thread(e)
  BY <1>2
<2>2. faults' = faults
  BY <2>1 DEF Thread, StoreData, PruneReadRetention, PruneReadNewest, PruneDelete
<2> QED
  BY <2>1, <2>2, RestThread
<1>3. CASE ProcessCheckpoint
<2>1. /\ UNCHANGED <<broken, retention, epochs, faults>> /\ pc = "checkpoint" /\ pc' = "threads"
      /\ job' = [e \in Epoch |-> IF e \in Checkpoint \ epochs
                                   THEN [Idle EXCEPT !.at = "queued"] ELSE Idle]
  BY <1>3 DEF ProcessCheckpoint
<2>2. \A e \in Epoch : job[e].at = "none" /\ job'[e].at \in {"none", "queued"}
  BY <2>1 DEF RestInv, Idle
<2>3. \A e : ~Doomed(e) /\ ~Doomed(e)'
  BY <2>2 DEF Doomed, DoomedBy
<2> QED
  BY <2>1, <2>2, <2>3 DEF RestInv
<1>4. CASE \/ \E h \in Epoch : StartCycle(h)
           \/ ReadDemands \/ (\E d \in snapshot : LookAtDemand(d)) \/ ChooseStart
<2>1. /\ pc # "threads" /\ UNCHANGED <<epochs, retention, job, broken>>
      /\ faults' = faults
  BY <1>1, <1>4 DEF StartCycle, ReadDemands, LookAtDemand, ChooseStart
<2> QED
  BY <2>1, RestKept DEF RestInv
<1>5. CASE CheckDemands
<2>1. /\ \A e \in Epoch : job[e].at = "none"
      /\ UNCHANGED <<epochs, retention, job, broken, faults>>
  BY <1>5 DEF CheckDemands
<2> QED
  BY <2>1, RestKept
<1>6. CASE Shutdown
  BY <1>6 DEF Shutdown, RestInv
<1>7. ~(TimerFires \/ CycleFails \/ Crash \/ (\E e \in Epoch : ThreadFails(e))
         \/ (\E c \in Consumer : RequestFails(c)) \/ (\E r \in Retentions : SetRetention(r)))
  BY <1>1 DEF TimerFires, CycleFails, Crash, ThreadFails, RequestFails, SetRetention
<1>8. CASE \E c \in Consumer : Consume(c) \/ OthersReport(c)
<2>1. UNCHANGED <<epochs, retention, job, broken, pc, faults>>
  BY <1>8 DEF Consume, OthersReport, StartConsumer, ReadOwnDemand, CheckSpan,
       CheckNewest, PostDemand, CheckReport, Recheck, FetchBatch, SubmitReport
<2> QED
  BY <2>1, RestKept
<1>9. CASE Finalize \/ UNCHANGED vars
<2>1. UNCHANGED <<epochs, retention, job, broken, pc, faults>>
  BY <1>9 DEF Finalize, vars
<2> QED
  BY <2>1, RestKept
<1> QED
  BY <1>2, <1>3, <1>4, <1>5, <1>6, <1>7, <1>8, <1>9 DEF Next, Collect

\* Whatever the order in which any number of threads stored and pruned, a table at
\* rest spans no more than retention_epochs (_prune after every store_epoch).
THEOREM TableRestsInWindow == Spec => []RestingWindow
<1>1. ASSUME TypeInv, RestInv PROVE RestingWindow
<2>1. SUFFICES ASSUME faults = 0, pc # "threads", epochs # {}
               PROVE  Max(epochs) - Min(epochs) < retention
  BY DEF RestingWindow
<2>2. \A e : ~Doomed(e)
  BY <1>1, <2>1 DEF RestInv, Doomed, DoomedBy
<2>3. epochs \in SUBSET Nat
  BY <1>1, SidecarAssumption DEF TypeInv, DbType, Epoch
<2>4. Min(epochs) \in epochs
  BY <2>1, <2>3, MinFacts
<2> QED
  BY <1>1, <2>1, <2>2, <2>4 DEF RestInv
<1>2. TypeInv /\ RestInv => RestingWindow
  BY <1>1
<1> QED
  BY <1>2, RestInit, RestStep, TypeInvariant, PTL DEF Spec

-----------------------------------------------------------------------------
(* What the collector has stored when it sleeps *)

\* Newest epoch stored, 0 for an empty table.
Newest == Max(epochs \cup {0})

\* Demands the plan of this cycle has taken into account.
Known == {c \in Consumer \ fresh : demands[c] # None}

\* Every epoch of c's demand below b that can be stored, and is not below the retained
\* window, is stored or about to be.
Covered(c, b) ==
  \A e \in Epochs(demands[c]) :
    e < b /\ e <= MaxAvailable(cycle) /\ e > Newest - LowestRetention
      => e \in epochs \/ job[e].at = "queued"

\* A cycle runs on a block past the threshold; outside a checkpoint no thread runs;
\* a demand already looked at has lowered start_epoch, and what a plan leaves out
\* is stored, as is all that its checkpoints have passed unless one of them failed.
CollectorInv ==
  /\ threshold <= head
  /\ pc # "idle" => threshold < cycle /\ cycle <= head
  /\ pc # "threads" => ~broken /\ \A e \in Epoch : job[e].at = "none"
  /\ pc = "plan" =>
       \A c \in Known : [c |-> c, r |-> demands[c]] \in snapshot \/ start <= demands[c].from
  /\ pc \in {"checkpoint", "threads"} /\ ~broken => \A c \in Known : Covered(c, start)
  /\ SleepMeansCollected

LEMMA CollectorInit == Init => CollectorInv
<1> SUFFICES ASSUME Init PROVE CollectorInv
  OBVIOUS
<1> USE DEF Init
<1>1. threshold = -1 /\ head \in Nat /\ pc = "idle"
  BY SidecarAssumption
<1>2. SleepMeansCollected
  BY <1>1 DEF SleepMeansCollected
<1> QED
  BY <1>1, <1>2 DEF CollectorInv, Idle

\* An awake process has a block past its threshold, when the last block is not one
\* that wakes it up again.
LEMMA AwakePast ==
  ASSUME Horizon > MaxHead, TypeInv, NEW h \in Epoch, Awake(h, threshold)
  PROVE  threshold < h
  BY SidecarAssumption DEF Awake, TypeInv, CollectorType, PlanType, Epoch

\* Epochs of a demand the plan knows.
LEMMA KnownDemand ==
  ASSUME TypeInv, NEW c \in Known
  PROVE  /\ c \in Consumer /\ c \notin fresh /\ demands[c] # None
         /\ demands[c] \in EpochRange
         /\ demands[c].from \in Epoch /\ demands[c].to \in Nat
         /\ \A e \in Epochs(demands[c]) : e \in Nat /\ demands[c].from <= e
<1>1. c \in Consumer /\ c \notin fresh /\ demands[c] # None /\ demands[c] \in EpochRange
  BY DEF Known, TypeInv, DbType
<1>2. demands[c].from \in Epoch /\ demands[c].to \in Nat
  BY <1>1 DEF EpochRange
<1> QED
  BY <1>1, <1>2, SidecarAssumption DEF Epochs, Epoch

\* To sleep, a collector must have covered the demands up to the newest epoch that can
\* be stored.
LEMMA AsleepCovered ==
  ASSUME TypeInv, CollectorInv, pc \in {"plan", "threads"},
         \A c \in Known : \A e \in Epochs(demands[c]) :
           e <= MaxAvailable(cycle) /\ e > Newest - LowestRetention => e \in epochs,
         EndCycle, threshold' \in {threshold, cycle},
         UNCHANGED <<job, broken, dbVars, chainVars>>,
         fresh' = fresh,
         \A e \in Epoch : job[e].at = "none", ~broken
  PROVE  CollectorInv'
<1> USE DEF dbVars, chainVars
<1>1. threshold' <= head' /\ pc' = "idle"
      /\ (threshold' = head' => threshold' = cycle /\ head = cycle)
<2>1. threshold < cycle /\ cycle <= head /\ threshold \in Int /\ cycle \in Int /\ head \in Int
  BY SidecarAssumption DEF CollectorInv, TypeInv, CollectorType, PlanType, ChainType, Epoch
<2> QED
  BY <2>1 DEF EndCycle
<1>2. SleepMeansCollected'
<2>1. SUFFICES ASSUME threshold' = head', NEW c \in Consumer, c \notin fresh', demands'[c] # None,
                      NEW e \in Epochs(demands'[c]), e <= MaxAvailable(head'),
                      e > (Max(epochs' \cup {0}) - LowestRetention')
               PROVE  e \in epochs'
  BY DEF SleepMeansCollected
<2>2. c \in Known /\ e \in Epochs(demands[c]) /\ e <= MaxAvailable(cycle)
      /\ e > Newest - LowestRetention
  BY <1>1, <2>1 DEF Known, Newest, LowestRetention
<2> QED
  BY <2>2
<1> QED
  BY <1>1, <1>2 DEF CollectorInv

\* A cycle that ends without moving the threshold leaves a block to wake up on.
LEMMA UnfinishedCycle ==
  ASSUME TypeInv, CollectorInv, pc # "idle", EndCycle, UNCHANGED <<threshold, job, broken, head>>,
         \A e \in Epoch : job[e].at = "none", ~broken
  PROVE  CollectorInv'
<1>1. threshold' < head' /\ pc' = "idle"
  BY SidecarAssumption DEF CollectorInv, TypeInv, CollectorType, PlanType, ChainType, Epoch, EndCycle
<1>2. threshold' \in Int /\ head' \in Int
  BY SidecarAssumption DEF TypeInv, CollectorType, PlanType, ChainType, Epoch
<1>3. SleepMeansCollected'
  BY <1>1, <1>2 DEF SleepMeansCollected
<1> QED
  BY <1>1, <1>2, <1>3 DEF CollectorInv

LEMMA CollectorStart ==
  ASSUME Horizon > MaxHead, TypeInv, CollectorInv, NEW h \in Epoch, StartCycle(h)
  PROVE  CollectorInv'
<1> USE DEF dbVars, chainVars
<1>1. /\ pc = "idle" /\ Awake(h, threshold) /\ h <= head
      /\ UNCHANGED <<dbVars, job, broken, fresh, chainVars>>
      /\ \/ MaxAvailable(h) < 0 /\ EndCycle /\ threshold' = h
         \/ EndCycle /\ UNCHANGED threshold
         \/ pc' = "read" /\ cycle' = h /\ UNCHANGED <<threshold, snapshot>>
  BY SidecarAssumption DEF StartCycle, TypeInv, ChainType, Epoch
<1>2. /\ threshold < h /\ h \in Int /\ threshold \in Int /\ head \in Int
      /\ threshold <= head /\ ~broken /\ \A e \in Epoch : job[e].at = "none"
  BY <1>1, AwakePast, SidecarAssumption
  DEF CollectorInv, TypeInv, CollectorType, PlanType, ChainType, Epoch
<1>3. CASE MaxAvailable(h) < 0 /\ EndCycle /\ threshold' = h
<2>1. SleepMeansCollected'
<3>1. SUFFICES ASSUME threshold' = head', NEW c \in Consumer, c \notin fresh', demands'[c] # None,
                      NEW e \in Epochs(demands'[c]), e <= MaxAvailable(head')
               PROVE  FALSE
  BY DEF SleepMeansCollected
<3>2. c \in Known /\ e \in Epochs(demands[c]) /\ head' = h
  BY <1>1, <1>3, <3>1 DEF Known
<3>3. e \in Nat
  BY <3>2, KnownDemand
<3> QED
  BY <1>2, <1>3, <3>1, <3>2, <3>3 DEF MaxAvailable
<2> QED
  BY <1>1, <1>2, <1>3, <2>1 DEF CollectorInv, EndCycle
<1>4. CASE EndCycle /\ UNCHANGED threshold
<2>1. SleepMeansCollected'
  BY <1>1, <1>4 DEF CollectorInv, SleepMeansCollected, LowestRetention
<2> QED
  BY <1>1, <1>2, <1>4, <2>1 DEF CollectorInv, EndCycle
<1>5. CASE pc' = "read" /\ cycle' = h /\ UNCHANGED <<threshold, snapshot>>
<2>1. SleepMeansCollected'
  BY <1>5 DEF SleepMeansCollected
<2> QED
  BY <1>1, <1>2, <1>5, <2>1 DEF CollectorInv
<1> QED
  BY <1>1, <1>3, <1>4, <1>5

LEMMA CollectorPlan ==
  ASSUME TypeInv, CollectorInv,
         ReadDemands \/ (\E d \in snapshot : LookAtDemand(d)) \/ ChooseStart
  PROVE  CollectorInv'
<1> USE DEF dbVars, chainVars
<1>0. /\ threshold <= head
      /\ pc # "idle" => threshold < cycle /\ cycle <= head
      /\ pc # "threads" => ~broken /\ \A e \in Epoch : job[e].at = "none"
  BY DEF CollectorInv
<1>1. CASE ReadDemands
<2>1. /\ pc = "read" /\ pc' = "plan"
      /\ snapshot' = {[c |-> c, r |-> demands[c]] : c \in {d \in Consumer : demands[d] # None}}
      /\ UNCHANGED <<threshold, cycle, start, job, broken, fresh, seen, dbVars, chainVars>>
  BY <1>1 DEF ReadDemands
<2>2. \A c \in Known' : [c |-> c, r |-> demands'[c]] \in snapshot'
  BY <2>1 DEF Known
<2>3. SleepMeansCollected'
  BY <2>1 DEF SleepMeansCollected
<2> QED
  BY <1>0, <2>1, <2>2, <2>3 DEF CollectorInv
<1>2. ASSUME NEW d \in snapshot, LookAtDemand(d) PROVE CollectorInv'
<2>1. /\ UNCHANGED <<pc, threshold, cycle, job, broken, seen, epochs, retention, chainVars>>
      /\ pc = "plan" /\ snapshot' = snapshot \ {d}
      /\ \/ DeleteDemand(d.c) /\ UNCHANGED start
         \/ start' = Min({start, d.r.from}) /\ UNCHANGED <<demands, fresh>>
  BY <1>2 DEF LookAtDemand
<2>2. d.c \in Consumer /\ d.r.from \in Nat /\ start \in Nat
  BY SidecarAssumption DEF TypeInv, CollectorType, PlanType, EpochRange, Epoch
<2>3. ASSUME NEW c \in Known'
      PROVE  [c |-> c, r |-> demands'[c]] \in snapshot' \/ start' <= demands'[c].from
<3>1. CASE DeleteDemand(d.c) /\ UNCHANGED start
<4>1. c # d.c /\ demands'[c] = demands[c] /\ c \in Known
  BY <3>1, <2>2 DEF DeleteDemand, Known, TypeInv, DbType
<4>2. [c |-> c, r |-> demands[c]] # d
  BY <4>1
<4> QED
  BY <2>1, <3>1, <4>1, <4>2 DEF CollectorInv
<3>2. CASE start' = Min({start, d.r.from}) /\ UNCHANGED <<demands, fresh>>
<4>1. c \in Known
  BY <3>2 DEF Known
<4>2. demands[c].from \in Nat
  BY <4>1, KnownDemand, SidecarAssumption DEF Epoch
<4>3. {start, d.r.from} \in SUBSET Nat
  BY <2>2
<4>4. start' <= start /\ start' <= d.r.from /\ start' \in Nat
  BY <3>2, <4>3, MinFacts
<4>5. CASE [c |-> c, r |-> demands[c]] = d
<5>1. d.r.from = demands[c].from
  BY <4>5
<5> QED
  BY <3>2, <4>4, <5>1
<4>6. CASE [c |-> c, r |-> demands[c]] # d
  BY <2>1, <2>2, <3>2, <4>1, <4>2, <4>4, <4>6 DEF CollectorInv
<4> QED
  BY <4>5, <4>6
<3> QED
  BY <2>1, <3>1, <3>2
<2>4. SleepMeansCollected'
  BY <2>1 DEF SleepMeansCollected
<2> QED
  BY <1>0, <2>1, <2>3, <2>4 DEF CollectorInv
<1>3. CASE ChooseStart
<2>1. /\ pc = "plan" /\ snapshot = {}
      /\ UNCHANGED <<job, broken, fresh, dbVars, chainVars>>
      /\ \/ /\ Missing # {} /\ start' = Min(Missing) /\ pc' = "checkpoint"
            /\ UNCHANGED <<threshold, cycle>>
         \/ Missing = {} /\ EndCycle /\ threshold' \in {threshold, cycle}
  BY <1>3 DEF ChooseStart
<2>2. start \in Nat /\ cycle \in Nat /\ MaxAvailable(cycle) \in Int
  BY SidecarAssumption DEF TypeInv, CollectorType, PlanType, Epoch, MaxAvailable
<2>3. ASSUME NEW c \in Known, NEW e \in Epochs(demands[c]), e <= MaxAvailable(cycle),
             e \notin epochs
      PROVE  e \in Missing
<3>1. start <= demands[c].from
  BY <2>1 DEF CollectorInv
<3>2. e \in Nat /\ demands[c].from <= e /\ demands[c].from \in Nat
  BY KnownDemand, SidecarAssumption DEF Epoch
<3> QED
  BY <2>2, <2>3, <3>1, <3>2 DEF Missing
<2>4. CASE /\ Missing # {} /\ start' = Min(Missing) /\ pc' = "checkpoint"
           /\ UNCHANGED <<threshold, cycle>>
<3>1. Missing \in SUBSET Nat
  BY <2>2 DEF Missing
<3>2. \A e \in Missing : start' <= e /\ e \in Nat /\ start' \in Nat
  BY <2>4, <3>1, MinFacts
<3>3. ASSUME NEW c \in Known' PROVE Covered(c, start)'
<4>1. SUFFICES ASSUME NEW e \in Epochs(demands'[c]), e < start', e <= MaxAvailable(cycle')
               PROVE  e \in epochs'
  BY DEF Covered
<4>2. c \in Known
  BY <2>1, <3>3 DEF Known
<4>3. e \notin Missing
  BY <3>2, <4>1
<4> QED
  BY <2>1, <2>3, <2>4, <4>1, <4>2, <4>3
<3>4. SleepMeansCollected'
  BY <2>4 DEF SleepMeansCollected
<3> QED
  BY <1>0, <2>1, <2>4, <3>3, <3>4 DEF CollectorInv
<2>5. CASE Missing = {} /\ EndCycle /\ threshold' \in {threshold, cycle}
<3>1. \A c \in Known : \A e \in Epochs(demands[c]) : e <= MaxAvailable(cycle) => e \in epochs
  BY <2>3, <2>5
<3> QED
  BY <1>0, <2>1, <2>5, <3>1, AsleepCovered
<2> QED
  BY <2>1, <2>4, <2>5
<1> QED
  BY <1>1, <1>2, <1>3

\* Whatever changes the demands marks them as fresh, and the demands that are not
\* stay as they were.
LEMMA CollectorOthers ==
  ASSUME TypeInv, CollectorInv, UNCHANGED <<epochs, pc, threshold, cycle, start, snapshot>>,
         head' \in {head, head + 1}, UNCHANGED job, broken' \in {broken, TRUE},
         broken' # broken => pc = "threads",
         \A c \in Known' : c \in Known /\ demands'[c] = demands[c]
  PROVE  CollectorInv'
<1>1. threshold \in Int /\ cycle \in Int /\ head \in Int /\ threshold <= head
  BY SidecarAssumption
  DEF CollectorInv, TypeInv, CollectorType, PlanType, ChainType, Epoch
<1>2. SleepMeansCollected'
<2>1. SUFFICES ASSUME pc' = "idle", threshold' = head', NEW c \in Consumer, c \notin fresh',
                      demands'[c] # None, NEW e \in Epochs(demands'[c]), e <= MaxAvailable(head'),
                      e > (Max(epochs' \cup {0}) - LowestRetention')
               PROVE  e \in epochs'
  BY DEF SleepMeansCollected
<2>2. head' = head
  BY <1>1, <2>1
<2>3. c \in Known' /\ c \in Known /\ demands'[c] = demands[c]
  BY <2>1 DEF Known
<2>4. c \notin fresh /\ demands[c] # None
  BY <2>3 DEF Known
<2> QED
  BY <2>1, <2>2, <2>3, <2>4 DEF CollectorInv, SleepMeansCollected, LowestRetention
<1>3. ASSUME NEW c \in Known', Covered(c, start) PROVE Covered(c, start)'
  BY <1>3 DEF Covered, Newest, LowestRetention
<1>4. /\ threshold' <= head'
      /\ pc' # "idle" => threshold' < cycle' /\ cycle' <= head'
  BY <1>1 DEF CollectorInv
<1>5. /\ pc' # "threads" => ~broken' /\ \A e \in Epoch : job'[e].at = "none"
      /\ pc' = "plan" =>
           \A c \in Known' : [c |-> c, r |-> demands'[c]] \in snapshot' \/ start' <= demands'[c].from
  BY DEF CollectorInv
<1>6. pc' \in {"checkpoint", "threads"} /\ ~broken' => \A c \in Known' : Covered(c, start)'
<2>1. broken \in BOOLEAN
  BY DEF TypeInv, CollectorType
<2>2. ~broken' => ~broken
  BY <2>1
<2> QED
  BY <1>3, <2>2 DEF CollectorInv
<1> QED
  BY <1>2, <1>4, <1>5, <1>6 DEF CollectorInv

LEMMA CollectorRestart ==
  ASSUME TypeInv, Restart
  PROVE  CollectorInv'
<1>1. /\ pc' = "idle" /\ threshold' = -1 /\ broken' = FALSE /\ head' = head
      /\ job' = [e \in Epoch |-> Idle] /\ head \in Nat
  BY SidecarAssumption DEF Restart, EndCycle, chainVars, TypeInv, ChainType, Epoch
<1>2. SleepMeansCollected'
  BY <1>1 DEF SleepMeansCollected
<1> QED
  BY <1>1, <1>2 DEF CollectorInv, Idle

LEMMA CollectorCheckpoint ==
  ASSUME TypeInv, CollectorInv,
         ProcessCheckpoint \/ CheckDemands \/ Shutdown \/ Crash \/ CycleFails \/ TimerFires
  PROVE  CollectorInv'
<1> USE DEF dbVars, chainVars
<1>0. /\ threshold <= head
      /\ pc # "idle" => threshold < cycle /\ cycle <= head
      /\ pc # "threads" => ~broken /\ \A e \in Epoch : job[e].at = "none"
      /\ start \in Nat /\ cycle \in Epoch /\ cycle \in Nat
      /\ pc = "checkpoint" => start <= MaxAvailable(cycle)
  BY SidecarAssumption DEF CollectorInv, TypeInv, CollectorType, PlanType, Epoch
<1>1. CASE ProcessCheckpoint
<2>1. /\ UNCHANGED <<threshold, cycle, snapshot, broken, fresh, dbVars, chainVars>>
      /\ pc = "checkpoint" /\ pc' = "threads" /\ start' = Max(Checkpoint) + 1
      /\ job' = [e \in Epoch |-> IF e \in Checkpoint \ epochs
                                   THEN [Idle EXCEPT !.at = "queued"] ELSE Idle]
  BY <1>1 DEF ProcessCheckpoint
<2>2. /\ Checkpoint \in SUBSET Epoch /\ Checkpoint = start .. Max(Checkpoint)
      /\ Max(Checkpoint) \in Nat
  BY <1>0, <2>1, CheckpointFacts
<2> DEFINE last == Max(Checkpoint)
<2>3. ASSUME NEW c \in Known' PROVE Covered(c, start)'
<3>1. SUFFICES ASSUME NEW e \in Epochs(demands'[c]), e < start', e <= MaxAvailable(cycle'),
                      e > Newest' - LowestRetention'
               PROVE  e \in epochs' \/ job'[e].at = "queued"
  BY DEF Covered
<3>2. c \in Known
  BY <2>1, <2>3 DEF Known
<3>3. e \in Epochs(demands[c]) /\ e <= MaxAvailable(cycle) /\ e > Newest - LowestRetention
  BY <2>1, <3>1 DEF Newest, LowestRetention
<3>4. e \in Nat
  BY <3>2, <3>3, KnownDemand
<3>5. CASE e < start
<4>1. e \in epochs \/ job[e].at = "queued"
  BY <1>0, <2>1, <3>2, <3>3, <3>5 DEF CollectorInv, Covered
<4>2. e \in Epoch
  BY <1>0, <3>3, <3>4, SidecarAssumption DEF MaxAvailable, Epoch
<4> QED
  BY <1>0, <2>1, <4>1, <4>2
<3>6. CASE ~(e < start)
<4>1. last \in Nat /\ start' = last + 1 /\ Checkpoint = start .. last
  BY <2>1, <2>2
<4> HIDE DEF last
<4>2. e \in Checkpoint
  BY <1>0, <3>1, <3>4, <3>6, <4>1
<4>3. e \in Epoch
  BY <2>2, <4>2
<4>4. CASE e \in epochs
  BY <2>1, <4>4
<4>5. CASE e \notin epochs
<5>1. job'[e] = [Idle EXCEPT !.at = "queued"]
  BY <2>1, <4>2, <4>3, <4>5
<5> QED
  BY <5>1 DEF Idle
<4> QED
  BY <4>4, <4>5
<3> QED
  BY <3>5, <3>6
<2>4. SleepMeansCollected'
  BY <2>1 DEF SleepMeansCollected
<2> QED
  BY <1>0, <2>1, <2>3, <2>4 DEF CollectorInv
<1>2. CASE CheckDemands
<2>1. /\ pc = "threads" /\ ~broken /\ \A e \in Epoch : job[e].at = "none"
      /\ UNCHANGED <<job, broken, dbVars, chainVars>>
      /\ \/ EndCycle /\ UNCHANGED threshold
         \/ /\ start > MaxAvailable(cycle)
            /\ EndCycle /\ threshold' = cycle /\ fresh' = fresh
         \/ pc' = "checkpoint" /\ UNCHANGED <<threshold, cycle, start, snapshot, fresh>>
  BY <1>2 DEF CheckDemands
<2>2. CASE EndCycle /\ UNCHANGED threshold
  BY <2>1, <2>2, UnfinishedCycle
<2>3. CASE /\ start > MaxAvailable(cycle)
           /\ EndCycle /\ threshold' = cycle /\ fresh' = fresh
<3>1. ASSUME NEW c \in Known, NEW e \in Epochs(demands[c]), e <= MaxAvailable(cycle),
             e > Newest - LowestRetention
      PROVE  e \in epochs
<4>1. e \in Nat /\ MaxAvailable(cycle) \in Int
  BY <1>0, KnownDemand DEF MaxAvailable
<4>2. e < start
  BY <1>0, <2>3, <3>1, <4>1
<4>3. e \in Epoch
  BY <1>0, <3>1, <4>1, SidecarAssumption DEF MaxAvailable, Epoch
<4> QED
  BY <2>1, <3>1, <4>2, <4>3 DEF CollectorInv, Covered
<3> QED
  BY <2>1, <2>3, <3>1, AsleepCovered
<2>4. CASE pc' = "checkpoint" /\ UNCHANGED <<threshold, cycle, start, snapshot, fresh>>
<3>1. ASSUME NEW c \in Known' PROVE Covered(c, start)'
<4>1. c \in Known /\ Covered(c, start)
  BY <2>1, <2>4, <3>1 DEF Known, CollectorInv
<4> QED
  BY <2>1, <2>4, <4>1 DEF Covered, Newest, LowestRetention
<3>2. SleepMeansCollected'
  BY <2>4 DEF SleepMeansCollected
<3> QED
  BY <1>0, <2>1, <2>4, <3>1, <3>2 DEF CollectorInv
<2> QED
  BY <2>1, <2>2, <2>3, <2>4
<1>3. CASE Shutdown
<2>1. CASE Restart
  BY <2>1, CollectorRestart
<2>2. CASE ~Restart
<3>1. /\ pc = "threads" /\ broken
      /\ UNCHANGED <<pc, threshold, cycle, broken, head>>
  BY <1>3, <2>2 DEF Shutdown, ThreadsOnly
<3>2. SleepMeansCollected'
  BY <3>1 DEF SleepMeansCollected
<3> QED
  BY <1>0, <3>1, <3>2 DEF CollectorInv
<2> QED
  BY <2>1, <2>2
<1>4. CASE Crash
  BY <1>4, CollectorRestart DEF Crash
<1>5. CASE CycleFails
<2>1. pc \in {"read", "plan", "checkpoint"} /\ EndCycle
      /\ UNCHANGED <<threshold, job, broken, head>>
  BY <1>5 DEF CycleFails
<2> QED
  BY <1>0, <2>1, UnfinishedCycle
<1>6. CASE TimerFires
<2>1. /\ pc = "threads" /\ broken' = TRUE
      /\ UNCHANGED <<pc, threshold, cycle, start, snapshot, fresh, demands, head, epochs, job>>
  BY <1>6 DEF TimerFires, ThreadsOnly
<2>2. \A c \in Known' : c \in Known /\ demands'[c] = demands[c]
  BY <2>1 DEF Known
<2> QED
  BY <2>1, <2>2, CollectorOthers
<1> QED
  BY <1>1, <1>2, <1>3, <1>4, <1>5, <1>6

\* Newest of two tables.
LEMMA NewestGrows ==
  ASSUME epochs \in SUBSET Epoch, epochs' \in SUBSET Epoch,
         \A m \in epochs : \E k \in epochs' : m <= k
  PROVE  Newest <= Newest' /\ Newest \in Nat /\ Newest' \in Nat
<1>1. 0 \in Epoch /\ Epoch \in SUBSET Nat
  BY SidecarAssumption DEF Epoch
<1>2. /\ Newest \in epochs \cup {0} /\ \A y \in epochs \cup {0} : y <= Newest
      /\ Newest' \in epochs' \cup {0} /\ \A y \in epochs' \cup {0} : y <= Newest'
  BY <1>1, MaxFacts DEF Newest
<1>3. Newest \in Nat /\ Newest' \in Nat
  BY <1>1, <1>2
<1>4. PICK k \in epochs' \cup {0} : Newest <= k
  BY <1>2, <1>3
<1>5. k \in Nat /\ k <= Newest'
  BY <1>1, <1>2
<1> QED
  BY <1>3, <1>4, <1>5

\* The threads store what was queued and delete only below the window.
LEMMA CollectorThread ==
  ASSUME TypeInv, WindowInv, CollectorInv, NEW f \in Epoch, Thread(f) \/ ThreadFails(f)
  PROVE  CollectorInv'
<1> USE DEF ThreadsOnly
<1>1. /\ UNCHANGED <<pc, threshold, cycle, start, fresh, demands, head>>
      /\ job[f].at # "none"
  BY DEF Thread, StoreData, PruneReadRetention, PruneReadNewest, PruneDelete, ThreadFails, Started,
         chainVars
<1>2. pc = "threads" /\ SleepMeansCollected'
<2>1. pc = "threads"
  BY <1>1 DEF CollectorInv
<2> QED
  BY <1>1, <2>1 DEF SleepMeansCollected
<1>3. /\ threshold' <= head' /\ threshold' < cycle' /\ cycle' <= head'
  BY <1>1, <1>2 DEF CollectorInv
<1>4. CASE ThreadFails(f)
<2>1. broken'
  BY <1>4 DEF ThreadFails
<2> QED
  BY <1>1, <1>2, <1>3, <2>1 DEF CollectorInv
<1>5. CASE Thread(f)
<2>1. /\ broken' = broken /\ epochs' \subseteq epochs \cup {f}
      /\ \E a, n : SetJob(f, a, n)
      /\ job[f].at = "queued" => StoreData(f)
  BY <1>5 DEF Thread, StoreData, PruneReadRetention, PruneReadNewest, PruneDelete
<2>2. /\ epochs \in SUBSET Epoch /\ epochs' \in SUBSET Epoch
      /\ \A m \in epochs : \E k \in epochs' : m <= k
<3>1. epochs \in SUBSET Epoch
  BY DEF WindowInv
<3>2. CASE PruneDelete(f)
  BY <2>1, <3>1, <3>2, DeletedBelow
<3>3. CASE ~PruneDelete(f)
<4>1. epochs \subseteq epochs'
  BY <1>5, <3>3 DEF Thread, StoreData, PruneReadRetention, PruneReadNewest
<4> QED
  BY <2>1, <3>1, <4>1, SidecarAssumption DEF Epoch
<3> QED
  BY <3>2, <3>3
<2>3. Newest <= Newest' /\ Newest \in Nat /\ Newest' \in Nat
  BY <2>2, NewestGrows
<2>4. ASSUME NEW e \in epochs \ epochs' PROVE e <= Newest - LowestRetention
<3>1. PruneDelete(f)
  BY <1>5, <2>4 DEF Thread, StoreData, PruneReadRetention, PruneReadNewest
<3>2. e <= Max(epochs) - LowestRetention
  BY <2>4, <3>1, DeletedBelow
<3>3. epochs # {} /\ epochs \cup {0} \in SUBSET Epoch
  BY <2>2, <2>4, SidecarAssumption DEF Epoch
<3>4. Max(epochs) \in epochs /\ Max(epochs) <= Newest
<4>1. Max(epochs) \in epochs
  BY <2>2, <3>3, MaxFacts
<4> QED
  BY <3>3, <4>1, MaxFacts DEF Newest
<3>5. Max(epochs) \in Nat /\ e \in Nat /\ LowestRetention \in Nat
<4>1. Epoch \in SUBSET Nat
  BY SidecarAssumption DEF Epoch
<4> QED
  BY <2>2, <2>4, <3>4, <4>1, LowestFacts
<3> QED
  BY <2>3, <3>2, <3>4, <3>5
<2>5. ASSUME NEW c \in Known', ~broken PROVE Covered(c, start)'
<3>1. SUFFICES ASSUME NEW e \in Epochs(demands'[c]), e < start', e <= MaxAvailable(cycle'),
                      e > Newest' - LowestRetention'
               PROVE  e \in epochs' \/ job'[e].at = "queued"
  BY DEF Covered
<3>2. c \in Known /\ e \in Epochs(demands[c])
  BY <1>1, <2>5, <3>1 DEF Known
<3>3. e \in Nat /\ LowestRetention' = LowestRetention /\ LowestRetention \in Nat
  BY <3>2, KnownDemand, LowestFacts DEF LowestRetention
<3>4. e > Newest - LowestRetention
<4> DEFINE l == LowestRetention
           m == Newest
           k == Newest'
<4>1. e > k - l
  BY <3>1, <3>3, Zenon
<4>2. m <= k /\ m \in Nat /\ k \in Nat /\ l \in Nat
  BY <2>3, <3>3
<4> HIDE DEF l, m, k
<4>3. e > m - l
  BY <3>3, <4>1, <4>2
<4> QED
  BY <4>3 DEF l, m
<3>5. e \in epochs \/ job[e].at = "queued"
  BY <1>1, <1>2, <2>5, <3>1, <3>2, <3>4 DEF CollectorInv, Covered
<3>6. CASE e \in epochs
<4>1. e \in epochs'
  BY <2>3, <2>4, <3>3, <3>4, <3>6
<4> QED
  BY <4>1
<3>7. CASE job[e].at = "queued" /\ e = f
  BY <2>1, <3>7 DEF StoreData
<3>8. CASE job[e].at = "queued" /\ e # f
<4>1. job'[e] = job[e]
  BY <2>1, <3>8 DEF SetJob
<4> QED
  BY <3>8, <4>1
<3> QED
  BY <3>5, <3>6, <3>7, <3>8
<2> QED
  BY <1>1, <1>2, <1>3, <2>1, <2>5 DEF CollectorInv
<1> QED
  BY <1>4, <1>5

LEMMA CollectorStep ==
  ASSUME Horizon > MaxHead
  PROVE  TypeInv /\ WindowInv /\ CollectorInv /\ [Next]_vars => CollectorInv'
<1> SUFFICES ASSUME TypeInv, WindowInv, CollectorInv, [Next]_vars PROVE CollectorInv'
  OBVIOUS
<1> USE DEF dbVars, collectorVars, chainVars
<1>1. CASE Collect
  BY <1>1, CollectorStart, CollectorPlan, CollectorCheckpoint DEF Collect
<1>2. CASE \E e \in Epoch : Thread(e) \/ ThreadFails(e)
  BY <1>2, CollectorThread
<1>3. CASE TimerFires \/ CycleFails \/ Crash
  BY <1>3, CollectorCheckpoint
<1>4. ASSUME NEW c \in Consumer, Consume(c) \/ RequestFails(c) \/ OthersReport(c)
      PROVE  CollectorInv'
<2>1. /\ UNCHANGED <<epochs, pc, threshold, cycle, start, snapshot, job, broken, head>>
      /\ \/ UNCHANGED <<demands, fresh>>
         \/ demands' = [demands EXCEPT ![c] = range[c]] /\ fresh' = fresh \cup {c}
  BY <1>4 DEF Consume, RequestFails, OthersReport, StartConsumer, ReadOwnDemand, CheckSpan,
       CheckNewest, PostDemand, StoreDemand, CheckReport, Recheck, FetchBatch, SubmitReport, ReadsOnly
<2>2. \A d \in Known' : d \in Known /\ demands'[d] = demands[d]
  BY <2>1 DEF Known, TypeInv, DbType
<2> QED
  BY <2>1, <2>2, CollectorOthers
<1>5. CASE Finalize \/ (\E r \in Retentions : SetRetention(r)) \/ UNCHANGED vars
<2>1. /\ UNCHANGED <<epochs, demands, fresh, pc, threshold, cycle, start, snapshot, job, broken>>
      /\ head' \in {head, head + 1}
  BY <1>5 DEF Finalize, SetRetention, vars
<2>2. \A d \in Known' : d \in Known /\ demands'[d] = demands[d]
  BY <2>1 DEF Known
<2> QED
  BY <2>1, <2>2, CollectorOthers
<1> QED
  BY <1>1, <1>2, <1>3, <1>4, <1>5 DEF Next

\* A collector that waits for the next finalized epoch has stored every epoch of every
\* demand it had seen that can be stored and that is not below the retained window,
\* whatever demands came or changed during its cycles, however often it crashed and
\* whichever threads failed (define_epochs_to_process_range, new_epochs_range_demand_appeared).
\* The hypothesis takes the exploration's bound away: no last epoch wakes it up again.
THEOREM SleepIsEarned ==
  ASSUME Horizon > MaxHead
  PROVE  Spec => []SleepMeansCollected
<1>1. CollectorInv => SleepMeansCollected
  BY DEF CollectorInv
<1>2. TypeInv /\ WindowInv /\ CollectorInv /\ [Next]_vars => CollectorInv'
  BY CollectorStep
<1> QED
  BY <1>1, <1>2, CollectorInit, TypeInvariant, WindowInvariant, PTL DEF Spec

=============================================================================
