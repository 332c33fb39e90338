---------------------------- MODULE SummaryProofs ----------------------------
(***************************************************************************)
(* Proofs about Summary, for any number of goroutines, any buffer and any  *)
(* age buckets.  Everything rests on who holds which of the two locks: the *)
(* cold buffer is filled only by the holder of mtx that is about to flush  *)
(* it, so it is empty whenever mtx is free, and no scrape is between its   *)
(* swap and its report then.                                               *)
(***************************************************************************)
EXTENDS Summary, TLAPS

Flushing == {"flush", "rotate"}

\* which steps belong to whom
PcRange ==
  /\ \A o \in Observer : pc[o] \in {"idle", "expired", "append", "full"}
  /\ \A s \in Scraper : pc[s] \in {"idle", "lock", "flush", "rotate"}
  /\ pc[flusher] \in {"idle", "flush", "rotate"}

\* a thread holds a lock exactly while it is between two of its steps
LocksHeld ==
  /\ \A o \in Observer : (pc[o] # "idle") <=> (bufMtx = o)
  /\ \A s \in Scraper : (pc[s] = "lock") <=> (bufMtx = s)
  /\ \A t \in Scraper \cup {flusher} : (pc[t] \in Flushing) <=> (mtx = t)

ColdBufOwned == coldBuf # <<>> => mtx # None /\ pc[mtx] = "flush"

IInv ==
  /\ TypeOK /\ ColdBufNeverTwice /\ HotBufHasRoom
  /\ PcRange /\ LocksHeld /\ ColdBufOwned

-----------------------------------------------------------------------------
(* Arithmetic and sequences.                                               *)

\* The expiry times of swapBufs are natural numbers.
LEMMA ExpiryNat ==
  ASSUME hotBufExpTime \in Nat, NEW n \in Nat
  PROVE  nextExpiry(n) \in Nat
<1> DEFINE d == n - hotBufExpTime + streamDuration - 1
<1>1. streamDuration \in Nat \ {0}
  BY SummaryAssumption
<1>2. CASE n > hotBufExpTime
  <2>1. d \in Nat
    BY <1>1, <1>2
  <2>2. d \div streamDuration \in Nat
    <3> HIDE DEF d
    <3> QED BY <2>1, <1>1
  <2>3. streamDuration * (d \div streamDuration) \in Nat
    <3> DEFINE q == d \div streamDuration
    <3>1. q \in Nat
      BY <2>2
    <3> HIDE DEF q, d
    <3>2. streamDuration * q \in Nat
      BY <3>1, <1>1
    <3> QED BY <3>2 DEF q
  <2> QED BY <1>2, <2>3 DEF nextExpiry
<1>3. CASE ~(n > hotBufExpTime)
  BY <1>3 DEF nextExpiry
<1> QED BY <1>2, <1>3

\* The head stream is always one of the age buckets.
LEMMA HeadInRange ==
  ASSUME headStreamIdx \in Stream
  PROVE  (headStreamIdx + 1) % AgeBuckets \in Stream
<1>1. AgeBuckets \in Nat \ {0} /\ headStreamIdx \in Nat
  BY SummaryAssumption DEF Stream
<1> DEFINE h == headStreamIdx + 1
<1>2. h \in Nat
  BY <1>1
<1> HIDE DEF h
<1>3. h % AgeBuckets \in 0 .. AgeBuckets - 1
  BY <1>1, <1>2
<1> QED BY <1>3 DEF h, Stream

\* Members of a sequence of numbers are numbers.
LEMMA RangeNat ==
  ASSUME NEW q \in Seq(Nat)
  PROVE  Range(q) \subseteq Nat
BY DEF Range

-----------------------------------------------------------------------------
(* The steps.                                                              *)

\* What the assumption says of the threads.
LEMMA Threads ==
  /\ Observer \cap Scraper = {}
  /\ flusher \notin Observer /\ flusher \notin Scraper
  /\ None \notin Observer /\ None \notin Scraper /\ None # flusher
  /\ None \notin Nat /\ BufCap \in Nat \ {0}
  /\ Observer \subseteq Thread /\ Scraper \subseteq Thread /\ flusher \in Thread
BY SummaryAssumption DEF Thread

\* With mtx free the cold buffer is empty, so a swap succeeds.
LEMMA Swap ==
  ASSUME IInv, mtx = None, NEW n \in Nat, swapBufs(n)
  PROVE  /\ coldBuf = <<>> /\ hotBuf' = <<>> /\ coldBuf' = hotBuf
         /\ hotBufExpTime' \in Nat /\ panicked' = panicked
         /\ UNCHANGED <<cnt, streams, headStreamIdx, headStreamExpTime>>
<1>1. coldBuf = <<>>
  BY DEF IInv, ColdBufOwned
<1>2. nextExpiry(n) \in Nat
  BY ExpiryNat DEF IInv, TypeOK
<1> QED BY <1>1, <1>2 DEF swapBufs

\* Init establishes the invariant.
LEMMA InitInv == Init => IInv
<1> SUFFICES ASSUME Init PROVE IInv
  OBVIOUS
<1>1. TypeOK
  <2>1. 0 \in Stream /\ streamDuration \in Nat
    BY SummaryAssumption DEF Stream
  <2>2. NoReport \in [count : Nat, head : SUBSET Nat, time : Nat, swapped : BOOLEAN]
    BY DEF NoReport
  <2>3. pc \in [Thread -> {"idle"}] /\ now \in [Thread -> Nat]
    BY DEF Init
  <2>4. /\ streams \in [Stream -> SUBSET Nat] /\ swapped \in [Scraper -> BOOLEAN]
        /\ report \in [Scraper -> [count : Nat, head : SUBSET Nat, time : Nat,
                                   swapped : BOOLEAN]]
    BY <2>2 DEF Init
  <2>5. hotBuf \in Seq(Nat) /\ coldBuf \in Seq(Nat)
    BY DEF Init
  <2> QED BY <2>1, <2>3, <2>4, <2>5 DEF Init, TypeOK
<1>2. HotBufHasRoom
  BY Threads DEF Init, HotBufHasRoom
<1>3. PcRange /\ LocksHeld
  BY Threads DEF Init, PcRange, LocksHeld, Flushing
<1> QED BY <1>1, <1>2, <1>3 DEF Init, IInv, ColdBufNeverTwice, ColdBufOwned

\* A second passes.
LEMMA TickStep == IInv /\ Tick => IInv'
<1> SUFFICES ASSUME IInv, Tick PROVE IInv'
  OBVIOUS
<1>1. UNCHANGED <<bufMtx, mtx, bufVars, flushVars, pc, now, swapped, report,
                  panicked>>
  BY DEF Tick
<1>2. TypeOK'
  BY <1>1 DEF IInv, TypeOK, Tick, bufVars, flushVars
<1>3. (ColdBufNeverTwice /\ HotBufHasRoom /\ PcRange /\ LocksHeld /\ ColdBufOwned)'
  BY <1>1 DEF IInv, ColdBufNeverTwice, HotBufHasRoom, PcRange, LocksHeld,
              ColdBufOwned, bufVars, flushVars
<1> QED BY <1>2, <1>3 DEF IInv

\* An observation starts: its goroutine takes bufMtx.
LEMMA ObserveBeginStep ==
  ASSUME IInv, NEW o \in Observer, ObserveBegin(o)
  PROVE  IInv'
<1>1. /\ bufMtx = None /\ bufMtx' = o /\ pc[o] = "idle"
      /\ \E l \in {"expired", "append"} : pc' = [pc EXCEPT ![o] = l]
      /\ now' = [now EXCEPT ![o] = clock]
      /\ UNCHANGED <<clock, mtx, hotBuf, hotBufExpTime, coldBuf, cnt, streams,
                     headStreamIdx, headStreamExpTime, swapped, report, panicked>>
  BY DEF ObserveBegin, Goto, bufVars, flushVars
<1>2. TypeOK'
  BY <1>1, Threads DEF IInv, TypeOK
<1>3. PcRange' /\ LocksHeld'
  BY <1>1, Threads DEF IInv, TypeOK, PcRange, LocksHeld, Flushing
<1>4. HotBufHasRoom'
  BY <1>1, Threads DEF IInv, TypeOK, HotBufHasRoom
<1>5. ColdBufOwned' /\ ColdBufNeverTwice'
  BY <1>1, Threads DEF IInv, TypeOK, ColdBufOwned, ColdBufNeverTwice
<1> QED BY <1>2, <1>3, <1>4, <1>5 DEF IInv

\* An observer hands over the expired buffer and keeps bufMtx, or the full
\* one and lets bufMtx go.
LEMMA HandOverStep ==
  ASSUME IInv, NEW o \in Observer, ObserveExpired(o) \/ ObserveFull(o)
  PROVE  IInv'
<1>1. mtx = None /\ now[o] \in Nat /\ swapBufs(now[o])
  BY Threads DEF ObserveExpired, ObserveFull, lockMtx, IInv, TypeOK
<1>2. /\ coldBuf = <<>> /\ hotBuf' = <<>> /\ coldBuf' = hotBuf
      /\ hotBufExpTime' \in Nat /\ panicked' = panicked
      /\ UNCHANGED <<cnt, streams, headStreamIdx, headStreamExpTime>>
  BY <1>1, Swap
<1>3. /\ mtx' = flusher /\ UNCHANGED <<clock, now, swapped, report>>
      /\ \/ /\ pc[o] = "expired" /\ UNCHANGED bufMtx
            /\ pc' = [pc EXCEPT ![o] = "append", ![flusher] = "flush"]
         \/ /\ pc[o] = "full" /\ bufMtx' = None
            /\ pc' = [pc EXCEPT ![o] = "idle", ![flusher] = "flush"]
  BY DEF ObserveExpired, ObserveFull, lockMtx
<1>4. TypeOK'
  BY <1>2, <1>3, Threads DEF IInv, TypeOK
<1>5. PcRange' /\ LocksHeld'
  <2>1. /\ pc'[flusher] = "flush" /\ pc[flusher] \notin Flushing
        /\ \A t \in Thread \ {o, flusher} : pc'[t] = pc[t]
        /\ \/ pc'[o] = "append" /\ bufMtx' = o /\ bufMtx = o
           \/ pc'[o] = "idle" /\ bufMtx' = None /\ bufMtx = o
    BY <1>1, <1>3, Threads DEF IInv, TypeOK, LocksHeld, Flushing
  <2>2. PcRange'
    BY <2>1, Threads DEF IInv, PcRange
  <2>3. \A p \in Observer : (pc'[p] # "idle") <=> (bufMtx' = p)
    BY <2>1, Threads DEF IInv, LocksHeld
  <2>4. \A s \in Scraper : (pc'[s] = "lock") <=> (bufMtx' = s)
    BY <2>1, Threads DEF IInv, LocksHeld
  <2>5. \A t \in Scraper \cup {flusher} : (pc'[t] \in Flushing) <=> (mtx' = t)
    BY <2>1, <1>1, <1>3, Threads DEF IInv, LocksHeld, Flushing
  <2> QED BY <2>2, <2>3, <2>4, <2>5 DEF LocksHeld
<1>6. HotBufHasRoom'
  BY <1>2, Threads DEF HotBufHasRoom
<1>7. ColdBufOwned' /\ ColdBufNeverTwice'
  BY <1>2, <1>3, Threads DEF IInv, TypeOK, ColdBufOwned, ColdBufNeverTwice
<1> QED BY <1>4, <1>5, <1>6, <1>7 DEF IInv

\* An observation is appended; bufMtx stays with a goroutine that has filled
\* the buffer.
LEMMA ObserveAppendStep ==
  ASSUME IInv, NEW o \in Observer, ObserveAppend(o)
  PROVE  IInv'
<1>1. /\ pc[o] = "append" /\ hotBuf' = Append(hotBuf, now[o])
      /\ \/ /\ Len(hotBuf') = BufCap /\ UNCHANGED bufMtx
            /\ pc' = [pc EXCEPT ![o] = "full"]
         \/ /\ Len(hotBuf') # BufCap /\ bufMtx' = None
            /\ pc' = [pc EXCEPT ![o] = "idle"]
      /\ UNCHANGED <<clock, mtx, hotBufExpTime, coldBuf, cnt, streams,
                     headStreamIdx, headStreamExpTime, now, swapped, report,
                     panicked>>
  BY DEF ObserveAppend, Goto, isFull, flushVars
<1>2. hotBuf \in Seq(Nat) /\ now[o] \in Nat /\ bufMtx = o
  BY <1>1, Threads DEF IInv, TypeOK, LocksHeld
<1>3. hotBuf' \in Seq(Nat) /\ Len(hotBuf') = Len(hotBuf) + 1 /\ Len(hotBuf) \in Nat
  BY <1>1, <1>2
<1>4. TypeOK'
  BY <1>1, <1>3, Threads DEF IInv, TypeOK
<1>5. PcRange' /\ LocksHeld'
  <2>1. /\ \A t \in Thread \ {o} : pc'[t] = pc[t]
        /\ \/ pc'[o] = "full" /\ bufMtx' = o
           \/ pc'[o] = "idle" /\ bufMtx' = None
    BY <1>1, <1>2, Threads DEF IInv, TypeOK
  <2>2. PcRange'
    BY <2>1, Threads DEF IInv, PcRange
  <2>3. \A p \in Observer : (pc'[p] # "idle") <=> (bufMtx' = p)
    BY <1>2, <2>1, Threads DEF IInv, LocksHeld
  <2>4. \A s \in Scraper : (pc'[s] = "lock") <=> (bufMtx' = s)
    BY <1>2, <2>1, Threads DEF IInv, LocksHeld
  <2>5. \A t \in Scraper \cup {flusher} : (pc'[t] \in Flushing) <=> (mtx' = t)
    BY <1>1, <2>1, Threads DEF IInv, LocksHeld
  <2> QED BY <2>2, <2>3, <2>4, <2>5 DEF LocksHeld
<1>6. Len(hotBuf) < BufCap
  BY <1>1, <1>2, <1>3, Threads DEF IInv, HotBufHasRoom
<1>7. HotBufHasRoom'
  BY <1>1, <1>2, <1>3, <1>6, Threads DEF IInv, TypeOK, HotBufHasRoom
<1>8. ColdBufOwned' /\ ColdBufNeverTwice'
  BY <1>1, Threads DEF IInv, TypeOK, ColdBufOwned, ColdBufNeverTwice
<1> QED BY <1>4, <1>5, <1>7, <1>8 DEF IInv

\* A scrape takes bufMtx.
LEMMA WriteBeginStep ==
  ASSUME IInv, NEW s \in Scraper, WriteBegin(s)
  PROVE  IInv'
<1>1. /\ bufMtx = None /\ bufMtx' = s /\ pc[s] = "idle"
      /\ pc' = [pc EXCEPT ![s] = "lock"]
      /\ UNCHANGED <<clock, mtx, hotBuf, hotBufExpTime, coldBuf, cnt, streams,
                     headStreamIdx, headStreamExpTime, now, swapped, report,
                     panicked>>
  BY DEF WriteBegin, Goto, bufVars, flushVars
<1>2. TypeOK'
  BY <1>1, Threads DEF IInv, TypeOK
<1>3. PcRange' /\ LocksHeld'
  BY <1>1, Threads DEF IInv, TypeOK, PcRange, LocksHeld, Flushing
<1>4. HotBufHasRoom'
  BY <1>1, Threads DEF IInv, TypeOK, HotBufHasRoom
<1>5. ColdBufOwned' /\ ColdBufNeverTwice'
  BY <1>1, Threads DEF IInv, TypeOK, ColdBufOwned, ColdBufNeverTwice, LocksHeld, Flushing
<1> QED BY <1>2, <1>3, <1>4, <1>5 DEF IInv

\* A scrape takes mtx, swaps the buffers and lets bufMtx go.
LEMMA WriteSwapStep ==
  ASSUME IInv, NEW s \in Scraper, WriteSwap(s)
  PROVE  IInv'
<1>1. /\ mtx = None /\ mtx' = s /\ bufMtx' = None
      /\ pc[s] = "lock" /\ pc' = [pc EXCEPT ![s] = "flush"]
      /\ now' = [now EXCEPT ![s] = clock]
      /\ swapped' = [swapped EXCEPT ![s] = hotBuf # <<>>]
      /\ UNCHANGED <<clock, report>>
  BY DEF WriteSwap, lockMtx, Goto
<1>2. /\ coldBuf = <<>> /\ hotBuf' = <<>> /\ coldBuf' = hotBuf
      /\ hotBufExpTime' \in Nat /\ panicked' = panicked
      /\ UNCHANGED <<cnt, streams, headStreamIdx, headStreamExpTime>>
  <2>1. clock \in Nat /\ hotBufExpTime \in Nat /\ coldBuf = <<>>
    BY <1>1 DEF IInv, TypeOK, ColdBufOwned
  <2>2. CASE hotBuf # <<>>
    BY <2>1, <2>2, <1>1, Swap DEF WriteSwap
  <2>3. CASE hotBuf = <<>>
    BY <2>1, <2>3 DEF WriteSwap, bufVars, flushVars
  <2> QED BY <2>2, <2>3
<1>3. TypeOK'
  <2>1. swapped' \in [Scraper -> BOOLEAN] /\ now' \in [Thread -> Nat]
    BY <1>1, Threads DEF IInv, TypeOK
  <2> QED BY <2>1, <1>1, <1>2, Threads DEF IInv, TypeOK
<1>4. PcRange' /\ LocksHeld'
  <2>1. /\ pc'[s] = "flush" /\ bufMtx = s
        /\ \A t \in Thread \ {s} : pc'[t] = pc[t]
    BY <1>1, Threads DEF IInv, TypeOK, LocksHeld
  <2>2. PcRange'
    BY <2>1, Threads DEF IInv, PcRange
  <2>3. \A p \in Observer : (pc'[p] # "idle") <=> (bufMtx' = p)
    BY <1>1, <2>1, Threads DEF IInv, LocksHeld
  <2>4. \A t \in Scraper : (pc'[t] = "lock") <=> (bufMtx' = t)
    BY <1>1, <2>1, Threads DEF IInv, LocksHeld
  <2>5. \A t \in Scraper \cup {flusher} : (pc'[t] \in Flushing) <=> (mtx' = t)
    BY <1>1, <2>1, Threads DEF IInv, LocksHeld, Flushing
  <2> QED BY <2>2, <2>3, <2>4, <2>5 DEF LocksHeld
<1>5. HotBufHasRoom'
  BY <1>2, Threads DEF HotBufHasRoom
<1>6. ColdBufOwned' /\ ColdBufNeverTwice'
  BY <1>1, <1>2, Threads DEF IInv, TypeOK, ColdBufOwned, ColdBufNeverTwice
<1> QED BY <1>3, <1>4, <1>5, <1>6 DEF IInv

\* The holder of mtx empties the cold buffer.
LEMMA FlushStep ==
  ASSUME IInv, NEW t \in Scraper \cup {flusher}, Flush(t)
  PROVE  IInv'
<1>1. /\ pc[t] = "flush" /\ pc' = [pc EXCEPT ![t] = "rotate"]
      /\ coldBuf' = <<>> /\ cnt' = cnt + Len(coldBuf)
      /\ streams' = [i \in Stream |-> streams[i] \cup Range(coldBuf)]
      /\ UNCHANGED <<clock, bufMtx, mtx, hotBuf, hotBufExpTime, headStreamIdx,
                     headStreamExpTime, now, swapped, report, panicked>>
  BY DEF Flush, Goto, flushColdBuf, bufVars
<1>2. TypeOK'
  <2>1. streams' \in [Stream -> SUBSET Nat]
    BY <1>1, RangeNat DEF IInv, TypeOK
  <2>2. cnt' \in Nat /\ coldBuf' \in Seq(Nat)
    BY <1>1 DEF IInv, TypeOK
  <2> QED BY <2>1, <2>2, <1>1, Threads DEF IInv, TypeOK
<1>3. PcRange' /\ LocksHeld'
  <2>1. /\ pc'[t] = "rotate" /\ \A u \in Thread \ {t} : pc'[u] = pc[u]
    BY <1>1, Threads DEF IInv, TypeOK
  <2> QED BY <2>1, <1>1, Threads DEF IInv, PcRange, LocksHeld, Flushing
<1>4. HotBufHasRoom'
  BY <1>1, Threads DEF IInv, TypeOK, HotBufHasRoom
<1>5. ColdBufOwned' /\ ColdBufNeverTwice'
  BY <1>1 DEF IInv, ColdBufOwned, ColdBufNeverTwice
<1> QED BY <1>2, <1>3, <1>4, <1>5 DEF IInv

\* The holder of mtx resets the head stream and moves on.
LEMMA RotateStep ==
  ASSUME IInv, NEW t \in Scraper \cup {flusher}, Rotate(t)
  PROVE  IInv'
<1>1. /\ pc[t] = "rotate" /\ pc' = [pc EXCEPT ![t] = "rotate"]
      /\ streams' = [streams EXCEPT ![headStreamIdx] = {}]
      /\ headStreamIdx' = (headStreamIdx + 1) % AgeBuckets
      /\ headStreamExpTime' = headStreamExpTime + streamDuration
      /\ UNCHANGED <<clock, bufMtx, mtx, hotBuf, hotBufExpTime, coldBuf, cnt,
                     now, swapped, report, panicked>>
  BY DEF Rotate, Goto, rotateStream, bufVars
<1>2. pc' = pc
  BY <1>1, Threads DEF IInv, TypeOK
<1>3. TypeOK'
  <2>1. headStreamIdx' \in Stream
    BY <1>1, HeadInRange DEF IInv, TypeOK
  <2>2. headStreamExpTime' \in Nat
    BY <1>1, SummaryAssumption DEF IInv, TypeOK
  <2>3. streams' \in [Stream -> SUBSET Nat]
    BY <1>1 DEF IInv, TypeOK
  <2> QED BY <2>1, <2>2, <2>3, <1>1, <1>2 DEF IInv, TypeOK
<1>4. (PcRange /\ LocksHeld /\ HotBufHasRoom /\ ColdBufOwned /\ ColdBufNeverTwice)'
  BY <1>1, <1>2 DEF IInv, PcRange, LocksHeld, HotBufHasRoom, ColdBufOwned,
                    ColdBufNeverTwice
<1> QED BY <1>3, <1>4 DEF IInv

\* The holder of mtx lets it go, after its report if it is a scrape.
LEMMA UnlockStep ==
  ASSUME IInv, NEW t \in Scraper \cup {flusher},
         \/ t \in Scraper /\ WriteReport(t)
         \/ t = flusher /\ FlushEnd
  PROVE  IInv'
<1>1. /\ pc[t] = "rotate" /\ pc' = [pc EXCEPT ![t] = "idle"] /\ mtx' = None
      /\ UNCHANGED <<clock, bufMtx, hotBuf, hotBufExpTime, coldBuf, cnt, streams,
                     headStreamIdx, headStreamExpTime, now, swapped, panicked>>
  BY DEF WriteReport, FlushEnd, Goto, bufVars, flushVars
<1>2. report' \in [Scraper -> [count : Nat, head : SUBSET Nat, time : Nat,
                               swapped : BOOLEAN]]
  <2>1. CASE t \in Scraper /\ WriteReport(t)
    <3>1. [count |-> cnt, head |-> streams[headStreamIdx], time |-> now[t],
           swapped |-> swapped[t]]
          \in [count : Nat, head : SUBSET Nat, time : Nat, swapped : BOOLEAN]
      BY <2>1, Threads DEF IInv, TypeOK
    <3> QED BY <2>1, <3>1 DEF WriteReport, IInv, TypeOK
  <2>2. CASE t = flusher /\ FlushEnd
    BY <2>2 DEF FlushEnd, IInv, TypeOK
  <2> QED BY <2>1, <2>2
<1>3. TypeOK'
  BY <1>1, <1>2, Threads DEF IInv, TypeOK
<1>4. PcRange' /\ LocksHeld'
  <2>1. /\ pc'[t] = "idle" /\ mtx = t /\ \A u \in Thread \ {t} : pc'[u] = pc[u]
    BY <1>1, Threads DEF IInv, TypeOK, LocksHeld, Flushing
  <2>2. PcRange'
    BY <2>1, Threads DEF IInv, PcRange
  <2>3. \A u \in Scraper \cup {flusher} : (pc'[u] \in Flushing) <=> (mtx' = u)
    BY <1>1, <2>1, Threads DEF IInv, LocksHeld, Flushing
  <2>4. \A u \in Scraper : (pc'[u] = "lock") <=> (bufMtx' = u)
    BY <1>1, <2>1, Threads DEF IInv, LocksHeld
  <2>5. \A p \in Observer : (pc'[p] # "idle") <=> (bufMtx' = p)
    BY <1>1, <2>1, Threads DEF IInv, LocksHeld
  <2> QED BY <2>2, <2>3, <2>4, <2>5 DEF LocksHeld
<1>5. coldBuf = <<>>
  BY <1>1, Threads DEF IInv, ColdBufOwned, LocksHeld, Flushing
<1>6. HotBufHasRoom'
  BY <1>1, Threads DEF IInv, TypeOK, HotBufHasRoom
<1>7. ColdBufOwned' /\ ColdBufNeverTwice'
  BY <1>1, <1>5 DEF IInv, ColdBufOwned, ColdBufNeverTwice
<1> QED BY <1>3, <1>4, <1>6, <1>7 DEF IInv

\* Every step preserves the invariant.
LEMMA NextInv == IInv /\ [Next]_vars => IInv'
<1> SUFFICES ASSUME IInv, [Next]_vars PROVE IInv'
  OBVIOUS
<1>1. CASE Tick
  BY <1>1, TickStep
<1>2. ASSUME NEW o \in Observer, ObserverNext(o) PROVE IInv'
  BY <1>2, ObserveBeginStep, HandOverStep, ObserveAppendStep DEF ObserverNext
<1>3. ASSUME NEW s \in Scraper, ScraperNext(s) PROVE IInv'
  BY <1>3, WriteBeginStep, WriteSwapStep, UnlockStep DEF ScraperNext
<1>4. ASSUME NEW t \in Scraper \cup {flusher}, FlushNext(t) PROVE IInv'
  BY <1>4, FlushStep, RotateStep DEF FlushNext
<1>5. CASE FlushEnd
  BY <1>5, UnlockStep
<1>6. CASE UNCHANGED vars
  BY <1>6 DEF vars, bufVars, flushVars, IInv, TypeOK, ColdBufNeverTwice,
     HotBufHasRoom, PcRange, LocksHeld, ColdBufOwned
<1> QED BY <1>1, <1>2, <1>3, <1>4, <1>5, <1>6 DEF Next

\* The invariant holds in every reachable state.
THEOREM Invariance == Spec => []IInv
BY InitInv, NextInv, PTL DEF Spec

\* Every reachable state of the summary is well typed, whatever the number of
\* goroutines and the size of the buffer.
THEOREM TypeCorrect == Spec => []TypeOK
<1>1. IInv => TypeOK
  BY DEF IInv
<1> QED BY <1>1, Invariance, PTL

\* The assertion of swapBufs never fails.
THEOREM NoSwapPanic == Spec => []ColdBufNeverTwice
<1>1. IInv => ColdBufNeverTwice
  BY DEF IInv
<1> QED BY <1>1, Invariance, PTL

\* The hot buffer never outgrows its capacity.
THEOREM HotBufBounded == Spec => []HotBufHasRoom
<1>1. IInv => HotBufHasRoom
  BY DEF IInv
<1> QED BY <1>1, Invariance, PTL

-----------------------------------------------------------------------------
(* Refinement: buffers and locks count like the atomic counter of Recorder. *)

taken == [s \in Scraper |-> scrapeTakes(s)]

\* The abstract state of a reachable state: the total is a number, and so is
\* what a scrape has taken.
LEMMA AbstractState ==
  ASSUME IInv
  PROVE  /\ cnt \in Nat /\ Len(coldBuf) \in Nat /\ Len(hotBuf) \in Nat
         /\ \A s \in Scraper : pc[s] \in Flushing =>
              scrapeTakes(s) = cnt + Len(coldBuf) /\ scrapeTakes(s) # None
         /\ \A s \in Scraper : pc[s] \notin Flushing => scrapeTakes(s) = None
<1>1. cnt \in Nat /\ Len(coldBuf) \in Nat /\ Len(hotBuf) \in Nat
  BY DEF IInv, TypeOK
<1>2. cnt + Len(coldBuf) \in Nat
  BY <1>1
<1> QED BY <1>1, <1>2, Threads DEF scrapeTakes, Flushing

\* A step that leaves the counted observations and the flushing scrapes alone
\* is a stuttering step of Recorder.
LEMMA Stutter ==
  ASSUME observed' = observed, cnt' + Len(coldBuf') = cnt + Len(coldBuf),
         \A s \in Scraper : (pc'[s] \in Flushing) <=> (pc[s] \in Flushing)
  PROVE  UNCHANGED <<observed, taken>>
<1>1. \A s \in Scraper : scrapeTakes(s)' = scrapeTakes(s)
  BY DEF scrapeTakes, Flushing
<1> QED BY <1>1 DEF taken

\* A handing over moves observations while no scrape is between its swap and
\* its report.
LEMMA HandOverRefines ==
  ASSUME IInv, IInv', NEW o \in Observer, ObserveExpired(o) \/ ObserveFull(o)
  PROVE  UNCHANGED <<observed, taken>>
<1>1. mtx = None /\ mtx' = flusher /\ now[o] \in Nat /\ swapBufs(now[o])
  BY Threads DEF ObserveExpired, ObserveFull, lockMtx, IInv, TypeOK
<1>2. coldBuf = <<>> /\ hotBuf' = <<>> /\ coldBuf' = hotBuf /\ cnt' = cnt
  BY <1>1, Swap
<1>3. Len(coldBuf) = 0 /\ Len(hotBuf') = 0 /\ Len(coldBuf') = Len(hotBuf)
  BY <1>2
<1>4. observed' = observed
  BY <1>2, <1>3, AbstractState DEF observed
<1>5. \A s \in Scraper : pc[s] \notin Flushing /\ pc'[s] \notin Flushing
  BY <1>1, Threads DEF IInv, LocksHeld
<1>6. \A s \in Scraper : scrapeTakes(s) = None /\ scrapeTakes(s)' = None
  BY <1>5 DEF scrapeTakes, Flushing
<1> QED BY <1>4, <1>6 DEF taken

\* An append is the counting of one observation.
LEMMA AppendRefines ==
  ASSUME IInv, IInv', NEW o \in Observer, ObserveAppend(o)
  PROVE  Promise!Observe
<1>1. /\ hotBuf' = Append(hotBuf, now[o]) /\ cnt' = cnt /\ coldBuf' = coldBuf
      /\ \E l \in {"full", "idle"} : pc' = [pc EXCEPT ![o] = l]
  BY DEF ObserveAppend, Goto, flushVars
<1>2. Len(hotBuf') = Len(hotBuf) + 1
  BY <1>1 DEF IInv, TypeOK
<1>3. observed' = observed + 1
  BY <1>1, <1>2, AbstractState DEF observed
<1>4. \A s \in Scraper : pc'[s] = pc[s]
  BY <1>1, Threads DEF IInv, TypeOK
<1>5. taken' = taken
  BY <1>1, <1>4 DEF taken, scrapeTakes
<1> QED BY <1>3, <1>5 DEF Promise!Observe, taken

\* The swap of a scrape fixes what it reports at the total of that moment.
LEMMA SwapRefines ==
  ASSUME IInv, IInv', NEW s \in Scraper, WriteSwap(s)
  PROVE  Promise!Take(s)
<1>1. mtx = None /\ mtx' = s /\ pc[s] = "lock" /\ pc' = [pc EXCEPT ![s] = "flush"]
  BY DEF WriteSwap, lockMtx, Goto
<1>2. coldBuf = <<>> /\ clock \in Nat
  BY <1>1 DEF IInv, TypeOK, ColdBufOwned
<1>3. hotBuf' = <<>> /\ coldBuf' = hotBuf /\ cnt' = cnt
  <2>1. CASE hotBuf # <<>>
    BY <2>1, <1>1, <1>2, Swap DEF WriteSwap
  <2>2. CASE hotBuf = <<>>
    BY <2>2, <1>2 DEF WriteSwap, bufVars, flushVars
  <2> QED BY <2>1, <2>2
<1>4. Len(coldBuf) = 0 /\ Len(hotBuf') = 0 /\ Len(coldBuf') = Len(hotBuf)
  BY <1>2, <1>3
<1>5. observed' = observed /\ observed = cnt' + Len(coldBuf')
  BY <1>3, <1>4, AbstractState DEF observed
<1>6. \A t \in Scraper : pc[t] \notin Flushing /\ (t # s => pc'[t] \notin Flushing)
  BY <1>1, Threads DEF IInv, LocksHeld
<1>7. pc'[s] = "flush"
  BY <1>1, Threads DEF IInv, TypeOK
<1>8. \A t \in Scraper : scrapeTakes(t) = None
  BY <1>6 DEF scrapeTakes, Flushing
<1>9. \A t \in Scraper : scrapeTakes(t)' = IF t = s THEN observed ELSE None
  BY <1>5, <1>6, <1>7 DEF scrapeTakes, Flushing
<1>10. taken[s] = None /\ taken' = [taken EXCEPT ![s] = observed]
  BY <1>8, <1>9 DEF taken
<1> QED BY <1>5, <1>10 DEF Promise!Take, taken

\* The end of a scrape is its report.
LEMMA ReportRefines ==
  ASSUME IInv, IInv', NEW s \in Scraper, WriteReport(s)
  PROVE  Promise!Report(s)
<1>1. /\ pc[s] = "rotate" /\ pc' = [pc EXCEPT ![s] = "idle"]
      /\ hotBuf' = hotBuf /\ coldBuf' = coldBuf /\ cnt' = cnt
  BY DEF WriteReport, Goto, bufVars, flushVars
<1>2. observed' = observed
  BY <1>1 DEF observed
<1>3. pc'[s] = "idle" /\ \A t \in Scraper \ {s} : pc'[t] = pc[t]
  BY <1>1, Threads DEF IInv, TypeOK
<1>4. scrapeTakes(s) # None /\ scrapeTakes(s)' = None
  BY <1>1, <1>3, AbstractState DEF scrapeTakes, Flushing
<1>5. \A t \in Scraper \ {s} : scrapeTakes(t)' = scrapeTakes(t)
  BY <1>1, <1>3 DEF scrapeTakes
<1>6. \A t \in Scraper :
        scrapeTakes(t)' = IF t = s THEN None ELSE scrapeTakes(t)
  BY <1>4, <1>5
<1>7. taken[s] # None
  BY <1>4 DEF taken
<1>8. taken' = [t \in Scraper |-> IF t = s THEN None ELSE scrapeTakes(t)]
  BY <1>6 DEF taken
<1>9. [taken EXCEPT ![s] = None]
      = [t \in Scraper |-> IF t = s THEN None ELSE scrapeTakes(t)]
  BY DEF taken
<1> QED BY <1>2, <1>7, <1>8, <1>9 DEF Promise!Report, taken

\* Every step of the summary is a step of Recorder or none.
LEMMA NextRefines ==
  IInv /\ IInv' /\ [Next]_vars => [Promise!Next]_<<observed, taken>>
<1> SUFFICES ASSUME IInv, IInv', [Next]_vars
             PROVE  [Promise!Next]_<<observed, taken>>
  OBVIOUS
<1>1. CASE Tick \/ FlushEnd
  <2>1. UNCHANGED <<hotBuf, coldBuf, cnt>>
    BY <1>1 DEF Tick, FlushEnd, bufVars, flushVars
  <2>2. \A s \in Scraper : pc'[s] = pc[s]
    BY <1>1, Threads DEF Tick, FlushEnd, Goto, IInv, TypeOK
  <2> QED BY <2>1, <2>2, Stutter DEF observed
<1>2. ASSUME NEW o \in Observer, ObserverNext(o)
      PROVE  [Promise!Next]_<<observed, taken>>
  <2>1. CASE ObserveBegin(o)
    <3>1. UNCHANGED <<hotBuf, coldBuf, cnt>>
      BY <2>1 DEF ObserveBegin, bufVars, flushVars
    <3>2. \A s \in Scraper : pc'[s] = pc[s]
      BY <2>1, Threads DEF ObserveBegin, Goto, IInv, TypeOK
    <3> QED BY <3>1, <3>2, Stutter DEF observed
  <2>2. CASE ObserveExpired(o) \/ ObserveFull(o)
    BY <2>2, HandOverRefines
  <2>3. CASE ObserveAppend(o)
    BY <2>3, AppendRefines DEF Promise!Next
  <2> QED BY <1>2, <2>1, <2>2, <2>3 DEF ObserverNext
<1>3. ASSUME NEW s \in Scraper, ScraperNext(s)
      PROVE  [Promise!Next]_<<observed, taken>>
  <2>1. CASE WriteBegin(s)
    <3>1. UNCHANGED <<hotBuf, coldBuf, cnt>>
      BY <2>1 DEF WriteBegin, bufVars, flushVars
    <3>2. \A t \in Scraper : (pc'[t] \in Flushing) <=> (pc[t] \in Flushing)
      BY <2>1, Threads DEF WriteBegin, Goto, IInv, TypeOK, Flushing
    <3> QED BY <3>1, <3>2, Stutter DEF observed
  <2>2. CASE WriteSwap(s)
    BY <2>2, SwapRefines DEF Promise!Next
  <2>3. CASE WriteReport(s)
    BY <2>3, ReportRefines DEF Promise!Next
  <2> QED BY <1>3, <2>1, <2>2, <2>3 DEF ScraperNext
<1>4. ASSUME NEW t \in Scraper \cup {flusher}, FlushNext(t)
      PROVE  [Promise!Next]_<<observed, taken>>
  <2>1. /\ hotBuf' = hotBuf /\ cnt' + Len(coldBuf') = cnt + Len(coldBuf)
        /\ \E l \in Flushing : pc[t] \in Flushing /\ pc' = [pc EXCEPT ![t] = l]
    <3>1. CASE Flush(t)
      <4>1. cnt' = cnt + Len(coldBuf) /\ coldBuf' = <<>> /\ hotBuf' = hotBuf
        BY <3>1 DEF Flush, flushColdBuf, bufVars
      <4>2. Len(coldBuf') = 0 /\ cnt' \in Nat
        BY <4>1, AbstractState
      <4> QED BY <3>1, <4>1, <4>2 DEF Flush, Goto, Flushing
    <3>2. CASE Rotate(t)
      BY <3>2 DEF Rotate, rotateStream, Goto, Flushing, bufVars
    <3> QED BY <1>4, <3>1, <3>2 DEF FlushNext
  <2>2. \A s \in Scraper : (pc'[s] \in Flushing) <=> (pc[s] \in Flushing)
    BY <2>1, Threads DEF IInv, TypeOK
  <2>3. observed' = observed
    BY <2>1 DEF observed
  <2> QED BY <2>1, <2>2, <2>3, Stutter
<1>5. CASE UNCHANGED vars
  BY <1>5, Stutter DEF vars, bufVars, flushVars, observed
<1> QED BY <1>1, <1>2, <1>3, <1>4, <1>5 DEF Next

\* Two buffers, two locks and a flush in the background count like one atomic
\* counter, for any number of goroutines: no observation is lost or counted
\* twice, and every scrape reports a number that was right during its call.
THEOREM Refinement == Spec => CountsLikeAtomic
<1>1. Init => Promise!Init
  <2> SUFFICES ASSUME Init PROVE Promise!Init
    OBVIOUS
  <2>1. observed = 0
    BY DEF Init, observed
  <2>2. \A s \in Scraper : scrapeTakes(s) = None
    BY Threads DEF Init, scrapeTakes
  <2> QED BY <2>1, <2>2 DEF Promise!Init
<1>2. IInv /\ IInv' /\ [Next]_vars => [Promise!Next]_<<observed, taken>>
  BY NextRefines
<1>3. IInv /\ IInv' /\ [Next]_vars
      => [Promise!Next]_<<observed, [s \in Scraper |-> scrapeTakes(s)]>>
  BY <1>2 DEF taken
<1> QED BY <1>1, <1>3, Invariance, PTL DEF Spec, CountsLikeAtomic, Promise!Spec
-----------------------------------------------------------------------------
(* Ages: what a busy scrape reports is no older than MaxAge.  Whenever mtx *)
(* is free the streams are as far as the hot buffer, so a flush inserts    *)
(* observations of the head stream's own period, and a stream that is n    *)
(* turns behind the head was emptied AgeBuckets - n periods ago.           *)

\* the rotations until stream i is the head, and the earliest observation it
\* can hold
turnsToHead(i) ==
  IF i >= headStreamIdx THEN i - headStreamIdx ELSE i + AgeBuckets - headStreamIdx
oldest(i) == headStreamExpTime - (AgeBuckets - turnsToHead(i)) * streamDuration

ExpiriesMeet == mtx = None => headStreamExpTime = hotBufExpTime
HotYoung ==
  /\ hotBufExpTime - streamDuration <= clock
  /\ \A i \in DOMAIN hotBuf : hotBufExpTime - streamDuration <= hotBuf[i]
CallsYoung ==
  \A o \in Observer : pc[o] # "idle" =>
    hotBufExpTime - streamDuration <= now[o] /\ now[o] <= clock
ColdYoung ==
  \A i \in DOMAIN coldBuf : headStreamExpTime - streamDuration <= coldBuf[i]
StreamsYoung == \A i \in Stream : \A t \in streams[i] : oldest(i) <= t
SwapsYoung ==
  \A s \in Scraper : pc[s] \in Flushing /\ swapped[s] => now[s] <= hotBufExpTime

Ages ==
  /\ IInv /\ ExpiriesMeet /\ HotYoung /\ CallsYoung /\ ColdYoung
  /\ StreamsYoung /\ SwapsYoung /\ BusySummaryRelevant

\* What a division leaves.
LEMMA DivBounds ==
  ASSUME NEW d \in Nat, NEW m \in Nat \ {0}
  PROVE  m * (d \div m) <= d /\ d < m * (d \div m) + m
OBVIOUS

\* The expiry time that swapBufs sets is not before the time n of its call,
\* and less than one period after it unless it stays where it was.
LEMMA ExpiryBounds ==
  ASSUME hotBufExpTime \in Nat, NEW n \in Nat
  PROVE  /\ n <= nextExpiry(n)
         /\ \/ nextExpiry(n) = hotBufExpTime
            \/ nextExpiry(n) - streamDuration <= n
<1> DEFINE d == n - hotBufExpTime + streamDuration - 1
           q == streamDuration * (d \div streamDuration)
<1>1. streamDuration \in Nat \ {0}
  BY SummaryAssumption
<1>2. CASE n > hotBufExpTime
  <2>1. d \in Nat
    BY <1>1, <1>2
  <2>2. q \in Int /\ q <= d /\ d < q + streamDuration
    <3> HIDE DEF d
    <3> QED BY <2>1, <1>1, DivBounds
  <2>3. nextExpiry(n) = hotBufExpTime + q
    BY <1>2 DEF nextExpiry
  <2> HIDE DEF q
  <2> QED BY <1>1, <2>2, <2>3
<1>3. CASE ~(n > hotBufExpTime)
  BY <1>3 DEF nextExpiry
<1> QED BY <1>2, <1>3

\* The numbers the ages are made of.
LEMMA AgeTypes ==
  ASSUME IInv
  PROVE  /\ streamDuration \in Nat \ {0} /\ AgeBuckets \in Nat \ {0}
         /\ clock \in Nat /\ hotBufExpTime \in Nat /\ headStreamExpTime \in Nat
         /\ headStreamIdx \in 0 .. AgeBuckets - 1
         /\ hotBuf \in Seq(Nat) /\ coldBuf \in Seq(Nat)
         /\ \A t \in Thread : now[t] \in Nat
         /\ \A i \in Stream : streams[i] \subseteq Nat
BY SummaryAssumption DEF IInv, TypeOK, Stream

\* The turns of a stream are between none and all of them.
LEMMA TurnsRange ==
  ASSUME IInv, NEW i \in Stream
  PROVE  /\ turnsToHead(i) \in 0 .. AgeBuckets - 1
         /\ turnsToHead(i) = 0 => i = headStreamIdx
         /\ i = headStreamIdx => turnsToHead(i) = 0
BY AgeTypes DEF turnsToHead, Stream

\* The bound of a stream is a number, at most one period before the expiry
\* time of the head.
LEMMA OldestBounds ==
  ASSUME IInv, NEW i \in Stream
  PROVE  oldest(i) \in Int /\ oldest(i) <= headStreamExpTime - streamDuration
<1> DEFINE k == AgeBuckets - turnsToHead(i)
<1>1. k \in Nat /\ 1 <= k /\ streamDuration \in Nat /\ headStreamExpTime \in Nat
  BY AgeTypes, TurnsRange
<1>2. oldest(i) = headStreamExpTime - k * streamDuration
  BY DEF oldest
<1> HIDE DEF k
<1>3. k * streamDuration \in Int /\ streamDuration <= k * streamDuration
  BY <1>1
<1> QED BY <1>1, <1>2, <1>3

\* Ages depends on no more than this.
LEMMA AgesUnchanged ==
  ASSUME Ages, IInv', clock <= clock',
         UNCHANGED <<mtx, hotBuf, hotBufExpTime, coldBuf, streams, headStreamIdx,
                     headStreamExpTime, now, pc, swapped, report>>
  PROVE  Ages'
<1>1. (ExpiriesMeet /\ ColdYoung /\ SwapsYoung)'
  BY DEF Ages, ExpiriesMeet, ColdYoung, SwapsYoung
<1>2. (HotYoung /\ CallsYoung)'
  <2>1. clock \in Nat /\ clock' \in Nat /\ hotBufExpTime \in Nat /\ streamDuration \in Nat
    BY AgeTypes, SummaryAssumption DEF Ages, IInv, TypeOK
  <2>2. \A o \in Observer : now[o] \in Nat
    BY AgeTypes, Threads DEF Ages
  <2>3. hotBufExpTime - streamDuration <= clock'
    BY <2>1 DEF Ages, HotYoung
  <2>4. CallsYoung'
    BY <2>1, <2>2 DEF Ages, CallsYoung
  <2> QED BY <2>3, <2>4 DEF Ages, HotYoung
<1>3. (StreamsYoung /\ BusySummaryRelevant)'
  BY DEF Ages, StreamsYoung, oldest, turnsToHead, BusySummaryRelevant, Relevant
<1> QED BY <1>1, <1>2, <1>3 DEF Ages

\* Nothing is old when the program starts.
LEMMA AgesInit == Init => Ages
<1> SUFFICES ASSUME Init PROVE Ages
  OBVIOUS
<1>1. IInv
  BY InitInv
<1>2. ExpiriesMeet /\ CallsYoung /\ ColdYoung /\ SwapsYoung
  BY Threads DEF Init, ExpiriesMeet, CallsYoung, ColdYoung, SwapsYoung, Flushing
<1>3. HotYoung
  BY AgeTypes, <1>1 DEF Init, HotYoung
<1>4. StreamsYoung
  BY DEF Init, StreamsYoung
<1>5. BusySummaryRelevant
  BY DEF Init, NoReport, BusySummaryRelevant, Relevant
<1> QED BY <1>1, <1>2, <1>3, <1>4, <1>5 DEF Ages

\* What holds of the streams and of the reports while neither changes.
LEMMA StreamsKept ==
  ASSUME Ages, UNCHANGED <<streams, headStreamIdx, headStreamExpTime, report>>
  PROVE  StreamsYoung' /\ BusySummaryRelevant'
BY DEF Ages, StreamsYoung, oldest, turnsToHead, BusySummaryRelevant, Relevant

\* An observation is called after the period of the hot buffer began.
LEMMA ObserveBeginAges ==
  ASSUME Ages, IInv', NEW o \in Observer, ObserveBegin(o)
  PROVE  Ages'
<1>1. /\ now' = [now EXCEPT ![o] = clock]
      /\ \E l \in {"expired", "append"} : pc' = [pc EXCEPT ![o] = l]
      /\ UNCHANGED <<clock, mtx, hotBuf, hotBufExpTime, coldBuf, streams,
                     headStreamIdx, headStreamExpTime, swapped, report>>
  BY DEF ObserveBegin, Goto, bufVars, flushVars
<1>2. /\ now'[o] = clock /\ \A t \in Thread \ {o} : now'[t] = now[t] /\ pc'[t] = pc[t]
      /\ o \in Thread /\ clock \in Nat
  BY <1>1, Threads DEF Ages, IInv, TypeOK
<1>3. (ExpiriesMeet /\ HotYoung /\ ColdYoung)'
  BY <1>1 DEF Ages, ExpiriesMeet, HotYoung, ColdYoung
<1>4. CallsYoung'
  BY <1>1, <1>2, Threads DEF Ages, CallsYoung, HotYoung
<1>5. SwapsYoung'
  BY <1>1, <1>2, Threads DEF Ages, SwapsYoung
<1> QED BY <1>1, <1>3, <1>4, <1>5, StreamsKept DEF Ages

\* After a swap at time n, which no later call precedes, the hot buffer's
\* period has begun by n, and what the cold buffer holds is of the period of
\* the head stream.
LEMMA SwapAges ==
  ASSUME Ages, mtx = None, NEW n \in Nat, hotBufExpTime - streamDuration <= n,
         n <= clock, swapBufs(n)
  PROVE  /\ hotBuf' = <<>> /\ n <= hotBufExpTime'
         /\ hotBufExpTime' - streamDuration <= n
         /\ ColdYoung'
         /\ UNCHANGED <<streams, headStreamIdx, headStreamExpTime>>
<1>1. /\ coldBuf = <<>> /\ hotBuf' = <<>> /\ coldBuf' = hotBuf
      /\ UNCHANGED <<streams, headStreamIdx, headStreamExpTime>>
  BY Swap DEF Ages
<1>2. hotBufExpTime' = nextExpiry(n)
  BY <1>1 DEF swapBufs
<1>3. hotBufExpTime \in Nat
  BY AgeTypes DEF Ages
<1>4. n <= hotBufExpTime' /\ hotBufExpTime' - streamDuration <= n
  BY <1>2, <1>3, ExpiryBounds
<1>5. headStreamExpTime = hotBufExpTime
  BY DEF Ages, ExpiriesMeet
<1>6. ColdYoung'
  BY <1>1, <1>5 DEF Ages, HotYoung, ColdYoung
<1> QED BY <1>1, <1>4, <1>6

\* An observer hands over a buffer.
LEMMA HandOverAges ==
  ASSUME Ages, IInv', NEW o \in Observer, ObserveExpired(o) \/ ObserveFull(o)
  PROVE  Ages'
<1>1. /\ mtx = None /\ mtx' = flusher /\ swapBufs(now[o]) /\ pc[o] # "idle"
      /\ UNCHANGED <<clock, now, swapped, report>>
      /\ \E l \in {"append", "idle"} :
           pc' = [pc EXCEPT ![o] = l, ![flusher] = "flush"]
  BY DEF ObserveExpired, ObserveFull, lockMtx
<1>2. /\ now[o] \in Nat /\ now[o] <= clock /\ bufMtx = o
      /\ hotBufExpTime - streamDuration <= now[o]
  BY <1>1, AgeTypes, Threads DEF Ages, CallsYoung, IInv, LocksHeld
<1>3. /\ hotBuf' = <<>> /\ ColdYoung'
      /\ hotBufExpTime' - streamDuration <= now[o]
      /\ UNCHANGED <<streams, headStreamIdx, headStreamExpTime>>
  BY <1>1, <1>2, SwapAges
<1>4. \A t \in Thread \ {o, flusher} : pc'[t] = pc[t]
  BY <1>1, Threads DEF Ages, IInv, TypeOK
<1>5. \A p \in Observer \ {o} : pc[p] = "idle"
  BY <1>2 DEF Ages, IInv, LocksHeld
<1>6. CallsYoung'
  <2>1. \A p \in Observer \ {o} : pc'[p] = "idle"
    BY <1>4, <1>5, Threads
  <2> QED BY <2>1, <1>1, <1>2, <1>3 DEF CallsYoung
<1>7. HotYoung'
  <2>1. hotBufExpTime' \in Nat /\ clock \in Nat /\ streamDuration \in Nat
    BY AgeTypes, SummaryAssumption DEF Ages, IInv, TypeOK
  <2>2. hotBufExpTime' - streamDuration <= clock
    <3>1. PICK n \in Nat : n <= clock /\ hotBufExpTime' - streamDuration <= n
      BY <1>2, <1>3
    <3>2. PICK e \in Nat : e = hotBufExpTime'
      BY <2>1
    <3>3. e - streamDuration <= n
      BY <3>1, <3>2
    <3>4. e - streamDuration <= clock
      BY <2>1, <3>1, <3>3
    <3> QED BY <3>2, <3>4
  <2>3. DOMAIN hotBuf' = {}
    BY <1>3
  <2> QED BY <1>1, <2>2, <2>3 DEF HotYoung
<1>8. \A s \in Scraper : pc[s] \notin Flushing
  BY <1>1, Threads DEF Ages, IInv, LocksHeld
<1>9. SwapsYoung'
  BY <1>4, <1>8, Threads DEF SwapsYoung
<1>10. ExpiriesMeet'
  BY <1>1, Threads DEF ExpiriesMeet
<1> QED BY <1>1, <1>3, <1>6, <1>7, <1>9, <1>10, StreamsKept DEF Ages

\* An append puts a young observation in the hot buffer.
LEMMA ObserveAppendAges ==
  ASSUME Ages, IInv', NEW o \in Observer, ObserveAppend(o)
  PROVE  Ages'
<1>1. /\ pc[o] = "append" /\ hotBuf' = Append(hotBuf, now[o])
      /\ \E l \in {"full", "idle"} : pc' = [pc EXCEPT ![o] = l]
      /\ UNCHANGED <<clock, mtx, hotBufExpTime, coldBuf, streams,
                     headStreamIdx, headStreamExpTime, now, swapped, report>>
  BY DEF ObserveAppend, Goto, flushVars
<1>2. \A t \in Thread \ {o} : pc'[t] = pc[t]
  BY <1>1, Threads DEF Ages, IInv, TypeOK
<1>3. (ExpiriesMeet /\ ColdYoung)'
  BY <1>1 DEF Ages, ExpiriesMeet, ColdYoung
<1>4. CallsYoung'
  BY <1>1, <1>2, Threads DEF Ages, CallsYoung
<1>5. SwapsYoung'
  BY <1>1, <1>2, Threads DEF Ages, SwapsYoung
<1>6. HotYoung'
  <2>1. hotBufExpTime - streamDuration <= now[o]
    BY <1>1 DEF Ages, CallsYoung
  <2>2. hotBuf \in Seq(Nat) /\ now[o] \in Nat
    BY AgeTypes, Threads DEF Ages
  <2>3. \A i \in DOMAIN hotBuf' :
          hotBuf'[i] = now[o] \/ (i \in DOMAIN hotBuf /\ hotBuf'[i] = hotBuf[i])
    BY <1>1, <2>2
  <2>4. \A i \in DOMAIN hotBuf' : hotBufExpTime - streamDuration <= hotBuf'[i]
    BY <2>1, <2>3 DEF Ages, HotYoung
  <2> QED BY <1>1, <2>4 DEF Ages, HotYoung
<1> QED BY <1>1, <1>3, <1>4, <1>5, <1>6, StreamsKept DEF Ages

\* A scrape takes bufMtx.
LEMMA WriteBeginAges ==
  ASSUME Ages, IInv', NEW s \in Scraper, WriteBegin(s)
  PROVE  Ages'
<1>1. /\ pc' = [pc EXCEPT ![s] = "lock"]
      /\ UNCHANGED <<clock, mtx, hotBuf, hotBufExpTime, coldBuf, streams,
                     headStreamIdx, headStreamExpTime, now, swapped, report>>
  BY DEF WriteBegin, Goto, bufVars, flushVars
<1>2. pc'[s] = "lock" /\ \A t \in Thread \ {s} : pc'[t] = pc[t]
  BY <1>1, Threads DEF Ages, IInv, TypeOK
<1>3. (ExpiriesMeet /\ HotYoung /\ ColdYoung)'
  BY <1>1 DEF Ages, ExpiriesMeet, HotYoung, ColdYoung
<1>4. CallsYoung'
  BY <1>1, <1>2, Threads DEF Ages, CallsYoung
<1>5. SwapsYoung'
  BY <1>1, <1>2, Threads DEF Ages, SwapsYoung, Flushing
<1> QED BY <1>1, <1>3, <1>4, <1>5, StreamsKept DEF Ages

\* The swap of a scrape that finds observations moves the expiry time of the
\* hot buffer past the time of the scrape.
LEMMA WriteSwapAges ==
  ASSUME Ages, IInv', NEW s \in Scraper, WriteSwap(s)
  PROVE  Ages'
<1>1. /\ mtx = None /\ mtx' = s /\ pc[s] = "lock"
      /\ pc' = [pc EXCEPT ![s] = "flush"] /\ now' = [now EXCEPT ![s] = clock]
      /\ swapped' = [swapped EXCEPT ![s] = hotBuf # <<>>]
      /\ UNCHANGED <<clock, report>>
  BY DEF WriteSwap, lockMtx, Goto
<1>2. /\ clock \in Nat /\ hotBufExpTime \in Nat /\ streamDuration \in Nat
      /\ hotBufExpTime - streamDuration <= clock
      /\ coldBuf = <<>> /\ bufMtx = s
  BY <1>1, AgeTypes, Threads DEF Ages, HotYoung, IInv, ColdBufOwned, LocksHeld
<1>3. /\ hotBuf' = <<>> /\ ColdYoung' /\ hotBufExpTime' - streamDuration <= clock
      /\ hotBuf # <<>> => clock <= hotBufExpTime'
      /\ UNCHANGED <<streams, headStreamIdx, headStreamExpTime>>
  <2>1. CASE hotBuf # <<>>
    <3>1. swapBufs(clock)
      BY <2>1 DEF WriteSwap
    <3> QED BY <3>1, <1>1, <1>2, SwapAges
  <2>2. CASE hotBuf = <<>>
    <3>1. UNCHANGED <<bufVars, flushVars>>
      BY <2>2 DEF WriteSwap
    <3> QED BY <3>1, <2>2, <1>2 DEF bufVars, flushVars, ColdYoung
  <2> QED BY <2>1, <2>2
<1>4. /\ pc'[s] = "flush" /\ now'[s] = clock /\ (swapped'[s] <=> hotBuf # <<>>)
      /\ \A t \in Thread \ {s} : pc'[t] = pc[t] /\ now'[t] = now[t]
  BY <1>1, Threads DEF Ages, IInv, TypeOK
<1>5. \A p \in Observer : pc'[p] = "idle"
  BY <1>2, <1>4, Threads DEF Ages, IInv, LocksHeld
<1>6. \A t \in Scraper \ {s} : pc'[t] \notin Flushing
  BY <1>1, <1>4, Threads DEF Ages, IInv, LocksHeld
<1>7. HotYoung' /\ CallsYoung'
  BY <1>1, <1>3, <1>5 DEF HotYoung, CallsYoung
<1>8. SwapsYoung'
  BY <1>3, <1>4, <1>6 DEF SwapsYoung
<1>9. ExpiriesMeet'
  BY <1>1, Threads DEF ExpiriesMeet
<1> QED BY <1>1, <1>3, <1>7, <1>8, <1>9, StreamsKept DEF Ages

\* A flush inserts observations that are young enough for every stream.
LEMMA FlushAges ==
  ASSUME Ages, IInv', NEW t \in Scraper \cup {flusher}, Flush(t)
  PROVE  Ages'
<1>1. /\ pc[t] = "flush" /\ pc' = [pc EXCEPT ![t] = "rotate"] /\ coldBuf' = <<>>
      /\ streams' = [i \in Stream |-> streams[i] \cup Range(coldBuf)]
      /\ UNCHANGED <<clock, mtx, hotBuf, hotBufExpTime, headStreamIdx,
                     headStreamExpTime, now, swapped, report>>
  BY DEF Flush, Goto, flushColdBuf, bufVars
<1>2. \A u \in Thread \ {t} : pc'[u] = pc[u]
  BY <1>1, Threads DEF Ages, IInv, TypeOK
<1>3. (ExpiriesMeet /\ HotYoung /\ ColdYoung)'
  BY <1>1 DEF Ages, ExpiriesMeet, HotYoung, ColdYoung
<1>4. CallsYoung'
  BY <1>1, <1>2, Threads DEF Ages, CallsYoung
<1>5. SwapsYoung'
  BY <1>1, <1>2, Threads DEF Ages, SwapsYoung, Flushing
<1>6. ASSUME NEW i \in Stream, NEW x \in streams'[i] PROVE oldest(i) <= x
  <2>1. CASE x \in streams[i]
    BY <2>1 DEF Ages, StreamsYoung
  <2>2. CASE x \in Range(coldBuf)
    <3>1. PICK j \in DOMAIN coldBuf : coldBuf[j] = x
      BY <2>2 DEF Range
    <3>2. headStreamExpTime - streamDuration <= x /\ x \in Nat
      BY <3>1, AgeTypes DEF Ages, ColdYoung
    <3>3. oldest(i) \in Int /\ oldest(i) <= headStreamExpTime - streamDuration
      BY OldestBounds DEF Ages
    <3>4. headStreamExpTime \in Nat /\ streamDuration \in Nat
      BY AgeTypes DEF Ages
    <3> QED BY <3>2, <3>3, <3>4
  <2> QED BY <1>1, <1>6, <2>1, <2>2
<1>7. \A i \in Stream : oldest(i)' = oldest(i)
  BY <1>1 DEF oldest, turnsToHead
<1>8. StreamsYoung'
  BY <1>6, <1>7 DEF StreamsYoung
<1>9. BusySummaryRelevant'
  BY <1>1 DEF Ages, BusySummaryRelevant
<1> QED BY <1>3, <1>4, <1>5, <1>8, <1>9 DEF Ages

\* A rotation brings every stream one turn nearer to the head and the expiry
\* time one period on, so no bound changes; the old head is empty.
LEMMA RotateAges ==
  ASSUME Ages, IInv', NEW t \in Scraper \cup {flusher}, Rotate(t)
  PROVE  Ages'
<1>1. /\ pc[t] = "rotate" /\ pc' = [pc EXCEPT ![t] = "rotate"]
      /\ streams' = [streams EXCEPT ![headStreamIdx] = {}]
      /\ headStreamIdx' = (headStreamIdx + 1) % AgeBuckets
      /\ headStreamExpTime' = headStreamExpTime + streamDuration
      /\ UNCHANGED <<clock, mtx, hotBuf, hotBufExpTime, coldBuf,
                     now, swapped, report>>
  BY DEF Rotate, Goto, rotateStream, bufVars
<1>2. pc' = pc /\ mtx = t
  BY <1>1, Threads DEF Ages, IInv, TypeOK, LocksHeld, Flushing
<1>3. coldBuf = <<>>
  BY <1>1, <1>2 DEF Ages, IInv, ColdBufOwned
<1>4. (HotYoung /\ CallsYoung /\ SwapsYoung /\ BusySummaryRelevant)'
  BY <1>1, <1>2 DEF Ages, HotYoung, CallsYoung, SwapsYoung, BusySummaryRelevant
<1>5. ColdYoung'
  BY <1>1, <1>3 DEF ColdYoung
<1>6. ExpiriesMeet'
  BY <1>1, <1>2, Threads DEF ExpiriesMeet
<1>7. ASSUME NEW i \in Stream, NEW x \in streams'[i] PROVE oldest(i)' <= x
  <2>1. i # headStreamIdx /\ x \in streams[i]
    BY <1>1, <1>7 DEF Ages, IInv, TypeOK
  <2>2. /\ AgeBuckets \in Nat \ {0} /\ streamDuration \in Nat
        /\ headStreamIdx \in 0 .. AgeBuckets - 1 /\ headStreamExpTime \in Nat
    BY AgeTypes DEF Ages
  <2>3. headStreamIdx' = IF headStreamIdx + 1 = AgeBuckets THEN 0 ELSE headStreamIdx + 1
    BY <1>1, <2>2
  <2>4. turnsToHead(i)' = turnsToHead(i) - 1
    BY <2>1, <2>2, <2>3 DEF turnsToHead, Stream
  <2>5. PICK k \in Int : k = AgeBuckets - turnsToHead(i)
    BY <2>2, TurnsRange DEF Ages
  <2>6. turnsToHead(i) \in Int
    BY TurnsRange DEF Ages
  <2>7. AgeBuckets - turnsToHead(i)' = k + 1
    BY <2>2, <2>4, <2>5, <2>6
  <2>8. (k + 1) * streamDuration = k * streamDuration + streamDuration
        /\ k * streamDuration \in Int
    BY <2>2
  <2>9. oldest(i)' = (headStreamExpTime + streamDuration) - (k + 1) * streamDuration
    <3>1. oldest(i)' = headStreamExpTime'
                         - (AgeBuckets - turnsToHead(i)') * streamDuration
      BY DEF oldest
    <3> QED BY <1>1, <2>7, <3>1
  <2>10. oldest(i) = headStreamExpTime - k * streamDuration
    BY <2>5 DEF oldest
  <2>11. oldest(i)' = oldest(i)
    BY <2>2, <2>8, <2>9, <2>10
  <2> QED BY <2>1, <2>11 DEF Ages, StreamsYoung
<1>8. StreamsYoung'
  BY <1>7 DEF StreamsYoung
<1> QED BY <1>4, <1>5, <1>6, <1>8 DEF Ages

\* The loop of maybeRotateStreams has brought the streams level with the hot
\* buffer before mtx is let go, so a scrape that swapped at a time before the
\* hot buffer's expiry reads a head stream that is young enough.
LEMMA UnlockAges ==
  ASSUME Ages, IInv', NEW t \in Scraper \cup {flusher},
         \/ t \in Scraper /\ WriteReport(t)
         \/ t = flusher /\ FlushEnd
  PROVE  Ages'
<1>1. /\ hotBufExpTime = headStreamExpTime
      /\ pc[t] = "rotate" /\ pc' = [pc EXCEPT ![t] = "idle"] /\ mtx' = None
      /\ UNCHANGED <<clock, hotBuf, hotBufExpTime, coldBuf, streams,
                     headStreamIdx, headStreamExpTime, now, swapped>>
  BY DEF WriteReport, FlushEnd, Goto, bufVars, flushVars
<1>2. pc'[t] = "idle" /\ \A u \in Thread \ {t} : pc'[u] = pc[u]
  BY <1>1, Threads DEF Ages, IInv, TypeOK
<1>3. (ExpiriesMeet /\ HotYoung /\ ColdYoung)'
  BY <1>1 DEF Ages, ExpiriesMeet, HotYoung, ColdYoung
<1>4. CallsYoung'
  BY <1>1, <1>2, Threads DEF Ages, CallsYoung
<1>5. SwapsYoung'
  BY <1>1, <1>2, Threads DEF Ages, SwapsYoung, Flushing
<1>6. StreamsYoung'
  BY <1>1 DEF Ages, StreamsYoung, oldest, turnsToHead
<1>7. ASSUME t \in Scraper, swapped[t], NEW x \in streams[headStreamIdx]
      PROVE  now[t] - x <= MaxAge
  <2>1. now[t] <= hotBufExpTime
    BY <1>1, <1>7 DEF Ages, SwapsYoung, Flushing
  <2>2. /\ headStreamIdx \in Stream /\ x \in Nat /\ now[t] \in Nat
        /\ AgeBuckets \in Nat /\ streamDuration \in Nat /\ headStreamExpTime \in Nat
    BY <1>7, AgeTypes, Threads DEF Ages, Stream
  <2>3. oldest(headStreamIdx) <= x
    BY <1>7, <2>2 DEF Ages, StreamsYoung
  <2>4. turnsToHead(headStreamIdx) = 0
    BY <2>2, TurnsRange DEF Ages
  <2>5. AgeBuckets - turnsToHead(headStreamIdx) = AgeBuckets
    BY <2>2, <2>4
  <2>6. oldest(headStreamIdx) = headStreamExpTime - MaxAge
    BY <2>5 DEF oldest, MaxAge
  <2>7. MaxAge \in Int
    BY <2>2 DEF MaxAge
  <2> QED BY <1>1, <2>1, <2>2, <2>3, <2>6, <2>7
<1>8. BusySummaryRelevant'
  <2>1. CASE t \in Scraper /\ WriteReport(t)
    <3>1. report' = [report EXCEPT ![t] =
            [count |-> cnt, head |-> streams[headStreamIdx], time |-> now[t],
             swapped |-> swapped[t]]]
      BY <2>1 DEF WriteReport
    <3>2. /\ report'[t].head = streams[headStreamIdx] /\ report'[t].time = now[t]
          /\ report'[t].swapped = swapped[t]
          /\ \A s \in Scraper \ {t} : report'[s] = report[s]
      BY <2>1, <3>1 DEF Ages, IInv, TypeOK
    <3>3. report'[t].swapped => Relevant(report'[t])
      BY <1>7, <2>1, <3>2 DEF Relevant
    <3>4. \A s \in Scraper \ {t} : report'[s].swapped => Relevant(report'[s])
      BY <3>2 DEF Ages, BusySummaryRelevant
    <3> QED BY <3>3, <3>4 DEF BusySummaryRelevant
  <2>2. CASE t = flusher /\ FlushEnd
    BY <2>2 DEF FlushEnd, Ages, BusySummaryRelevant
  <2> QED BY <2>1, <2>2
<1> QED BY <1>3, <1>4, <1>5, <1>6, <1>8 DEF Ages

\* Every step preserves the ages.
LEMMA AgesNext == Ages /\ [Next]_vars => Ages'
<1> SUFFICES ASSUME Ages, [Next]_vars PROVE Ages'
  OBVIOUS
<1> IInv'
  BY NextInv DEF Ages
<1>1. CASE Tick
  <2>1. clock \in Nat
    BY AgeTypes DEF Ages
  <2> QED BY <1>1, <2>1, AgesUnchanged DEF Tick, bufVars, flushVars
<1>2. ASSUME NEW o \in Observer, ObserverNext(o) PROVE Ages'
  BY <1>2, ObserveBeginAges, HandOverAges, ObserveAppendAges DEF ObserverNext
<1>3. ASSUME NEW s \in Scraper, ScraperNext(s) PROVE Ages'
  BY <1>3, WriteBeginAges, WriteSwapAges, UnlockAges DEF ScraperNext
<1>4. ASSUME NEW t \in Scraper \cup {flusher}, FlushNext(t) PROVE Ages'
  BY <1>4, FlushAges, RotateAges DEF FlushNext
<1>5. CASE FlushEnd
  BY <1>5, UnlockAges
<1>6. CASE UNCHANGED vars
  <2>1. clock \in Nat
    BY AgeTypes DEF Ages
  <2> QED BY <1>6, <2>1, AgesUnchanged DEF vars, bufVars, flushVars
<1> QED BY <1>1, <1>2, <1>3, <1>4, <1>5, <1>6 DEF Next

\* A scrape that brings new observations reports none older than MaxAge, for
\* any number of age buckets and any delay of flushes and rotations.
THEOREM BusyScrapesRelevant == Spec => []BusySummaryRelevant
<1>1. Ages => BusySummaryRelevant
  BY DEF Ages
<1> QED BY <1>1, AgesInit, AgesNext, PTL DEF Spec
=============================================================================
