------------------------------- MODULE Summary -------------------------------
(***************************************************************************)
(* A metric of type summary (prometheus/summary.go), as dnsDurations and   *)
(* storeDurations keep one for every combination of their labels.  Request *)
(* goroutines observe durations into hotBuf under bufMtx; when the buffer  *)
(* is full or expired, its content is handed over in coldBuf to a          *)
(* goroutine that adds it to the counter and to the age buckets and holds  *)
(* mtx meanwhile.  A scrape does the same in its own goroutine.            *)
(*                                                                         *)
(* An observation is represented by the time of its call.                  *)
(***************************************************************************)
EXTENDS Integers, Sequences, FiniteSets, Functions

CONSTANTS
  Observer,        \* goroutines of requests
  Scraper,         \* goroutines of scrapes
  flusher,         \* the goroutine of asyncFlush: mtx admits one at a time
  None,
  BufCap,          \* SummaryOpts.BufCap
  AgeBuckets,      \* SummaryOpts.AgeBuckets
  streamDuration,  \* SummaryOpts.MaxAge / AgeBuckets
  MaxTime, MaxObs  \* bounds: the clock, the observations

Thread == Observer \cup Scraper \cup {flusher}
Time == 0..MaxTime
Stream == 0..(AgeBuckets - 1)
MaxAge == AgeBuckets * streamDuration

ASSUME SummaryAssumption ==
  /\ Observer \cap Scraper = {} /\ flusher \notin Observer \cup Scraper
  /\ None \notin Thread /\ None \notin Nat
  /\ BufCap \in Nat \ {0} /\ AgeBuckets \in Nat \ {0}
  /\ streamDuration \in Nat \ {0} /\ MaxTime \in Nat /\ MaxObs \in Nat

VARIABLES
  clock,
  bufMtx, mtx,         \* the thread that holds the lock, or None
  hotBuf, coldBuf,
  cnt,
  streams,             \* by age bucket: the observations inserted in it
  headStreamIdx,
  hotBufExpTime, headStreamExpTime,
  pc,
  now,                 \* by thread: what its time.Now() returned
  swapped,             \* by scraper: its Write found hotBuf not empty
  report,              \* by scraper: its last result
  panicked

bufVars == <<hotBuf, hotBufExpTime>>
flushVars == <<coldBuf, cnt, streams, headStreamIdx, headStreamExpTime>>
vars == <<clock, bufMtx, mtx, bufVars, flushVars, pc, now, swapped, report,
          panicked>>

NoReport == [count |-> 0, head |-> {}, time |-> 0, swapped |-> TRUE]

Init ==
  /\ clock = 0
  /\ bufMtx = None /\ mtx = None
  /\ hotBuf = <<>> /\ coldBuf = <<>>
  /\ cnt = 0
  /\ streams = [i \in Stream |-> {}] /\ headStreamIdx = 0
  /\ hotBufExpTime = streamDuration /\ headStreamExpTime = streamDuration
  /\ pc = [t \in Thread |-> "idle"]
  /\ now = [t \in Thread |-> 0]
  /\ swapped = [s \in Scraper |-> FALSE]
  /\ report = [s \in Scraper |-> NoReport]
  /\ panicked = FALSE

\* a panic ends the process
Goto(t, here, there) ==
  ~panicked /\ pc[t] = here /\ pc' = [pc EXCEPT ![t] = there]

Tick ==
  /\ clock < MaxTime /\ clock' = clock + 1
  /\ UNCHANGED <<bufMtx, mtx, bufVars, flushVars, pc, now, swapped, report,
                 panicked>>

-----------------------------------------------------------------------------
(* Parts of several calls.                                                 *)

\* the first expiry time at or after n, in steps of streamDuration
nextExpiry(n) ==
  IF n > hotBufExpTime
  THEN hotBufExpTime + streamDuration *
         ((n - hotBufExpTime + streamDuration - 1) \div streamDuration)
  ELSE hotBufExpTime

swapBufs(n) ==
  /\ IF coldBuf # <<>>
     THEN panicked' = TRUE /\ UNCHANGED <<hotBuf, coldBuf, hotBufExpTime>>
     ELSE /\ hotBuf' = coldBuf /\ coldBuf' = hotBuf
          /\ hotBufExpTime' = nextExpiry(n)
          /\ UNCHANGED panicked
  /\ UNCHANGED <<cnt, streams, headStreamIdx, headStreamExpTime>>

\* mutant: takes the buffer over while another flush is still running
lockMtx_Ignored(t) == mtx' = t

lockMtx(t) == mtx = None /\ mtx' = t

\* mutant: the last observation of a full buffer is not counted
flushColdBuf_NoCount ==
  /\ streams' = [i \in Stream |-> streams[i] \cup Range(coldBuf)]
  /\ cnt' = cnt + (IF Len(coldBuf) = BufCap THEN BufCap - 1 ELSE Len(coldBuf))
  /\ coldBuf' = <<>>
  /\ UNCHANGED <<headStreamIdx, headStreamExpTime>>

\* every stream gets every observation
flushColdBuf ==
  /\ streams' = [i \in Stream |-> streams[i] \cup Range(coldBuf)]
  /\ cnt' = cnt + Len(coldBuf)
  /\ coldBuf' = <<>>
  /\ UNCHANGED <<headStreamIdx, headStreamExpTime>>

\* mutant: the old head keeps its observations
rotateStream_NoReset ==
  /\ headStreamIdx' = (headStreamIdx + 1) % AgeBuckets
  /\ headStreamExpTime' = headStreamExpTime + streamDuration
  /\ UNCHANGED <<streams, coldBuf, cnt>>

\* mutant: the index runs one past the last stream
rotateStream_NoWrap ==
  /\ streams' = [streams EXCEPT ![headStreamIdx] = {}]
  /\ headStreamIdx' = (headStreamIdx + 1) % (AgeBuckets + 1)
  /\ headStreamExpTime' = headStreamExpTime + streamDuration
  /\ UNCHANGED <<coldBuf, cnt>>

\* one turn of the loop of maybeRotateStreams
rotateStream ==
  /\ streams' = [streams EXCEPT ![headStreamIdx] = {}]
  /\ headStreamIdx' = (headStreamIdx + 1) % AgeBuckets
  /\ headStreamExpTime' = headStreamExpTime + streamDuration
  /\ UNCHANGED <<coldBuf, cnt>>

-----------------------------------------------------------------------------
(* Observe, by the goroutine of a request.                                 *)

observed == cnt + Len(coldBuf) + Len(hotBuf)

ObserveBegin(o) ==
  /\ observed < MaxObs
  /\ bufMtx = None /\ bufMtx' = o
  /\ now' = [now EXCEPT ![o] = clock]
  /\ Goto(o, "idle", IF clock > hotBufExpTime THEN "expired" ELSE "append")
  /\ UNCHANGED <<clock, mtx, bufVars, flushVars, swapped, report, panicked>>

\* asyncFlush with the expired buffer: mtx stays locked for the new goroutine
ObserveExpired(o) ==
  /\ ~panicked /\ pc[o] = "expired" /\ lockMtx(flusher)
  /\ swapBufs(now[o])
  /\ pc' = [pc EXCEPT ![o] = "append", ![flusher] = "flush"]
  /\ UNCHANGED <<clock, bufMtx, now, swapped, report>>

\* mutant: the buffer is handed over one observation too late
isFull_Late(buf) == Len(buf) > BufCap

isFull(buf) == Len(buf) = BufCap

ObserveAppend(o) ==
  /\ hotBuf' = Append(hotBuf, now[o])
  /\ \/ isFull(hotBuf') /\ Goto(o, "append", "full") /\ UNCHANGED bufMtx
     \/ ~isFull(hotBuf') /\ Goto(o, "append", "idle") /\ bufMtx' = None
  /\ UNCHANGED <<clock, mtx, hotBufExpTime, flushVars, now, swapped, report,
                 panicked>>

\* asyncFlush with the full buffer
ObserveFull(o) ==
  /\ ~panicked /\ pc[o] = "full" /\ lockMtx(flusher)
  /\ swapBufs(now[o])
  /\ pc' = [pc EXCEPT ![o] = "idle", ![flusher] = "flush"]
  /\ bufMtx' = None
  /\ UNCHANGED <<clock, now, swapped, report>>

-----------------------------------------------------------------------------
(* Write, by the goroutine of a scrape.                                    *)

WriteBegin(s) ==
  /\ bufMtx = None /\ bufMtx' = s
  /\ Goto(s, "idle", "lock")
  /\ UNCHANGED <<clock, mtx, bufVars, flushVars, now, swapped, report,
                 panicked>>

\* an empty buffer is not swapped: its expiry time stays where it is
WriteSwap(s) ==
  /\ lockMtx(s)
  /\ now' = [now EXCEPT ![s] = clock]
  /\ swapped' = [swapped EXCEPT ![s] = hotBuf # <<>>]
  /\ IF hotBuf # <<>>
     THEN swapBufs(clock)
     ELSE UNCHANGED <<bufVars, flushVars, panicked>>
  /\ bufMtx' = None
  /\ Goto(s, "lock", "flush")
  /\ UNCHANGED <<clock, report>>

\* the counter and the quantiles of the head stream
WriteReport(s) ==
  /\ hotBufExpTime = headStreamExpTime
  /\ Goto(s, "rotate", "idle")
  /\ mtx' = None
  /\ report' = [report EXCEPT ![s] =
       [count |-> cnt, head |-> streams[headStreamIdx], time |-> now[s],
        swapped |-> swapped[s]]]
  /\ UNCHANGED <<clock, bufMtx, bufVars, flushVars, now, swapped, panicked>>

-----------------------------------------------------------------------------
(* flushColdBuf, by the goroutine of asyncFlush or of a scrape.            *)

Flush(t) ==
  /\ Goto(t, "flush", "rotate")
  /\ flushColdBuf
  /\ UNCHANGED <<clock, bufMtx, mtx, bufVars, now, swapped, report, panicked>>

\* mutant: the test of the loop is on the clock, not on the hot buffer
Rotate_Clock(t) ==
  /\ clock > headStreamExpTime
  /\ Goto(t, "rotate", "rotate")
  /\ rotateStream
  /\ UNCHANGED <<clock, bufMtx, mtx, bufVars, now, swapped, report, panicked>>

Rotate(t) ==
  /\ hotBufExpTime # headStreamExpTime
  /\ Goto(t, "rotate", "rotate")
  /\ rotateStream
  /\ UNCHANGED <<clock, bufMtx, mtx, bufVars, now, swapped, report, panicked>>

FlushEnd ==
  /\ hotBufExpTime = headStreamExpTime
  /\ Goto(flusher, "rotate", "idle")
  /\ mtx' = None
  /\ UNCHANGED <<clock, bufMtx, bufVars, flushVars, now, swapped, report,
                 panicked>>

-----------------------------------------------------------------------------
ObserverNext(o) ==
  ObserveBegin(o) \/ ObserveExpired(o) \/ ObserveAppend(o) \/ ObserveFull(o)
ScraperNext(s) == WriteBegin(s) \/ WriteSwap(s) \/ WriteReport(s)
FlushNext(t) == Flush(t) \/ Rotate(t)

Next ==
  \/ Tick
  \/ \E o \in Observer : ObserverNext(o)
  \/ \E s \in Scraper : ScraperNext(s)
  \/ \E t \in Scraper \cup {flusher} : FlushNext(t)
  \/ FlushEnd

Spec == Init /\ [][Next]_vars

\* the runtime schedules every goroutine that can run; only the holder of
\* bufMtx ever waits for mtx, so nothing is asked of the mutex itself, and no
\* further call is ever obliged to be made
Fairness ==
  /\ \A o \in Observer :
       WF_vars(ObserveExpired(o) \/ ObserveAppend(o) \/ ObserveFull(o))
  /\ \A s \in Scraper : WF_vars(WriteSwap(s) \/ WriteReport(s))
  /\ \A t \in Scraper \cup {flusher} : WF_vars(FlushNext(t))
  /\ WF_vars(FlushEnd)
FairSpec == Spec /\ Fairness

-----------------------------------------------------------------------------
(* Properties.                                                             *)

TypeOK ==
  /\ clock \in Nat
  /\ bufMtx \in Observer \cup Scraper \cup {None}
  /\ mtx \in Scraper \cup {flusher, None}
  /\ hotBuf \in Seq(Nat) /\ coldBuf \in Seq(Nat)
  /\ cnt \in Nat
  /\ streams \in [Stream -> SUBSET Nat] /\ headStreamIdx \in Stream
  /\ hotBufExpTime \in Nat /\ headStreamExpTime \in Nat
  /\ pc \in [Thread -> {"idle", "expired", "append", "full", "lock", "flush",
                        "rotate"}]
  /\ now \in [Thread -> Nat] /\ swapped \in [Scraper -> BOOLEAN]
  /\ report \in [Scraper -> [count : Nat, head : SUBSET Nat, time : Nat,
                             swapped : BOOLEAN]]
  /\ panicked \in BOOLEAN

\* The assertion of swapBufs ("coldBuf is not empty", summary.go:334) never
\* fails: whoever holds mtx has emptied the cold buffer before letting it go,
\* even though asyncFlush unlocks in another goroutine than it locked in.
ColdBufNeverTwice == ~panicked

\* The hot buffer never outgrows its capacity, so append never moves it to a
\* new array, and outside an Observe call it has room for the next one.
HotBufHasRoom ==
  /\ Len(hotBuf) <= BufCap
  /\ Len(hotBuf) = BufCap => bufMtx \in Observer /\ pc[bufMtx] = "full"

\* What a scrape that brings new observations says of the durations is about
\* observations no older than MaxAge ("the duration for which an observation
\* stays relevant for the summary", summary.go:106), however late flushes and
\* rotations were.
Relevant(r) == \A t \in r.head : r.time - t <= MaxAge
BusySummaryRelevant == \A s \in Scraper : report[s].swapped => Relevant(report[s])

\* The number a scrape is going to report, fixed when it swaps the buffers.
scrapeTakes(s) ==
  IF pc[s] \in {"flush", "rotate"} THEN cnt + Len(coldBuf) ELSE None

Promise == INSTANCE Recorder
  WITH total <- observed, taken <- [s \in Scraper |-> scrapeTakes(s)],
       NoScrape <- None

\* Buffers, two locks and a flush in the background count like one atomic
\* counter: no observation is lost or counted twice, and a scrape reports
\* their number at a moment between its call and its return.
CountsLikeAtomic == Promise!Spec

\* Every Observe and every Write that has got bufMtx returns: neither the
\* order of the two locks nor the loop of maybeRotateStreams, whose test is
\* for equal times, can hold a goroutine for ever.
EveryCallReturns ==
  \A t \in Thread : pc[t] # "idle" ~> pc[t] = "idle"
=============================================================================
