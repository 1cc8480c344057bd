----------------------------- MODULE ScrapeProofs -----------------------------
(***************************************************************************)
(* Proofs about ScrapeOnce for any number of scrapers, processes, pages and   *)
(* outages.  KeyInv is why no URL is fetched twice at once, SerialInv why the  *)
(* circuit's count is exact while its updates do not overlap, FailedInv why it *)
(* is never too high: a count that was read, and each failure on its way to    *)
(* the circuit, is covered by a fetch that failed.  The last part puts the     *)
(* module beside ScrapeJobs, as the instance does.                            *)
(***************************************************************************)
EXTENDS MCScraping, JobProofs

PageInv == \A t \in Scrapers : step[t] # "idle" => page[t] \in Pages

\* Without outages, a scraper that fetches holds its key unless it expired under it.
KeyInv ==
    outages = 0 =>
        \A t \in Scrapers :
            step[t] \in Fetching /\ t \notin overrun => inflight[Shared][page[t]] = t

SerialInv ==
    serial => /\ circuit[Shared].failures = streak
              /\ \A t, q \in Recording : q = t /\ count[t] = streak

\* Failures that happened and are not yet written to the circuit.
Unwritten == {t \in Scrapers : step[t] \in {"failRead", "failWrite"}}

FailedInv ==
    /\ \A s \in Stores : circuit[s].failures + Cardinality(Unwritten) <= failed
    /\ \A t \in Recording : count[t] + Cardinality(Unwritten) <= failed

OnceInv == OnceTypeOK /\ PageInv /\ KeyInv /\ SerialInv /\ FailedInv
-----------------------------------------------------------------------------
LEMMA UnwrittenFinite ==
    ASSUME NEW S, S \subseteq Scrapers
    PROVE  IsFiniteSet(S) /\ Cardinality(S) \in Nat
  BY ScrapeOnceAssumption, FS_Subset, FS_CardinalityType

\* A step that adds no failure, writes none and reads no count keeps FailedInv.
LEMMA FailedKept ==
    ASSUME OnceTypeOK, FailedInv, OnceTypeOK', failed' = failed,
           Unwritten' \subseteq Unwritten, Recording' \subseteq Recording,
           \A s \in Stores : circuit'[s].failures <= circuit[s].failures,
           \A t \in Recording' : count'[t] = count[t]
    PROVE  FailedInv'
<1>1. Cardinality(Unwritten') <= Cardinality(Unwritten)
  BY UnwrittenFinite, FS_Subset DEF Unwritten
<1>2. Cardinality(Unwritten) \in Nat /\ Cardinality(Unwritten') \in Nat
  BY UnwrittenFinite DEF Unwritten
<1>3. failed \in Nat /\ \A s \in Stores : circuit[s].failures \in Nat /\ circuit'[s].failures \in Nat
  BY DEF OnceTypeOK
<1>4. \A t \in Recording : t \in Scrapers /\ count[t] \in Nat
  BY DEF OnceTypeOK, Recording
<1>5. \A s \in Stores : circuit'[s].failures + Cardinality(Unwritten') <= failed'
  BY <1>1, <1>2, <1>3 DEF FailedInv
<1>6. \A t \in Recording' : count'[t] + Cardinality(Unwritten') <= failed'
  BY <1>1, <1>2, <1>3, <1>4 DEF FailedInv
<1> QED
  BY <1>5, <1>6 DEF FailedInv

\* What a store call, the end of a scrape and a move of its coroutine keep.
LEMMA CallsType ==
    ASSUME OnceTypeOK, NEW t \in Scrapers, NEW s \in Stores, Calls(t, s)
    PROVE  outages' \in 0..MaxOutages /\ (outages' = 0 => s = Shared /\ outages = 0)
  BY ScrapeOnceAssumption DEF OnceTypeOK, Calls

LEMMA LeaveType ==
    ASSUME OnceTypeOK, NEW t \in Scrapers, Leave(t)
    PROVE  /\ step' \in [Scrapers -> {"idle"} \cup Scraping]
           /\ page' \in [Scrapers -> Pages \cup {Nobody}]
           /\ tries' \in [Scrapers -> 0..MaxAttempts]
           /\ count' \in [Scrapers -> Nat] /\ overrun' \in SUBSET Scrapers
           /\ step'[t] = "idle" /\ \A q \in Scrapers \ {t} : step'[q] = step[q]
           /\ \A q \in Scrapers \ {t} : count'[q] = count[q]
  BY ScrapeOnceAssumption DEF OnceTypeOK, Leave

LEMMA MoveType ==
    ASSUME OnceTypeOK, NEW t \in Scrapers, NEW l \in Scraping, Move(t, l)
    PROVE  /\ step' \in [Scrapers -> {"idle"} \cup Scraping]
           /\ step'[t] = l /\ \A q \in Scrapers \ {t} : step'[q] = step[q]
           /\ UNCHANGED <<page, tries, count, overrun>>
  BY DEF OnceTypeOK, Move

LEMMA InitOnceInv == OnceInit => OnceInv
<1> SUFFICES ASSUME OnceInit PROVE OnceInv
  OBVIOUS
<1>1. OnceTypeOK
  BY ScrapeOnceAssumption DEF OnceInit, OnceTypeOK, Scraping, Fetching
<1>2. PageInv /\ KeyInv /\ SerialInv
  BY DEF OnceInit, PageInv, KeyInv, SerialInv, Fetching, Recording, Stores
<1>3. Unwritten = {} /\ Recording = {}
  BY DEF OnceInit, Unwritten, Recording
<1>4. FailedInv
  BY <1>3, FS_EmptySet DEF OnceInit, FailedInv
<1> QED
  BY <1>1, <1>2, <1>4 DEF OnceInv
-----------------------------------------------------------------------------
\* A scrape starts with a page and no key.
LEMMA EnterStep ==
    ASSUME OnceInv, NEW t \in Scrapers, NEW u \in Pages, NEW force \in BOOLEAN, Enter(t, u, force)
    PROVE  OnceInv'
<1>0. OnceTypeOK /\ PageInv /\ KeyInv /\ SerialInv /\ FailedInv
  BY DEF OnceInv
<1>1. OnceTypeOK'
  BY <1>0, ScrapeOnceAssumption DEF OnceTypeOK, Scraping, Fetching, Stores, PageInv,
     Enter, Calls
<1>2. PageInv'
  BY <1>0, ScrapeOnceAssumption DEF OnceTypeOK, PageInv, Enter, Calls
<1>3. KeyInv'
  BY <1>0, ScrapeOnceAssumption DEF OnceTypeOK, PageInv, KeyInv, Fetching, Stores,
     Enter, Calls
<1>4. SerialInv'
  BY <1>0, ScrapeOnceAssumption DEF OnceTypeOK, SerialInv, Recording, Stores, Enter,
     Calls
<1>5. /\ failed' = failed /\ Unwritten' \subseteq Unwritten /\ Recording' \subseteq Recording
      /\ \A x \in Recording' : count'[x] = count[x]
  BY <1>0, ScrapeOnceAssumption DEF OnceTypeOK, Unwritten, Recording, Enter, Calls
<1>6. \A x \in Stores : circuit'[x].failures <= circuit[x].failures
  BY <1>0, ScrapeOnceAssumption DEF OnceTypeOK, Stores, Enter, Calls
<1>7. FailedInv'
  BY <1>0, <1>1, <1>5, <1>6, FailedKept
<1> QED
  BY <1>1, <1>2, <1>3, <1>4, <1>7 DEF OnceInv

LEMMA ReadCacheStep ==
    ASSUME OnceInv, NEW t \in Scrapers, ReadCache(t)
    PROVE  OnceInv'
<1>0. OnceTypeOK /\ PageInv /\ KeyInv /\ SerialInv /\ FailedInv
  BY DEF OnceInv
<1>1. OnceTypeOK'
  <2>1. PICK s \in Stores : Calls(t, s) /\ (Leave(t) \/ Move(t, "lock"))
    BY DEF ReadCache
  <2>2. outages' \in 0..MaxOutages
    BY <1>0, <2>1, CallsType
  <2>3. CASE Leave(t)
    BY <1>0, <2>2, <2>3, LeaveType DEF OnceTypeOK, ReadCache
  <2>4. CASE Move(t, "lock")
    BY <1>0, <2>2, <2>4, MoveType DEF OnceTypeOK, ReadCache, Scraping
  <2> QED
    BY <2>1, <2>3, <2>4
<1>2. PageInv'
  BY <1>0, ScrapeOnceAssumption DEF OnceTypeOK, PageInv, ReadCache, Calls, Leave, Move
<1>3. KeyInv'
  BY <1>0, ScrapeOnceAssumption DEF OnceTypeOK, PageInv, KeyInv, Fetching, Stores,
     ReadCache, Calls, Leave, Move
<1>4. SerialInv'
  <2>1. step[t] = "cache" /\ (Leave(t) \/ Move(t, "lock")) /\ UNCHANGED <<circuit, serial, streak>>
    BY DEF ReadCache
  <2>2. Recording' = Recording /\ \A q \in Recording : count'[q] = count[q]
    BY <1>0, <2>1, LeaveType, MoveType DEF Recording, Scraping
  <2> QED
    BY <1>0, <2>1, <2>2 DEF SerialInv
<1>5. /\ failed' = failed /\ Unwritten' \subseteq Unwritten /\ Recording' \subseteq Recording
      /\ \A x \in Recording' : count'[x] = count[x]
  BY <1>0, ScrapeOnceAssumption DEF OnceTypeOK, Unwritten, Recording, ReadCache, Calls,
     Leave, Move
<1>6. \A x \in Stores : circuit'[x].failures <= circuit[x].failures
  BY <1>0, ScrapeOnceAssumption DEF OnceTypeOK, Stores, ReadCache, Calls, Leave, Move
<1>7. FailedInv'
  BY <1>0, <1>1, <1>5, <1>6, FailedKept
<1> QED
  BY <1>1, <1>2, <1>3, <1>4, <1>7 DEF OnceInv

\* Whoever finds no key has no fetcher of its page beside it.
LEMMA TakeInflightStep ==
    ASSUME OnceInv, NEW t \in Scrapers, TakeInflight(t)
    PROVE  OnceInv'
<1>0. OnceTypeOK /\ PageInv /\ KeyInv /\ SerialInv /\ FailedInv
  BY DEF OnceInv
<1>1. OnceTypeOK'
  <2>1. PICK s \in Stores :
           /\ Calls(t, s)
           /\ \/ /\ inflight' = [inflight EXCEPT ![s][page[t]] = t]
                 /\ step' = [step EXCEPT ![t] = "fetch"]
                 /\ tries' = [tries EXCEPT ![t] = 1]
                 /\ UNCHANGED <<page, count, overrun>>
              \/ Move(t, "taken") /\ UNCHANGED inflight
    BY DEF TakeInflight
  <2>2. outages' \in 0..MaxOutages
    BY <1>0, <2>1, CallsType
  <2>3. inflight' \in [Stores -> [Pages -> Scrapers \cup {Nobody}]]
    <3>1. inflight[s] \in [Pages -> Scrapers \cup {Nobody}]
      BY <1>0 DEF OnceTypeOK
    <3>2. [inflight[s] EXCEPT ![page[t]] = t] \in [Pages -> Scrapers \cup {Nobody}]
      BY <3>1
    <3>3. \/ inflight' = inflight
          \/ inflight' = [inflight EXCEPT ![s] = [inflight[s] EXCEPT ![page[t]] = t]]
      BY <2>1
    <3> QED
      BY <1>0, <3>2, <3>3 DEF OnceTypeOK
  <2>4. tries' \in [Scrapers -> 0..MaxAttempts]
    BY <1>0, <2>1, ScrapeOnceAssumption DEF OnceTypeOK, Move
  <2>5. step' \in [Scrapers -> {"idle"} \cup Scraping]
    BY <1>0, <2>1 DEF OnceTypeOK, Scraping, Fetching, Move
  <2> QED
    BY <1>0, <2>1, <2>2, <2>3, <2>4, <2>5 DEF OnceTypeOK, TakeInflight, Move
<1>2. PageInv'
  BY <1>0, ScrapeOnceAssumption DEF OnceTypeOK, PageInv, TakeInflight, Calls, Move
<1>3. KeyInv'
  BY <1>0, ScrapeOnceAssumption DEF OnceTypeOK, PageInv, KeyInv, Fetching, Stores,
     TakeInflight, Calls, Move
<1>4. SerialInv'
  BY <1>0, ScrapeOnceAssumption DEF OnceTypeOK, SerialInv, Recording, Stores,
     TakeInflight, Calls, Move
<1>5. /\ failed' = failed /\ Unwritten' \subseteq Unwritten /\ Recording' \subseteq Recording
      /\ \A x \in Recording' : count'[x] = count[x]
  BY <1>0, ScrapeOnceAssumption DEF OnceTypeOK, Unwritten, Recording, TakeInflight,
     Calls, Move
<1>6. \A x \in Stores : circuit'[x].failures <= circuit[x].failures
  BY <1>0, ScrapeOnceAssumption DEF OnceTypeOK, Stores, TakeInflight, Calls, Move
<1>7. FailedInv'
  BY <1>0, <1>1, <1>5, <1>6, FailedKept
<1> QED
  BY <1>1, <1>2, <1>3, <1>4, <1>7 DEF OnceInv

LEMMA FoundTakenStep ==
    ASSUME OnceInv, NEW t \in Scrapers, FoundTaken(t)
    PROVE  OnceInv'
<1>0. OnceTypeOK /\ PageInv /\ KeyInv /\ SerialInv /\ FailedInv
  BY DEF OnceInv
<1>1. OnceTypeOK'
  BY <1>0, ScrapeOnceAssumption DEF OnceTypeOK, Scraping, Fetching, Stores, PageInv,
     FoundTaken, Calls, Leave
<1>2. PageInv'
  BY <1>0, ScrapeOnceAssumption DEF OnceTypeOK, PageInv, FoundTaken, Calls, Leave
<1>3. KeyInv'
  BY <1>0, ScrapeOnceAssumption DEF OnceTypeOK, PageInv, KeyInv, Fetching, Stores,
     FoundTaken, Calls, Leave
<1>4. SerialInv'
  BY <1>0, ScrapeOnceAssumption DEF OnceTypeOK, SerialInv, Recording, Stores,
     FoundTaken, Calls, Leave
<1>5. /\ failed' = failed /\ Unwritten' \subseteq Unwritten /\ Recording' \subseteq Recording
      /\ \A x \in Recording' : count'[x] = count[x]
  BY <1>0, ScrapeOnceAssumption DEF OnceTypeOK, Unwritten, Recording, FoundTaken, Calls,
     Leave
<1>6. \A x \in Stores : circuit'[x].failures <= circuit[x].failures
  BY <1>0, ScrapeOnceAssumption DEF OnceTypeOK, Stores, FoundTaken, Calls, Leave
<1>7. FailedInv'
  BY <1>0, <1>1, <1>5, <1>6, FailedKept
<1> QED
  BY <1>1, <1>2, <1>3, <1>4, <1>7 DEF OnceInv

LEMMA FetchOkStep ==
    ASSUME OnceInv, NEW t \in Scrapers, FetchOk(t)
    PROVE  OnceInv'
<1>0. OnceTypeOK /\ PageInv /\ KeyInv /\ SerialInv /\ FailedInv
  BY DEF OnceInv
<1>1. OnceTypeOK'
  BY <1>0, ScrapeOnceAssumption DEF OnceTypeOK, Scraping, Fetching, Stores, PageInv,
     FetchOk, Move
<1>2. PageInv'
  BY <1>0, ScrapeOnceAssumption DEF OnceTypeOK, PageInv, FetchOk, Move
<1>3. KeyInv'
  BY <1>0, ScrapeOnceAssumption DEF OnceTypeOK, PageInv, KeyInv, Fetching, Stores,
     FetchOk, Move
<1>4. SerialInv'
  BY <1>0, ScrapeOnceAssumption DEF OnceTypeOK, SerialInv, Recording, Stores, FetchOk,
     Move
<1>5. /\ failed' = failed /\ Unwritten' \subseteq Unwritten /\ Recording' \subseteq Recording
      /\ \A x \in Recording' : count'[x] = count[x]
  BY <1>0, ScrapeOnceAssumption DEF OnceTypeOK, Unwritten, Recording, FetchOk, Move
<1>6. \A x \in Stores : circuit'[x].failures <= circuit[x].failures
  BY <1>0, ScrapeOnceAssumption DEF OnceTypeOK, Stores, FetchOk, Move
<1>7. FailedInv'
  BY <1>0, <1>1, <1>5, <1>6, FailedKept
<1> QED
  BY <1>1, <1>2, <1>3, <1>4, <1>7 DEF OnceInv

LEMMA WriteCacheStep ==
    ASSUME OnceInv, NEW t \in Scrapers, WriteCache(t)
    PROVE  OnceInv'
<1>0. OnceTypeOK /\ PageInv /\ KeyInv /\ SerialInv /\ FailedInv
  BY DEF OnceInv
<1>1. OnceTypeOK'
  BY <1>0, ScrapeOnceAssumption DEF OnceTypeOK, Scraping, Fetching, Stores, PageInv,
     WriteCache, Calls, Move
<1>2. PageInv'
  BY <1>0, ScrapeOnceAssumption DEF OnceTypeOK, PageInv, WriteCache, Calls, Move
<1>3. KeyInv'
  BY <1>0, ScrapeOnceAssumption DEF OnceTypeOK, PageInv, KeyInv, Fetching, Stores,
     WriteCache, Calls, Move
<1>4. SerialInv'
  BY <1>0, ScrapeOnceAssumption DEF OnceTypeOK, SerialInv, Recording, Stores,
     WriteCache, Calls, Move
<1>5. /\ failed' = failed /\ Unwritten' \subseteq Unwritten /\ Recording' \subseteq Recording
      /\ \A x \in Recording' : count'[x] = count[x]
  BY <1>0, ScrapeOnceAssumption DEF OnceTypeOK, Unwritten, Recording, WriteCache, Calls,
     Move
<1>6. \A x \in Stores : circuit'[x].failures <= circuit[x].failures
  BY <1>0, ScrapeOnceAssumption DEF OnceTypeOK, Stores, WriteCache, Calls, Move
<1>7. FailedInv'
  BY <1>0, <1>1, <1>5, <1>6, FailedKept
<1> QED
  BY <1>1, <1>2, <1>3, <1>4, <1>7 DEF OnceInv

\* A success that overlaps a recorded failure ends the serial history.
LEMMA RecordSuccessStep ==
    ASSUME OnceInv, NEW t \in Scrapers, RecordSuccess(t)
    PROVE  OnceInv'
<1>0. OnceTypeOK /\ PageInv /\ KeyInv /\ SerialInv /\ FailedInv
  BY DEF OnceInv
<1>1. OnceTypeOK'
  BY <1>0, ScrapeOnceAssumption DEF OnceTypeOK, Scraping, Fetching, Stores, PageInv,
     RecordSuccess, Calls, Leave
<1>2. PageInv'
  BY <1>0, ScrapeOnceAssumption DEF OnceTypeOK, PageInv, RecordSuccess, Calls, Leave
<1>3. KeyInv'
  BY <1>0, ScrapeOnceAssumption DEF OnceTypeOK, PageInv, KeyInv, Fetching, Stores,
     RecordSuccess, Calls, Leave
<1>4. SerialInv'
  <2>1. PICK s \in Stores :
           /\ circuit' = [circuit EXCEPT ![s] = [failures |-> 0, open |-> FALSE]]
           /\ serial' = (serial /\ s = Shared /\ Recording = {})
    BY DEF RecordSuccess
  <2>2. streak' = 0 /\ Leave(t)
    BY DEF RecordSuccess
  <2>3. Recording' \subseteq Recording
    BY <1>0, <2>2, LeaveType DEF Recording
  <2>4. serial' => circuit'[Shared].failures = 0 /\ Recording = {}
    BY <1>0, <2>1 DEF OnceTypeOK
  <2> QED
    BY <2>2, <2>3, <2>4 DEF SerialInv
<1>5. /\ failed' = failed /\ Unwritten' \subseteq Unwritten /\ Recording' \subseteq Recording
      /\ \A x \in Recording' : count'[x] = count[x]
  BY <1>0, ScrapeOnceAssumption DEF OnceTypeOK, Unwritten, Recording, RecordSuccess,
     Calls, Leave
<1>6. \A x \in Stores : circuit'[x].failures <= circuit[x].failures
  BY <1>0, ScrapeOnceAssumption DEF OnceTypeOK, Stores, RecordSuccess, Calls, Leave
<1>7. FailedInv'
  BY <1>0, <1>1, <1>5, <1>6, FailedKept
<1> QED
  BY <1>1, <1>2, <1>3, <1>4, <1>7 DEF OnceInv

LEMMA CancelStep ==
    ASSUME OnceInv, NEW t \in Scrapers, Cancel(t)
    PROVE  OnceInv'
<1>0. OnceTypeOK /\ PageInv /\ KeyInv /\ SerialInv /\ FailedInv
  BY DEF OnceInv
<1>1. OnceTypeOK'
  BY <1>0, ScrapeOnceAssumption DEF OnceTypeOK, Scraping, Fetching, Stores, PageInv,
     Cancel, Leave
<1>2. PageInv'
  BY <1>0, ScrapeOnceAssumption DEF OnceTypeOK, PageInv, Cancel, Leave
<1>3. KeyInv'
  BY <1>0, ScrapeOnceAssumption DEF OnceTypeOK, PageInv, KeyInv, Fetching, Stores,
     Cancel, Leave
<1>4. SerialInv'
  BY <1>0, ScrapeOnceAssumption DEF OnceTypeOK, SerialInv, Recording, Stores, Cancel,
     Leave
<1>5. /\ failed' = failed /\ Unwritten' \subseteq Unwritten /\ Recording' \subseteq Recording
      /\ \A x \in Recording' : count'[x] = count[x]
  BY <1>0, ScrapeOnceAssumption DEF OnceTypeOK, Unwritten, Recording, Cancel, Leave
<1>6. \A x \in Stores : circuit'[x].failures <= circuit[x].failures
  BY <1>0, ScrapeOnceAssumption DEF OnceTypeOK, Stores, Cancel, Leave
<1>7. FailedInv'
  BY <1>0, <1>1, <1>5, <1>6, FailedKept
<1> QED
  BY <1>1, <1>2, <1>3, <1>4, <1>7 DEF OnceInv

\* What a process loses is its own: the key in Redis stays.
LEMMA DieStep ==
    ASSUME OnceInv, NEW p \in Processes, Die(p)
    PROVE  OnceInv'
<1>0. OnceTypeOK /\ PageInv /\ KeyInv /\ SerialInv /\ FailedInv
  BY DEF OnceInv
<1>1. OnceTypeOK'
  BY <1>0, ScrapeOnceAssumption DEF OnceTypeOK, Scraping, Fetching, Stores, PageInv, Die
<1>2. PageInv'
  BY <1>0, ScrapeOnceAssumption DEF OnceTypeOK, PageInv, Die
<1>3. KeyInv'
  BY <1>0, ScrapeOnceAssumption DEF OnceTypeOK, PageInv, KeyInv, Fetching, Stores, Die
<1>4. SerialInv'
  BY <1>0, ScrapeOnceAssumption DEF OnceTypeOK, SerialInv, Recording, Stores, Die
<1>5. /\ failed' = failed /\ Unwritten' \subseteq Unwritten /\ Recording' \subseteq Recording
      /\ \A x \in Recording' : count'[x] = count[x]
  BY <1>0, ScrapeOnceAssumption DEF OnceTypeOK, Unwritten, Recording, Die
<1>6. \A x \in Stores : circuit'[x].failures <= circuit[x].failures
  BY <1>0, ScrapeOnceAssumption DEF OnceTypeOK, Stores, Die
<1>7. FailedInv'
  BY <1>0, <1>1, <1>5, <1>6, FailedKept
<1> QED
  BY <1>1, <1>2, <1>3, <1>4, <1>7 DEF OnceInv

\* The scraper under which a key expires is overrun.
LEMMA InflightExpiresStep ==
    ASSUME OnceInv, NEW s \in Stores, NEW u \in Pages, InflightExpires(s, u)
    PROVE  OnceInv'
<1>0. OnceTypeOK /\ PageInv /\ KeyInv /\ SerialInv /\ FailedInv
  BY DEF OnceInv
<1>1. OnceTypeOK'
  BY <1>0, ScrapeOnceAssumption DEF OnceTypeOK, Scraping, Fetching, Stores, PageInv,
     InflightExpires
<1>2. PageInv'
  BY <1>0, ScrapeOnceAssumption DEF OnceTypeOK, PageInv, InflightExpires
<1>3. KeyInv'
  BY <1>0, ScrapeOnceAssumption DEF OnceTypeOK, PageInv, KeyInv, Fetching, Stores,
     InflightExpires
<1>4. SerialInv'
  BY <1>0, ScrapeOnceAssumption DEF OnceTypeOK, SerialInv, Recording, Stores,
     InflightExpires
<1>5. /\ failed' = failed /\ Unwritten' \subseteq Unwritten /\ Recording' \subseteq Recording
      /\ \A x \in Recording' : count'[x] = count[x]
  BY <1>0, ScrapeOnceAssumption DEF OnceTypeOK, Unwritten, Recording, InflightExpires
<1>6. \A x \in Stores : circuit'[x].failures <= circuit[x].failures
  BY <1>0, ScrapeOnceAssumption DEF OnceTypeOK, Stores, InflightExpires
<1>7. FailedInv'
  BY <1>0, <1>1, <1>5, <1>6, FailedKept
<1> QED
  BY <1>1, <1>2, <1>3, <1>4, <1>7 DEF OnceInv

LEMMA CacheExpiresStep ==
    ASSUME OnceInv, NEW s \in Stores, NEW u \in Pages, CacheExpires(s, u)
    PROVE  OnceInv'
<1>0. OnceTypeOK /\ PageInv /\ KeyInv /\ SerialInv /\ FailedInv
  BY DEF OnceInv
<1>1. OnceTypeOK'
  BY <1>0, ScrapeOnceAssumption DEF OnceTypeOK, Scraping, Fetching, Stores, PageInv,
     CacheExpires
<1>2. PageInv'
  BY <1>0, ScrapeOnceAssumption DEF OnceTypeOK, PageInv, CacheExpires
<1>3. KeyInv'
  BY <1>0, ScrapeOnceAssumption DEF OnceTypeOK, PageInv, KeyInv, Fetching, Stores,
     CacheExpires
<1>4. SerialInv'
  BY <1>0, ScrapeOnceAssumption DEF OnceTypeOK, SerialInv, Recording, Stores,
     CacheExpires
<1>5. /\ failed' = failed /\ Unwritten' \subseteq Unwritten /\ Recording' \subseteq Recording
      /\ \A x \in Recording' : count'[x] = count[x]
  BY <1>0, ScrapeOnceAssumption DEF OnceTypeOK, Unwritten, Recording, CacheExpires
<1>6. \A x \in Stores : circuit'[x].failures <= circuit[x].failures
  BY <1>0, ScrapeOnceAssumption DEF OnceTypeOK, Stores, CacheExpires
<1>7. FailedInv'
  BY <1>0, <1>1, <1>5, <1>6, FailedKept
<1> QED
  BY <1>1, <1>2, <1>3, <1>4, <1>7 DEF OnceInv

LEMMA CircuitClosesStep ==
    ASSUME OnceInv, NEW s \in Stores, CircuitCloses(s)
    PROVE  OnceInv'
<1>0. OnceTypeOK /\ PageInv /\ KeyInv /\ SerialInv /\ FailedInv
  BY DEF OnceInv
<1>1. OnceTypeOK'
  BY <1>0, ScrapeOnceAssumption DEF OnceTypeOK, Scraping, Fetching, Stores, PageInv,
     CircuitCloses
<1>2. PageInv'
  BY <1>0, ScrapeOnceAssumption DEF OnceTypeOK, PageInv, CircuitCloses
<1>3. KeyInv'
  BY <1>0, ScrapeOnceAssumption DEF OnceTypeOK, PageInv, KeyInv, Fetching, Stores,
     CircuitCloses
<1>4. SerialInv'
  BY <1>0, ScrapeOnceAssumption DEF OnceTypeOK, SerialInv, Recording, Stores,
     CircuitCloses
<1>5. /\ failed' = failed /\ Unwritten' \subseteq Unwritten /\ Recording' \subseteq Recording
      /\ \A x \in Recording' : count'[x] = count[x]
  BY <1>0, ScrapeOnceAssumption DEF OnceTypeOK, Unwritten, Recording, CircuitCloses
<1>6. \A x \in Stores : circuit'[x].failures <= circuit[x].failures
  BY <1>0, ScrapeOnceAssumption DEF OnceTypeOK, Stores, CircuitCloses
<1>7. FailedInv'
  BY <1>0, <1>1, <1>5, <1>6, FailedKept
<1> QED
  BY <1>1, <1>2, <1>3, <1>4, <1>7 DEF OnceInv

LEMMA CircuitExpiresStep ==
    ASSUME OnceInv, CircuitExpires
    PROVE  OnceInv'
<1>0. OnceTypeOK /\ PageInv /\ KeyInv /\ SerialInv /\ FailedInv
  BY DEF OnceInv
<1>1. OnceTypeOK'
  BY <1>0, ScrapeOnceAssumption DEF OnceTypeOK, Scraping, Fetching, Stores, PageInv,
     CircuitExpires
<1>2. PageInv'
  BY <1>0, ScrapeOnceAssumption DEF OnceTypeOK, PageInv, CircuitExpires
<1>3. KeyInv'
  BY <1>0, ScrapeOnceAssumption DEF OnceTypeOK, PageInv, KeyInv, Fetching, Stores,
     CircuitExpires
<1>4. SerialInv'
  BY <1>0, ScrapeOnceAssumption DEF OnceTypeOK, SerialInv, Recording, Stores,
     CircuitExpires
<1>5. /\ failed' = failed /\ Unwritten' \subseteq Unwritten /\ Recording' \subseteq Recording
      /\ \A x \in Recording' : count'[x] = count[x]
  BY <1>0, ScrapeOnceAssumption DEF OnceTypeOK, Unwritten, Recording, CircuitExpires
<1>6. \A x \in Stores : circuit'[x].failures <= circuit[x].failures
  BY <1>0, ScrapeOnceAssumption DEF OnceTypeOK, Stores, CircuitExpires
<1>7. FailedInv'
  BY <1>0, <1>1, <1>5, <1>6, FailedKept
<1> QED
  BY <1>1, <1>2, <1>3, <1>4, <1>7 DEF OnceInv

\* A failure counts before it is written.
LEMMA FetchFailsStep ==
    ASSUME OnceInv, NEW t \in Scrapers, FetchFails(t)
    PROVE  OnceInv'
<1>0. OnceTypeOK /\ PageInv /\ KeyInv /\ SerialInv /\ FailedInv
  BY DEF OnceInv
<1>1. OnceTypeOK'
  BY <1>0, ScrapeOnceAssumption DEF OnceTypeOK, Scraping, Fetching, Stores, PageInv,
     FetchFails
<1>2. PageInv'
  BY <1>0, ScrapeOnceAssumption DEF OnceTypeOK, PageInv, FetchFails
<1>3. KeyInv'
  BY <1>0, ScrapeOnceAssumption DEF OnceTypeOK, PageInv, KeyInv, Fetching, Stores,
     FetchFails
<1>4. SerialInv'
  BY <1>0, ScrapeOnceAssumption DEF OnceTypeOK, SerialInv, Recording, Stores, FetchFails
<1>5. Unwritten' = Unwritten \union {t} /\ t \notin Unwritten /\ Recording' = Recording
  BY <1>0 DEF OnceTypeOK, Unwritten, Recording, FetchFails
<1>6. Cardinality(Unwritten') = Cardinality(Unwritten) + 1 /\ Cardinality(Unwritten) \in Nat
  BY <1>5, UnwrittenFinite, FS_AddElement DEF Unwritten
<1>7. failed' = failed + 1 /\ UNCHANGED <<circuit, count>> /\ failed \in Nat
  BY <1>0 DEF OnceTypeOK, FetchFails
<1>8. FailedInv'
  <2>1. \A s \in Stores : circuit[s].failures \in Nat
    BY <1>0 DEF OnceTypeOK
  <2>2. \A x \in Recording : count[x] \in Nat
    BY <1>0 DEF OnceTypeOK, Recording
  <2>3. \A s \in Stores : circuit'[s].failures + Cardinality(Unwritten') <= failed'
    BY <1>0, <1>6, <1>7, <2>1 DEF FailedInv
  <2>4. \A x \in Recording' : count'[x] + Cardinality(Unwritten') <= failed'
    BY <1>0, <1>5, <1>6, <1>7, <2>2 DEF FailedInv
  <2> QED
    BY <2>3, <2>4 DEF FailedInv
<1> QED
  BY <1>1, <1>2, <1>3, <1>4, <1>8 DEF OnceInv

\* The count read leaves room for every failure still unwritten.
LEMMA ReadFailuresStep ==
    ASSUME OnceInv, NEW t \in Scrapers, ReadFailures(t)
    PROVE  OnceInv'
<1>0. OnceTypeOK /\ PageInv /\ KeyInv /\ SerialInv /\ FailedInv
  BY DEF OnceInv
<1>0a. PICK z \in Stores :
          /\ Calls(t, z)
          /\ LET forgets == z # Shared /\ ~circuit[z].open IN
             /\ count' = [count EXCEPT ![t] = IF forgets THEN 0 ELSE circuit[z].failures]
             /\ circuit' = IF forgets THEN [circuit EXCEPT ![z].failures = 0] ELSE circuit
          /\ serial' = (serial /\ z = Shared /\ Recording = {})
  BY DEF ReadFailures
<1>1. OnceTypeOK'
  <2>1. outages' \in 0..MaxOutages
    BY <1>0, <1>0a, CallsType
  <2>2. circuit' \in [Stores -> [failures : Nat, open : BOOLEAN]]
    BY <1>0, <1>0a DEF OnceTypeOK
  <2>3. count' \in [Scrapers -> Nat]
    BY <1>0, <1>0a DEF OnceTypeOK
  <2>4. serial' \in BOOLEAN
    BY <1>0a
  <2> QED
    BY <1>0, <2>1, <2>2, <2>3, <2>4 DEF OnceTypeOK, ReadFailures, Scraping, Fetching
<1>2. PageInv'
  BY <1>0, ScrapeOnceAssumption DEF OnceTypeOK, PageInv, ReadFailures, Calls
<1>3. KeyInv'
  BY <1>0, ScrapeOnceAssumption DEF OnceTypeOK, PageInv, KeyInv, Fetching, Stores,
     ReadFailures, Calls
<1>4. SerialInv'
  <2>1. SUFFICES ASSUME serial'
                 PROVE  /\ circuit'[Shared].failures = streak'
                        /\ \A x, q \in Recording' : q = x /\ count'[x] = streak'
    BY DEF SerialInv
  <2>2. serial /\ z = Shared /\ Recording = {}
    BY <1>0a, <2>1
  <2>3. circuit' = circuit /\ count' = [count EXCEPT ![t] = circuit[Shared].failures]
    BY <1>0a, <2>2
  <2>4. Recording' = {t} /\ streak' = streak
    BY <1>0, <2>2 DEF OnceTypeOK, Recording, ReadFailures
  <2>5. circuit[Shared].failures = streak /\ count'[t] = streak
    BY <1>0, <2>2, <2>3 DEF SerialInv, OnceTypeOK
  <2> QED
    BY <2>3, <2>4, <2>5
<1>5. /\ Unwritten' = Unwritten /\ Recording' = Recording \union {t} /\ failed' = failed
      /\ t \in Unwritten /\ t \notin Recording
  BY <1>0 DEF OnceTypeOK, Unwritten, Recording, ReadFailures
<1>6. /\ \A s \in Stores : circuit'[s].failures <= circuit[s].failures
      /\ \A x \in Recording : count'[x] = count[x]
      /\ \E s \in Stores : count'[t] <= circuit[s].failures
  BY <1>0, <1>5, ScrapeOnceAssumption DEF OnceTypeOK, Recording, Stores, ReadFailures,
     Calls
<1>7. /\ Cardinality(Unwritten) \in Nat /\ failed \in Nat /\ count'[t] \in Nat
      /\ \A s \in Stores : circuit[s].failures \in Nat /\ circuit'[s].failures \in Nat
  BY <1>0, <1>1, UnwrittenFinite DEF OnceTypeOK, Unwritten
<1>8. FailedInv'
  <2>1. \A s \in Stores : circuit'[s].failures + Cardinality(Unwritten') <= failed'
    BY <1>0, <1>5, <1>6, <1>7 DEF FailedInv
  <2>2. count'[t] + Cardinality(Unwritten') <= failed'
    BY <1>0, <1>5, <1>6, <1>7 DEF FailedInv
  <2>3. \A x \in Recording : count'[x] + Cardinality(Unwritten') <= failed'
    BY <1>0, <1>5, <1>6 DEF FailedInv
  <2> QED
    BY <1>5, <2>1, <2>2, <2>3 DEF FailedInv
<1> QED
  BY <1>1, <1>2, <1>3, <1>4, <1>8 DEF OnceInv

\* The failure leaves the unwritten ones as it enters the circuit.
LEMMA WriteFailuresStep ==
    ASSUME OnceInv, NEW t \in Scrapers, WriteFailures(t)
    PROVE  OnceInv'
<1>0. OnceTypeOK /\ PageInv /\ KeyInv /\ SerialInv /\ FailedInv
  BY DEF OnceInv
<1>0a. PICK z \in Stores :
          /\ Calls(t, z)
          /\ circuit' = [circuit EXCEPT ![z] = [failures |-> count[t] + 1,
                                                open |-> count[t] + 1 >= Threshold]]
          /\ serial' = (serial /\ z = Shared)
  BY DEF WriteFailures
<1>1. OnceTypeOK'
  <2>1. outages' \in 0..MaxOutages
    BY <1>0, <1>0a, CallsType
  <2>2. circuit' \in [Stores -> [failures : Nat, open : BOOLEAN]]
    BY <1>0, <1>0a DEF OnceTypeOK
  <2>3. serial' \in BOOLEAN /\ streak' \in Nat
    BY <1>0, <1>0a DEF OnceTypeOK, WriteFailures
  <2>4. CASE Leave(t)
    BY <1>0, <2>1, <2>2, <2>3, <2>4, LeaveType DEF OnceTypeOK, WriteFailures
  <2>5. CASE ~Leave(t)
    <3>1. /\ tries[t] < MaxAttempts
          /\ step' = [step EXCEPT ![t] = "fetch"]
          /\ tries' = [tries EXCEPT ![t] = @ + 1]
          /\ count' = [count EXCEPT ![t] = 0]
          /\ UNCHANGED <<page, overrun>>
      BY <2>5 DEF WriteFailures
    <3>2. tries' \in [Scrapers -> 0..MaxAttempts]
      BY <1>0, <3>1, ScrapeOnceAssumption DEF OnceTypeOK
    <3> QED
      BY <1>0, <2>1, <2>2, <2>3, <3>1, <3>2
         DEF OnceTypeOK, WriteFailures, Scraping, Fetching
  <2> QED
    BY <2>4, <2>5
<1>2. PageInv'
  BY <1>0, ScrapeOnceAssumption DEF OnceTypeOK, PageInv, WriteFailures, Calls, Leave
<1>3. KeyInv'
  BY <1>0, ScrapeOnceAssumption DEF OnceTypeOK, PageInv, KeyInv, Fetching, Stores,
     WriteFailures, Calls, Leave
<1>4. SerialInv'
  <2>1. SUFFICES ASSUME serial'
                 PROVE  /\ circuit'[Shared].failures = streak'
                        /\ \A x, q \in Recording' : q = x /\ count'[x] = streak'
    BY DEF SerialInv
  <2>2. serial /\ z = Shared
    BY <1>0a, <2>1
  <2>3. t \in Recording /\ Recording' \subseteq Recording \ {t} /\ streak' = streak + 1
    BY <1>0 DEF OnceTypeOK, Recording, WriteFailures, Leave
  <2>4. Recording = {t} /\ count[t] = streak
    BY <1>0, <2>2, <2>3 DEF SerialInv
  <2>5. circuit'[Shared].failures = streak'
    BY <1>0, <1>0a, <2>2, <2>3, <2>4 DEF OnceTypeOK
  <2> QED
    BY <2>3, <2>4, <2>5
<1>5. /\ Unwritten' = Unwritten \ {t} /\ t \in Unwritten /\ failed' = failed
      /\ Recording' = Recording \ {t} /\ t \in Recording
      /\ \A x \in Recording' : count'[x] = count[x]
  BY <1>0 DEF OnceTypeOK, Unwritten, Recording, WriteFailures, Leave
<1>6. Cardinality(Unwritten') = Cardinality(Unwritten) - 1 /\ Cardinality(Unwritten) \in Nat
  BY <1>5, UnwrittenFinite, FS_RemoveElement DEF Unwritten
<1>7. \A s \in Stores : \/ circuit'[s].failures = circuit[s].failures
                        \/ circuit'[s].failures = count[t] + 1
  BY <1>0 DEF OnceTypeOK, WriteFailures
<1>8. /\ failed \in Nat /\ \A s \in Stores : circuit[s].failures \in Nat
      /\ \A x \in Recording : count[x] \in Nat
  BY <1>0 DEF OnceTypeOK, Recording
<1>9. FailedInv'
  <2>1. ASSUME NEW s \in Stores PROVE circuit'[s].failures + Cardinality(Unwritten') <= failed'
    BY <1>0, <1>5, <1>6, <1>7, <1>8 DEF FailedInv
  <2>2. \A x \in Recording' : count'[x] + Cardinality(Unwritten') <= failed'
    BY <1>0, <1>5, <1>6, <1>8 DEF FailedInv
  <2> QED
    BY <2>1, <2>2 DEF FailedInv
<1> QED
  BY <1>1, <1>2, <1>3, <1>4, <1>9 DEF OnceInv
-----------------------------------------------------------------------------
LEMMA NextOnceInv == OnceInv /\ [OnceNext]_onceVars => OnceInv'
<1> SUFFICES ASSUME OnceInv, [OnceNext]_onceVars PROVE OnceInv'
  OBVIOUS
<1>1. CASE \E t \in Scrapers, u \in Pages, force \in BOOLEAN : Enter(t, u, force)
  BY <1>1, EnterStep
<1>2. CASE \E t \in Scrapers : Scrape(t) \/ Cancel(t)
  BY <1>2, ReadCacheStep, TakeInflightStep, FoundTakenStep, FetchOkStep, FetchFailsStep,
     WriteCacheStep, RecordSuccessStep, ReadFailuresStep, WriteFailuresStep, CancelStep
     DEF Scrape
<1>3. CASE \E p \in Processes : Die(p)
  BY <1>3, DieStep
<1>4. CASE \E s \in Stores, u \in Pages : InflightExpires(s, u) \/ CacheExpires(s, u)
  BY <1>4, InflightExpiresStep, CacheExpiresStep
<1>5. CASE CircuitExpires \/ \E s \in Stores : CircuitCloses(s)
  BY <1>5, CircuitExpiresStep, CircuitClosesStep
<1>6. CASE UNCHANGED onceVars
  BY <1>6 DEF onceVars, OnceInv, OnceTypeOK, PageInv, KeyInv, SerialInv, FailedInv, Unwritten,
     Recording
<1> QED
  BY <1>1, <1>2, <1>3, <1>4, <1>5, <1>6 DEF OnceNext

\* Every step of a scraper, of an expiring key and of a dying process keeps the invariant.
THEOREM OnceInvariance == OnceSpec => []OnceInv
  BY InitOnceInv, NextOnceInv, PTL DEF OnceSpec

\* The state of scrapers, keys, cache and circuits stays in its types.
THEOREM OnceTypeCorrect == OnceSpec => []OnceTypeOK
<1>1. OnceInv => OnceTypeOK
  BY DEF OnceInv
<1> QED
  BY <1>1, OnceInvariance, PTL

\* While Redis answers, two scrapers fetch one URL at once only if a key expired under one.
THEOREM FetchedByOne == OnceSpec => []OneFetchPerUrl
<1>1. OnceInv => OneFetchPerUrl
  BY DEF OnceInv, KeyInv, OneFetchPerUrl
<1> QED
  BY <1>1, OnceInvariance, PTL

\* The circuit never shows more failures than there were, and exactly those since the last
\* success as long as its updates do not overlap.
THEOREM CircuitIsHonest == OnceSpec => []CircuitCountsFailures
<1>1. ASSUME OnceInv PROVE CircuitCountsFailures
  <2>1. Cardinality(Unwritten) \in Nat
    BY UnwrittenFinite DEF Unwritten
  <2>2. failed \in Nat /\ \A s \in Stores : circuit[s].failures \in Nat
    BY <1>1 DEF OnceInv, OnceTypeOK
  <2> QED
    BY <1>1, <2>1, <2>2 DEF OnceInv, SerialInv, FailedInv, CircuitCountsFailures
<1> QED
  BY <1>1, OnceInvariance, PTL
-----------------------------------------------------------------------------
(* The instance.                                                             *)

\* A behaviour of the instance is one of either module, the other one stuttering.
LEMMA InstanceRefines == MCSpec => JobsSpec /\ OnceSpec
<1>1. MCInit => JobsInit /\ OnceInit
  BY DEF MCInit
<1>2. [MCNext]_<<jobVars, onceVars, part>> => [JobsNext]_jobVars /\ [OnceNext]_onceVars
  BY DEF MCNext, IdentifiersUsed
<1> QED
  BY <1>1, <1>2, PTL DEF MCSpec, JobsSpec, OnceSpec

\* Both modules' variables stay in their types, whichever of them moves.
THEOREM ScrapingTypeCorrect == MCSpec => []ScrapingTypeOK
BY InstanceRefines, JobsTypeCorrect, OnceTypeCorrect, PTL DEF ScrapingTypeOK
===============================================================================
