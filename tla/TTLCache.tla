------------------------------ MODULE TTLCache ------------------------------
(***************************************************************************)
(* core/cache.py: the cache in front of the public-data service, as         *)
(* clients/gbsafe.py uses it.  Every reader goes through get_or_set.        *)
(*                                                                          *)
(* Readers are coroutines of one event loop: a step runs to the next await  *)
(* that suspends.  Those are a lock of the key that is taken and the call   *)
(* of the factory; the guard around the table of locks never suspends,      *)
(* since nobody awaits anything while holding it.  asyncio.Lock is first    *)
(* come, first served.                                                      *)
(***************************************************************************)
EXTENDS Naturals, FiniteSets, SequencesExt

CONSTANTS
  Reader,       \* requests that may be reading at the same time
  Key,
  LongLived,    \* keys read with ttl_s = _LONG_TTL_S
  Ttl, LongTtl, \* lifetimes, in ticks
  MaxEntries,   \* max_entries
  MaxTime       \* bound: ticks of the clock

ASSUME CacheAssumption ==
  /\ LongLived \subseteq Key
  /\ {Ttl, LongTtl, MaxTime} \subseteq Nat
  /\ MaxEntries \in Nat \ {0}
  /\ Key # {}

VARIABLES
  now,     \* time.monotonic()
  store,   \* store[k]: the entry of k, for the keys that have one
  line,    \* line[k]: readers at the lock of k; the first one has it
  pc,      \* pc[r]: where reader r is suspended
  key,     \* key[r]: what r asks for
  age      \* age[r]: how long ago the answer r got last had been stored

vars == <<now, store, line, pc, key, age>>

\* null: the factory returned None, which get cannot tell from a miss.
Entry == [at : Nat, expires : Nat, null : BOOLEAN]

TypeOK ==
  /\ now \in 0..MaxTime
  /\ DOMAIN store \subseteq Key /\ \A k \in DOMAIN store : store[k] \in Entry
  /\ line \in [Key -> Seq(Reader)]
  /\ pc \in [Reader -> {"idle", "waiting", "fetching"}]
  /\ key \in [Reader -> Key]
  /\ age \in [Reader -> Nat]
  /\ \A k \in Key, r \in Reader :   \* in line at its key, once, while under way
       Cardinality({i \in DOMAIN line[k] : line[k][i] = r})
         = (IF pc[r] # "idle" /\ key[r] = k THEN 1 ELSE 0)

Init ==
  /\ now = 0
  /\ store = <<>>
  /\ line = [k \in Key |-> <<>>]
  /\ pc = [r \in Reader |-> "idle"]
  /\ key = [r \in Reader |-> CHOOSE k \in Key : TRUE]
  /\ age = [r \in Reader |-> 0]

----------------------------------------------------------------------------

TtlOf(k) == IF k \in LongLived THEN LongTtl ELSE Ttl

Without(keys) == [k \in DOMAIN store \ keys |-> store[k]]

\* Slip: an entry is good while it is there.
IsExpired_Never(entry) == FALSE

IsExpired(entry) == entry.expires < now

\* get(k) finds a value.
IsHit(k) == k \in DOMAIN store /\ ~IsExpired(store[k]) /\ ~store[k].null

\* The store after get(k): an expired entry is removed on sight.
AfterGet(k) ==
  IF k \in DOMAIN store /\ IsExpired(store[k]) THEN Without({k}) ELSE store

Expired == {k \in DOMAIN store : IsExpired(store[k])}

\* Keys of the entries that expire first; dict order decides between equals.
SoonestToExpire(keys) ==
  {k \in keys : \A other \in keys : store[k].expires <= store[other].expires}

\* The sets of keys a set() may remove: none while there is room, else the
\* expired ones, and one more if that makes no room.
Evicted ==
  IF Cardinality(DOMAIN store) < MaxEntries THEN {{}}
  ELSE IF Expired # {} THEN {Expired}
  ELSE {{k} : k \in SoonestToExpire(DOMAIN store)}

\* Answer reader r and let go of the lock, if it has it.
Leave(r) ==
  /\ pc' = [pc EXCEPT ![r] = "idle"]
  /\ \E i \in DOMAIN line[key[r]] :
       /\ line[key[r]][i] = r
       /\ line' = [line EXCEPT ![key[r]] = RemoveAt(@, i)]
  /\ UNCHANGED key

----------------------------------------------------------------------------

\* The first get finds a value.
Hit(r, k) ==
  /\ pc[r] = "idle"
  /\ IsHit(k)
  /\ key' = [key EXCEPT ![r] = k]
  /\ age' = [age EXCEPT ![r] = now - store[k].at]
  /\ UNCHANGED <<now, store, line, pc>>

\* Slip: each call makes a lock of its own.
LockIsFree_Always(k) == TRUE

LockIsFree(k) == line[k] = <<>>

\* It does not: on to the lock and, if that is free, to the factory.
Miss(r, k) ==
  /\ pc[r] = "idle"
  /\ ~IsHit(k)
  /\ store' = AfterGet(k)
  /\ key' = [key EXCEPT ![r] = k]
  /\ line' = [line EXCEPT ![k] = Append(@, r)]
  /\ pc' = [pc EXCEPT ![r] = IF LockIsFree(k) THEN "fetching" ELSE "waiting"]
  /\ age' = [age EXCEPT ![r] = 0]
  /\ UNCHANGED now

\* Slip: the store is not looked at again under the lock.
SecondLook_Skipped(k) == FALSE

\* Has another reader stored a value meanwhile?
SecondLook(k) == IsHit(k)

\* The lock is r's now: the second get, then the answer or the factory.
Resume(r) ==
  LET k == key[r]
  IN /\ pc[r] = "waiting"
     /\ Head(line[k]) = r
     /\ store' = AfterGet(k)
     /\ IF SecondLook(k)
        THEN Leave(r) /\ age' = [age EXCEPT ![r] = now - store[k].at]
        ELSE pc' = [pc EXCEPT ![r] = "fetching"] /\ UNCHANGED <<line, key, age>>
     /\ UNCHANGED now

\* The factory answers: set(), and the answer.
Fetched(r, null) ==
  LET k == key[r]
      entry == [at |-> now, expires |-> now + TtlOf(k), null |-> null]
  IN /\ pc[r] = "fetching"
     /\ \E keys \in Evicted :
          store' = [other \in (DOMAIN store \ keys) \cup {k} |->
                      IF other = k THEN entry ELSE store[other]]
     /\ age' = [age EXCEPT ![r] = 0]
     /\ Leave(r)
     /\ UNCHANGED now

\* Slip: the lock is released on success only.
LeaveFailed_Locked(r) ==
  /\ pc' = [pc EXCEPT ![r] = "idle"]
  /\ UNCHANGED <<line, key>>

\* "async with lock" lets go of the lock whatever happens.
LeaveFailed(r) == Leave(r)

\* The factory raises, or the request is cancelled meanwhile.
FetchFails(r) ==
  /\ pc[r] = "fetching"
  /\ LeaveFailed(r)
  /\ UNCHANGED <<now, store, age>>

\* The request is cancelled while it waits for the lock.
Cancelled(r) ==
  /\ pc[r] = "waiting"
  /\ Leave(r)
  /\ UNCHANGED <<now, store, age>>

Invalidate(k) ==
  /\ store' = Without({k})
  /\ UNCHANGED <<now, line, pc, key, age>>

Clear ==
  /\ store' = <<>>
  /\ UNCHANGED <<now, line, pc, key, age>>

Tick ==
  /\ now < MaxTime
  /\ now' = now + 1
  /\ UNCHANGED <<store, line, pc, key, age>>

----------------------------------------------------------------------------

Next ==
  \/ \E r \in Reader :
       \/ \E k \in Key : Hit(r, k) \/ Miss(r, k)
       \/ Resume(r)
       \/ \E null \in BOOLEAN : Fetched(r, null)
       \/ FetchFails(r)
       \/ Cancelled(r)
  \/ \E k \in Key : Invalidate(k)
  \/ Clear
  \/ Tick

\* A reader that was woken runs, and a call of the factory ends: httpx gives
\* every request a timeout.
Fairness ==
  \A r \in Reader :
    /\ WF_vars(Resume(r))
    /\ WF_vars(FetchFails(r) \/ \E null \in BOOLEAN : Fetched(r, null))

Spec == Init /\ [][Next]_vars /\ Fairness

----------------------------------------------------------------------------

(* get_or_set: concurrent requests for a key are one call of the factory,   *)
(* whatever fails, is cancelled, expires or is evicted while they wait.     *)
SingleFlight ==
  \A r, other \in Reader :
    pc[r] = "fetching" /\ pc[other] = "fetching" /\ key[r] = key[other] => r = other

(* get_or_set: nobody calls the factory for a key that has a good value,    *)
(* not even a reader that found none and then waited for the lock.          *)
NoNeedlessFetch ==
  [][\A r \in Reader : pc[r] # "fetching" /\ pc'[r] = "fetching" =>
       LET k == key'[r]
       IN ~(k \in DOMAIN store /\ now <= store[k].expires /\ ~store[k].null)]_vars

(* get: an answer was stored no longer ago than its key may live, however   *)
(* long the reader has waited for it.                                       *)
AnswersAreFresh == \A r \in Reader : age[r] <= TtlOf(key[r])

(* set: the store never outgrows max_entries.                               *)
StoreIsBounded == Cardinality(DOMAIN store) <= MaxEntries

(* get_or_set: every reader gets an answer or an error; a failed call lets  *)
(* the next one in line try.                                                *)
EveryReaderLeaves == \A r \in Reader : pc[r] # "idle" ~> pc[r] = "idle"

=============================================================================
