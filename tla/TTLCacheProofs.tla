--------------------------- MODULE TTLCacheProofs ---------------------------
(***************************************************************************)
(* Proofs about TTLCache, for any readers, keys, lifetimes and room.        *)
(***************************************************************************)
EXTENDS TTLCache, SequenceTheorems, TLAPS

----------------------------------------------------------------------------
(* The inductive invariant.                                                 *)

Shape ==
  /\ now \in Nat
  /\ DOMAIN store \subseteq Key
  /\ line \in [Key -> Seq(Reader)]
  /\ pc \in [Reader -> {"idle", "waiting", "fetching"}]
  /\ key \in [Reader -> Key]
  /\ age \in [Reader -> Nat]

\* An entry lives as long as its key may.
EntriesAreDated ==
  \A k \in DOMAIN store :
    /\ store[k].at \in Nat /\ store[k].at <= now
    /\ store[k].expires = store[k].at + TtlOf(k)

\* Who stands in line at a key is under way and asks for it.
LineIsOfItsKey ==
  \A k \in Key : \A i \in DOMAIN line[k] : key[line[k][i]] = k /\ pc[line[k][i]] # "idle"

\* Who is under way stands in line at its key.
EveryoneIsInLine ==
  \A r \in Reader : pc[r] # "idle" => \E i \in DOMAIN line[key[r]] : line[key[r]][i] = r

\* Nobody stands in line twice.
OncePerLine ==
  \A k \in Key : \A i, j \in DOMAIN line[k] : line[k][i] = line[k][j] => i = j

\* Who calls the factory has the lock.
FetcherIsFirst ==
  \A r \in Reader : pc[r] = "fetching" => line[key[r]] # <<>> /\ line[key[r]][1] = r

IInv ==
  /\ Shape
  /\ EntriesAreDated
  /\ LineIsOfItsKey
  /\ EveryoneIsInLine
  /\ OncePerLine
  /\ FetcherIsFirst
  /\ AnswersAreFresh

----------------------------------------------------------------------------
(* Sequences.                                                               *)

LEMMA Line ==
  ASSUME NEW q \in Seq(Reader)
  PROVE  Len(q) \in Nat /\ DOMAIN q = 1..Len(q) /\ q = <<>> <=> Len(q) = 0
         /\ \A i \in 1..Len(q) : q[i] \in Reader
BY LenProperties, EmptySeq, ElementOfSeq

LEMMA Removed ==
  ASSUME NEW q \in Seq(Reader), NEW i \in 1..Len(q)
  PROVE  /\ RemoveAt(q, i) \in Seq(Reader)
         /\ Len(RemoveAt(q, i)) = Len(q) - 1
         /\ \A j \in 1..(Len(q) - 1) :
              RemoveAt(q, i)[j] = IF j < i THEN q[j] ELSE q[j + 1]
<1> DEFINE front == SubSeq(q, 1, i - 1)
           rest == SubSeq(q, i + 1, Len(q))
<1>1. Len(q) \in Nat /\ \A j \in 1..Len(q) : q[j] \in Reader
  BY Line
<1>2. /\ front \in Seq(Reader) /\ Len(front) = i - 1
      /\ \A j \in 1..(i - 1) : front[j] = q[j]
  <2>1. \A j \in 1..(i - 1) : q[j] \in Reader
    BY <1>1
  <2>2. 1 \in Int /\ i - 1 \in Int
    BY <1>1
  <2>3. /\ front \in Seq(Reader)
        /\ Len(front) = IF 1 <= i - 1 THEN i - 1 - 1 + 1 ELSE 0
        /\ \A j \in 1..(i - 1 - 1 + 1) : front[j] = q[1 + j - 1]
    BY <2>1, <2>2, SubSeqProperties
  <2> QED
    BY <1>1, <2>3
<1>3. /\ rest \in Seq(Reader) /\ Len(rest) = Len(q) - i
      /\ \A j \in 1..(Len(q) - i) : rest[j] = q[i + j]
  <2>1. \A j \in (i + 1)..Len(q) : q[j] \in Reader
    BY <1>1
  <2>2. i + 1 \in Int /\ Len(q) \in Int
    BY <1>1
  <2>3. /\ rest \in Seq(Reader)
        /\ Len(rest) = IF i + 1 <= Len(q) THEN Len(q) - (i + 1) + 1 ELSE 0
        /\ \A j \in 1..(Len(q) - (i + 1) + 1) : rest[j] = q[(i + 1) + j - 1]
    BY <2>1, <2>2, SubSeqProperties
  <2> QED
    BY <1>1, <2>3
<1>4. /\ front \o rest \in Seq(Reader)
      /\ Len(front \o rest) = Len(front) + Len(rest)
      /\ \A j \in 1..(Len(front) + Len(rest)) :
           (front \o rest)[j] = IF j <= Len(front) THEN front[j] ELSE rest[j - Len(front)]
  BY <1>2, <1>3, ConcatProperties
<1>5. RemoveAt(q, i) = front \o rest
  BY DEF RemoveAt
<1> HIDE DEF front, rest
<1>6. ASSUME NEW j \in 1..(Len(q) - 1)
      PROVE  RemoveAt(q, i)[j] = IF j < i THEN q[j] ELSE q[j + 1]
  <2>1. CASE j < i
    BY <1>1, <1>2, <1>3, <1>4, <1>5, <2>1
  <2>2. CASE ~(j < i)
    <3>1. j - Len(front) \in 1..(Len(q) - i) /\ i + (j - Len(front)) = j + 1
      BY <1>1, <1>2, <2>2
    <3>2. (front \o rest)[j] = rest[j - Len(front)]
      <4>1. j \in 1..(Len(front) + Len(rest)) /\ ~(j <= Len(front))
        BY <1>1, <1>2, <1>3, <2>2
      <4> QED
        BY <1>4, <4>1
    <3>3. rest[j - Len(front)] = q[i + (j - Len(front))]
      BY <1>3, <3>1
    <3> QED
      BY <1>5, <2>2, <3>1, <3>2, <3>3
  <2> QED
    BY <2>1, <2>2
<1>7. RemoveAt(q, i) \in Seq(Reader)
  BY <1>4, <1>5
<1>8. Len(RemoveAt(q, i)) = Len(q) - 1
  <2>1. Len(RemoveAt(q, i)) = Len(front) + Len(rest)
    BY <1>4, <1>5
  <2> QED
    BY <1>1, <1>2, <1>3, <2>1
<1> QED
  BY <1>6, <1>7, <1>8

----------------------------------------------------------------------------
(* Steps.                                                                   *)

LEMMA InitInv ==
  ASSUME CacheAssumption, Init
  PROVE  IInv
<1>1. key \in [Reader -> Key]
  BY DEF CacheAssumption, Init
<1>2. DOMAIN store = {}
  BY DEF Init
<1>3. line \in [Key -> Seq(Reader)] /\ \A k \in Key : DOMAIN line[k] = {}
  BY EmptySeq, LenProperties DEF Init
<1>4. Shape
  BY <1>1, <1>2, <1>3 DEF Init, Shape
<1>5. EntriesAreDated
  BY <1>2 DEF EntriesAreDated
<1>6. LineIsOfItsKey /\ OncePerLine
  BY <1>3 DEF LineIsOfItsKey, OncePerLine
<1>7. EveryoneIsInLine /\ FetcherIsFirst
  BY DEF Init, EveryoneIsInLine, FetcherIsFirst
<1>8. AnswersAreFresh
  BY <1>1 DEF Init, AnswersAreFresh, TtlOf, CacheAssumption
<1> QED
  BY <1>4, <1>5, <1>6, <1>7, <1>8 DEF IInv

\* Entries are only taken out of the store.
LEMMA FewerEntries ==
  ASSUME Shape, EntriesAreDated, now' = now,
         NEW keys, store' = Without(keys)
  PROVE  DOMAIN store' \subseteq Key /\ EntriesAreDated'
<1>1. DOMAIN store' = DOMAIN store \ keys /\ \A k \in DOMAIN store' : store'[k] = store[k]
  BY DEF Without
<1> QED
  BY <1>1 DEF Shape, EntriesAreDated, TtlOf

LEMMA AfterGetInv ==
  ASSUME Shape, EntriesAreDated, now' = now, NEW k \in Key, store' = AfterGet(k)
  PROVE  DOMAIN store' \subseteq Key /\ EntriesAreDated'
<1>1. CASE k \in DOMAIN store /\ IsExpired(store[k])
  BY <1>1, FewerEntries DEF AfterGet
<1>2. CASE ~(k \in DOMAIN store /\ IsExpired(store[k]))
  BY <1>2 DEF AfterGet, Shape, EntriesAreDated, TtlOf
<1> QED
  BY <1>1, <1>2

\* What the store has is no older than its key may live.
LEMMA HitIsFresh ==
  ASSUME CacheAssumption, Shape, EntriesAreDated, NEW k \in Key, IsHit(k)
  PROVE  now - store[k].at \in Nat /\ now - store[k].at <= TtlOf(k)
<1>1. /\ store[k].at \in Nat /\ store[k].at <= now /\ now \in Nat
      /\ store[k].expires = store[k].at + TtlOf(k) /\ ~(store[k].expires < now)
  BY DEF Shape, EntriesAreDated, IsHit, IsExpired
<1>2. TtlOf(k) \in Nat
  BY DEF TtlOf, CacheAssumption
<1> QED
  BY <1>1, <1>2

\* Reader r gets an answer or an error, and leaves the line.
LEMMA LeaveInv ==
  ASSUME IInv, NEW r \in Reader, pc[r] # "idle", Leave(r)
  PROVE  /\ line' \in [Key -> Seq(Reader)]
         /\ pc' \in [Reader -> {"idle", "waiting", "fetching"}] /\ key' = key
         /\ LineIsOfItsKey' /\ EveryoneIsInLine' /\ OncePerLine' /\ FetcherIsFirst'
<1>1. key[r] \in Key /\ line[key[r]] \in Seq(Reader) /\ key' = key
  BY DEF Leave, IInv, Shape
<1>2. PICK i \in DOMAIN line[key[r]] :
        line[key[r]][i] = r /\ line' = [line EXCEPT ![key[r]] = RemoveAt(@, i)]
  BY DEF Leave
<1>3. PICK q : q = line[key[r]]
  OBVIOUS
<1>4. PICK left : left = RemoveAt(q, i)
  OBVIOUS
<1>5. q \in Seq(Reader) /\ i \in 1..Len(q) /\ q[i] = r /\ Len(q) \in Nat
      /\ DOMAIN q = 1..Len(q)
  BY <1>1, <1>2, <1>3, Line
<1>6. left \in Seq(Reader) /\ Len(left) = Len(q) - 1
      /\ \A j \in 1..(Len(q) - 1) : left[j] = IF j < i THEN q[j] ELSE q[j + 1]
  BY <1>4, <1>5, Removed
<1>7. DOMAIN left = 1..(Len(q) - 1)
  BY <1>6, Line
<1>8. /\ line' \in [Key -> Seq(Reader)] /\ line'[key[r]] = left
      /\ \A k \in Key \ {key[r]} : line'[k] = line[k]
  BY <1>1, <1>2, <1>3, <1>4, <1>6 DEF IInv, Shape
<1>9. /\ pc' \in [Reader -> {"idle", "waiting", "fetching"}]
      /\ pc'[r] = "idle" /\ \A other \in Reader \ {r} : pc'[other] = pc[other]
  BY DEF Leave, IInv, Shape
<1>10. \A m, n \in 1..Len(q) : q[m] = q[n] => m = n
  BY <1>1, <1>3, <1>5 DEF IInv, OncePerLine
<1>11. \A m \in 1..Len(q) : key[q[m]] = key[r] /\ pc[q[m]] # "idle" /\ q[m] \in Reader
  BY <1>1, <1>3, <1>5, Line DEF IInv, LineIsOfItsKey
<1>12. ASSUME NEW j \in 1..(Len(q) - 1)
       PROVE  \E m \in 1..Len(q) : left[j] = q[m] /\ m # i
  BY <1>5, <1>6
<1>13. ASSUME NEW j \in 1..(Len(q) - 1)
       PROVE  key[left[j]] = key[r] /\ pc'[left[j]] # "idle"
  <2>1. PICK m \in 1..Len(q) : left[j] = q[m] /\ m # i
    BY <1>12
  <2>2. q[m] # r /\ q[m] \in Reader
    BY <1>5, <1>10, <1>11, <2>1
  <2> QED
    BY <1>9, <1>11, <2>1, <2>2
<1>14. LineIsOfItsKey'
  <2> SUFFICES ASSUME NEW k \in Key, NEW j \in DOMAIN line'[k]
               PROVE  key[line'[k][j]] = k /\ pc'[line'[k][j]] # "idle"
    BY <1>1 DEF LineIsOfItsKey
  <2>1. CASE k = key[r]
    BY <1>7, <1>8, <1>13, <2>1
  <2>2. CASE k # key[r]
    <3>1. line'[k] = line[k] /\ j \in DOMAIN line[k]
      BY <1>8, <2>2
    <3>2. key[line[k][j]] = k /\ pc[line[k][j]] # "idle"
      BY <3>1 DEF IInv, LineIsOfItsKey
    <3>3. line[k][j] \in Reader
      BY <3>1, Line DEF IInv, Shape
    <3> QED
      BY <1>9, <2>2, <3>1, <3>2, <3>3
  <2> QED
    BY <2>1, <2>2
<1>15. OncePerLine'
  <2>1. ASSUME NEW m \in 1..(Len(q) - 1), NEW n \in 1..(Len(q) - 1), left[m] = left[n]
        PROVE  m = n
    BY <1>5, <1>6, <1>10, <2>1
  <2> QED
    BY <1>1, <1>7, <1>8, <2>1 DEF IInv, OncePerLine
<1>16. FetcherIsFirst'
  <2> SUFFICES ASSUME NEW other \in Reader, pc'[other] = "fetching"
               PROVE  line'[key[other]] # <<>> /\ line'[key[other]][1] = other
    BY <1>1 DEF FetcherIsFirst
  <2>1. other # r /\ pc[other] = "fetching"
    BY <1>9
  <2>2. key[other] \in Key /\ line[key[other]] # <<>> /\ line[key[other]][1] = other
    BY <2>1 DEF IInv, Shape, FetcherIsFirst
  <2>3. CASE key[other] # key[r]
    BY <1>8, <2>2, <2>3
  <2>4. CASE key[other] = key[r]
    <3>1. q # <<>> /\ q[1] = other
      BY <1>3, <2>2, <2>4
    <3>2. i # 1 /\ i > 1 /\ Len(q) - 1 >= 1
      BY <1>5, <2>1, <3>1
    <3>3. left[1] = other
      BY <1>5, <1>6, <3>1, <3>2
    <3>4. left # <<>>
      BY <1>5, <1>6, <3>2, Line
    <3> QED
      BY <1>8, <2>4, <3>3, <3>4
  <2> QED
    BY <2>3, <2>4
<1>17. EveryoneIsInLine'
  <2> SUFFICES ASSUME NEW other \in Reader, pc'[other] # "idle"
               PROVE  \E j \in DOMAIN line'[key[other]] : line'[key[other]][j] = other
    BY <1>1 DEF EveryoneIsInLine
  <2>1. other # r /\ pc[other] # "idle" /\ key[other] \in Key
    BY <1>9 DEF IInv, Shape
  <2>2. PICK m \in DOMAIN line[key[other]] : line[key[other]][m] = other
    BY <2>1 DEF IInv, EveryoneIsInLine
  <2>3. CASE key[other] # key[r]
    BY <1>8, <2>1, <2>2, <2>3
  <2>4. CASE key[other] = key[r]
    <3>1. m \in 1..Len(q) /\ q[m] = other /\ m # i
      BY <1>3, <1>5, <2>1, <2>2, <2>4
    <3>2. \E j \in 1..(Len(q) - 1) : left[j] = q[m]
      <4>1. CASE m < i
        BY <1>5, <1>6, <3>1, <4>1
      <4>2. CASE ~(m < i)
        <5>1. m - 1 \in 1..(Len(q) - 1) /\ ~(m - 1 < i) /\ (m - 1) + 1 = m
          BY <1>5, <3>1, <4>2
        <5>2. left[m - 1] = q[m]
          BY <1>6, <5>1
        <5> QED
          BY <5>1, <5>2
      <4> QED
        BY <4>1, <4>2
    <3> QED
      BY <1>7, <1>8, <2>4, <3>1, <3>2
  <2> QED
    BY <2>3, <2>4
<1> QED
  BY <1>1, <1>8, <1>9, <1>14, <1>15, <1>16, <1>17

LEMMA HitInv ==
  ASSUME CacheAssumption, IInv, NEW r \in Reader, NEW k \in Key, Hit(r, k)
  PROVE  IInv'
<1>1. /\ UNCHANGED <<now, store, line, pc>> /\ pc[r] = "idle" /\ IsHit(k)
      /\ key' = [key EXCEPT ![r] = k] /\ age' = [age EXCEPT ![r] = now - store[k].at]
  BY DEF Hit
<1>2. now - store[k].at \in Nat /\ now - store[k].at <= TtlOf(k)
  BY <1>1, HitIsFresh DEF IInv
<1>3. /\ key' \in [Reader -> Key] /\ key'[r] = k
      /\ \A other \in Reader \ {r} : key'[other] = key[other]
  BY <1>1 DEF IInv, Shape
<1>4. /\ age' \in [Reader -> Nat] /\ age'[r] = now - store[k].at
      /\ \A other \in Reader \ {r} : age'[other] = age[other]
  BY <1>1, <1>2 DEF IInv, Shape
<1>5. Shape' /\ EntriesAreDated' /\ OncePerLine'
  BY <1>1, <1>3, <1>4 DEF IInv, Shape, EntriesAreDated, OncePerLine, TtlOf
<1>6. LineIsOfItsKey' /\ EveryoneIsInLine'
  BY <1>1, <1>3, Line DEF IInv, Shape, LineIsOfItsKey, EveryoneIsInLine
<1>7. FetcherIsFirst'
  BY <1>1, <1>3 DEF IInv, FetcherIsFirst
<1>8. AnswersAreFresh'
  BY <1>2, <1>3, <1>4 DEF IInv, AnswersAreFresh, TtlOf
<1> QED
  BY <1>5, <1>6, <1>7, <1>8 DEF IInv

LEMMA MissInv ==
  ASSUME CacheAssumption, IInv, NEW r \in Reader, NEW k \in Key, Miss(r, k)
  PROVE  IInv'
<1> DEFINE at == IF LockIsFree(k) THEN "fetching" ELSE "waiting"
<1>1. /\ now' = now /\ pc[r] = "idle" /\ store' = AfterGet(k)
      /\ key' = [key EXCEPT ![r] = k] /\ line' = [line EXCEPT ![k] = Append(@, r)]
      /\ pc' = [pc EXCEPT ![r] = at] /\ age' = [age EXCEPT ![r] = 0]
  BY DEF Miss
<1>2. /\ key' \in [Reader -> Key] /\ key'[r] = k
      /\ \A other \in Reader \ {r} : key'[other] = key[other]
  BY <1>1 DEF IInv, Shape
<1>3. /\ pc' \in [Reader -> {"idle", "waiting", "fetching"}]
      /\ pc'[r] = at /\ at # "idle"
      /\ \A other \in Reader \ {r} : pc'[other] = pc[other]
  BY <1>1 DEF IInv, Shape
<1>4. /\ age' \in [Reader -> Nat] /\ age'[r] = 0
      /\ \A other \in Reader \ {r} : age'[other] = age[other]
  BY <1>1 DEF IInv, Shape
<1>5. PICK q : q = line[k]
  OBVIOUS
<1>6. q \in Seq(Reader) /\ Len(q) \in Nat /\ DOMAIN q = 1..Len(q)
      /\ (q = <<>> <=> Len(q) = 0)
  BY <1>5, Line DEF IInv, Shape
<1>7. PICK longer : longer = Append(q, r)
  OBVIOUS
<1>8. /\ longer \in Seq(Reader) /\ Len(longer) = Len(q) + 1
      /\ longer[Len(q) + 1] = r /\ \A i \in 1..Len(q) : longer[i] = q[i]
      /\ DOMAIN longer = 1..(Len(q) + 1) /\ longer # <<>>
  BY <1>6, <1>7, AppendProperties, Line
<1>9. /\ line' \in [Key -> Seq(Reader)] /\ line'[k] = longer
      /\ \A other \in Key \ {k} : line'[other] = line[other]
  BY <1>1, <1>5, <1>7, <1>8 DEF IInv, Shape
<1>10. DOMAIN store' \subseteq Key /\ EntriesAreDated'
  BY <1>1, AfterGetInv DEF IInv
<1>11. Shape'
  BY <1>1, <1>2, <1>3, <1>4, <1>9, <1>10 DEF IInv, Shape
<1>12. \A j \in Key : \A i \in DOMAIN line[j] :
         line[j][i] \in Reader \ {r} /\ key[line[j][i]] = j /\ pc[line[j][i]] # "idle"
  BY <1>1, Line DEF IInv, Shape, LineIsOfItsKey
<1>13. LineIsOfItsKey'
  <2> SUFFICES ASSUME NEW j \in Key, NEW i \in DOMAIN line'[j]
               PROVE  key'[line'[j][i]] = j /\ pc'[line'[j][i]] # "idle"
    BY DEF LineIsOfItsKey
  <2>1. CASE j # k
    <3>1. line'[j] = line[j] /\ i \in DOMAIN line[j]
      BY <1>9, <2>1
    <3>2. line[j][i] \in Reader \ {r} /\ key[line[j][i]] = j /\ pc[line[j][i]] # "idle"
      BY <1>12, <3>1
    <3> QED
      BY <1>2, <1>3, <3>1, <3>2
  <2>2. CASE j = k /\ i = Len(q) + 1
    BY <1>2, <1>3, <1>8, <1>9, <2>2
  <2>3. CASE j = k /\ i # Len(q) + 1
    <3>1. i \in 1..Len(q) /\ line'[j][i] = q[i]
      BY <1>6, <1>8, <1>9, <2>3
    <3>2. q[i] \in Reader \ {r} /\ key[q[i]] = k /\ pc[q[i]] # "idle"
      BY <1>5, <1>6, <1>12, <3>1
    <3> QED
      BY <1>2, <1>3, <2>3, <3>1, <3>2
  <2> QED
    BY <2>1, <2>2, <2>3
<1>14. OncePerLine'
  <2> SUFFICES ASSUME NEW m \in 1..(Len(q) + 1), NEW n \in 1..(Len(q) + 1),
                      longer[m] = longer[n]
               PROVE  m = n
    BY <1>8, <1>9 DEF IInv, OncePerLine
  <2>1. \A i \in 1..Len(q) : q[i] # r
    BY <1>5, <1>6, <1>12
  <2>2. \A i, j \in 1..Len(q) : q[i] = q[j] => i = j
    BY <1>5, <1>6 DEF IInv, OncePerLine
  <2> QED
    BY <1>6, <1>8, <2>1, <2>2
<1>15. FetcherIsFirst'
  <2> SUFFICES ASSUME NEW other \in Reader, pc'[other] = "fetching"
               PROVE  line'[key'[other]] # <<>> /\ line'[key'[other]][1] = other
    BY DEF FetcherIsFirst
  <2>1. CASE other = r
    <3>1. q = <<>>
      BY <1>3, <1>5, <2>1 DEF LockIsFree
    <3>2. Len(q) = 0
      BY <1>6, <3>1
    <3> QED
      BY <1>2, <1>8, <1>9, <2>1, <3>2
  <2>2. CASE other # r
    <3>1. /\ key[other] \in Key /\ line[key[other]] # <<>>
          /\ line[key[other]][1] = other /\ key'[other] = key[other]
      BY <1>2, <1>3, <2>2 DEF IInv, Shape, FetcherIsFirst
    <3>2. CASE key[other] = k
      <4>1. 1 \in 1..Len(q) /\ q[1] = other
        BY <1>5, <1>6, <3>1, <3>2
      <4> QED
        BY <1>8, <1>9, <3>1, <3>2, <4>1
    <3>3. CASE key[other] # k
      BY <1>9, <3>1, <3>3
    <3> QED
      BY <3>2, <3>3
  <2> QED
    BY <2>1, <2>2
<1>16. AnswersAreFresh'
  BY <1>2, <1>4 DEF IInv, AnswersAreFresh, TtlOf, CacheAssumption
<1>17. EveryoneIsInLine'
  <2> SUFFICES ASSUME NEW other \in Reader, pc'[other] # "idle"
               PROVE  \E j \in DOMAIN line'[key'[other]] : line'[key'[other]][j] = other
    BY DEF EveryoneIsInLine
  <2>1. CASE other = r
    <3>1. Len(q) + 1 \in 1..(Len(q) + 1)
      BY <1>6
    <3> QED
      BY <1>2, <1>8, <1>9, <2>1, <3>1
  <2>2. CASE other # r
    <3>1. pc[other] # "idle" /\ key'[other] = key[other] /\ key[other] \in Key
      BY <1>2, <1>3, <2>2 DEF IInv, Shape
    <3>2. PICK m \in DOMAIN line[key[other]] : line[key[other]][m] = other
      BY <3>1 DEF IInv, EveryoneIsInLine
    <3>3. CASE key[other] # k
      BY <1>9, <3>1, <3>2, <3>3
    <3>4. CASE key[other] = k
      <4>1. m \in 1..Len(q) /\ q[m] = other
        BY <1>5, <1>6, <3>2, <3>4
      <4>2. m \in 1..(Len(q) + 1) /\ longer[m] = other
        BY <1>6, <1>8, <4>1
      <4> QED
        BY <1>8, <1>9, <3>1, <3>4, <4>2
    <3> QED
      BY <3>3, <3>4
  <2> QED
    BY <2>1, <2>2
<1> QED
  BY <1>10, <1>11, <1>13, <1>14, <1>15, <1>16, <1>17 DEF IInv

LEMMA ResumeInv ==
  ASSUME CacheAssumption, IInv, NEW r \in Reader, Resume(r)
  PROVE  IInv'
<1>1. /\ now' = now /\ pc[r] = "waiting" /\ Head(line[key[r]]) = r
      /\ store' = AfterGet(key[r]) /\ key[r] \in Key
  BY DEF Resume, IInv, Shape
<1>2. DOMAIN store' \subseteq Key /\ EntriesAreDated'
  BY <1>1, AfterGetInv DEF IInv
<1>3. CASE SecondLook(key[r])
  <2>1. Leave(r) /\ age' = [age EXCEPT ![r] = now - store[key[r]].at]
    BY <1>3 DEF Resume
  <2>2. now - store[key[r]].at \in Nat /\ now - store[key[r]].at <= TtlOf(key[r])
    BY <1>1, <1>3, HitIsFresh DEF IInv, SecondLook
  <2>3. /\ line' \in [Key -> Seq(Reader)]
        /\ pc' \in [Reader -> {"idle", "waiting", "fetching"}] /\ key' = key
        /\ LineIsOfItsKey' /\ EveryoneIsInLine' /\ OncePerLine' /\ FetcherIsFirst'
    BY <1>1, <2>1, LeaveInv
  <2>4. Shape'
    BY <1>1, <1>2, <2>1, <2>2, <2>3 DEF IInv, Shape
  <2>5. AnswersAreFresh'
    BY <2>1, <2>2, <2>3 DEF IInv, Shape, AnswersAreFresh, TtlOf
  <2> QED
    BY <1>2, <2>3, <2>4, <2>5 DEF IInv
<1>4. CASE ~SecondLook(key[r])
  <2>1. pc' = [pc EXCEPT ![r] = "fetching"] /\ UNCHANGED <<line, key, age>>
    BY <1>4 DEF Resume
  <2>2. line[key[r]] # <<>> /\ line[key[r]][1] = r
    <3>1. line[key[r]] \in Seq(Reader)
      BY <1>1 DEF IInv, Shape
    <3>2. PICK i \in DOMAIN line[key[r]] : line[key[r]][i] = r
      BY <1>1 DEF IInv, EveryoneIsInLine
    <3>3. line[key[r]] # <<>>
      BY <3>1, <3>2, Line
    <3> QED
      BY <1>1, <3>1, <3>3
  <2>3. /\ pc' \in [Reader -> {"idle", "waiting", "fetching"}] /\ pc'[r] = "fetching"
        /\ \A other \in Reader \ {r} : pc'[other] = pc[other]
    BY <2>1 DEF IInv, Shape
  <2>4. Shape' /\ OncePerLine' /\ AnswersAreFresh'
    BY <1>1, <1>2, <2>1, <2>3 DEF IInv, Shape, OncePerLine, AnswersAreFresh, TtlOf
  <2>5. LineIsOfItsKey' /\ EveryoneIsInLine'
    BY <1>1, <2>1, <2>3, Line DEF IInv, Shape, LineIsOfItsKey, EveryoneIsInLine
  <2>6. FetcherIsFirst'
    BY <2>1, <2>2, <2>3 DEF IInv, FetcherIsFirst
  <2> QED
    BY <1>2, <2>4, <2>5, <2>6 DEF IInv
<1> QED
  BY <1>3, <1>4

\* A reader leaves, and the cache stays as it is.
LEMMA LeaveOnlyInv ==
  ASSUME IInv, NEW r \in Reader, pc[r] # "idle", Leave(r), UNCHANGED <<now, store, age>>
  PROVE  IInv'
<1>1. /\ line' \in [Key -> Seq(Reader)]
      /\ pc' \in [Reader -> {"idle", "waiting", "fetching"}] /\ key' = key
      /\ LineIsOfItsKey' /\ EveryoneIsInLine' /\ OncePerLine' /\ FetcherIsFirst'
  BY LeaveInv
<1>2. Shape' /\ EntriesAreDated' /\ AnswersAreFresh'
  BY <1>1 DEF IInv, Shape, EntriesAreDated, AnswersAreFresh, TtlOf
<1> QED
  BY <1>1, <1>2 DEF IInv

LEMMA FetchedInv ==
  ASSUME CacheAssumption, IInv, NEW r \in Reader, NEW null \in BOOLEAN, Fetched(r, null)
  PROVE  IInv'
<1> DEFINE k == key[r]
           entry == [at |-> now, expires |-> now + TtlOf(k), null |-> null]
<1>1. /\ pc[r] = "fetching" /\ now' = now /\ Leave(r) /\ age' = [age EXCEPT ![r] = 0]
      /\ k \in Key /\ now \in Nat
  BY DEF Fetched, IInv, Shape
<1>2. PICK keys : store' = [other \in (DOMAIN store \ keys) \cup {k} |->
                              IF other = k THEN entry ELSE store[other]]
  BY DEF Fetched
<1>3. /\ DOMAIN store' = (DOMAIN store \ keys) \cup {k} /\ store'[k] = entry
      /\ \A other \in DOMAIN store' \ {k} : store'[other] = store[other]
  BY <1>2
<1>4. DOMAIN store' \subseteq Key
  BY <1>1, <1>3 DEF IInv, Shape
<1>5. EntriesAreDated'
  BY <1>1, <1>3 DEF IInv, EntriesAreDated, TtlOf
<1>6. /\ line' \in [Key -> Seq(Reader)]
      /\ pc' \in [Reader -> {"idle", "waiting", "fetching"}] /\ key' = key
      /\ LineIsOfItsKey' /\ EveryoneIsInLine' /\ OncePerLine' /\ FetcherIsFirst'
  BY <1>1, LeaveInv
<1>7. Shape'
  BY <1>1, <1>4, <1>6 DEF IInv, Shape
<1>8. AnswersAreFresh'
  BY <1>1, <1>6 DEF IInv, Shape, AnswersAreFresh, TtlOf, CacheAssumption
<1> QED
  BY <1>5, <1>6, <1>7, <1>8 DEF IInv

LEMMA NextInv ==
  ASSUME CacheAssumption, IInv, [Next]_vars
  PROVE  IInv'
<1>1. ASSUME NEW r \in Reader, NEW k \in Key, Hit(r, k) PROVE IInv'
  BY <1>1, HitInv
<1>2. ASSUME NEW r \in Reader, NEW k \in Key, Miss(r, k) PROVE IInv'
  BY <1>2, MissInv
<1>3. ASSUME NEW r \in Reader, Resume(r) PROVE IInv'
  BY <1>3, ResumeInv
<1>4. ASSUME NEW r \in Reader, NEW null \in BOOLEAN, Fetched(r, null) PROVE IInv'
  BY <1>4, FetchedInv
<1>5. ASSUME NEW r \in Reader, FetchFails(r) \/ Cancelled(r) PROVE IInv'
  BY <1>5, LeaveOnlyInv DEF FetchFails, LeaveFailed, Cancelled
<1>6. ASSUME NEW keys, store' = Without(keys), UNCHANGED <<now, line, pc, key, age>>
      PROVE  IInv'
  <2>1. DOMAIN store' \subseteq Key /\ EntriesAreDated'
    BY <1>6, FewerEntries DEF IInv
  <2> QED
    BY <1>6, <2>1 DEF IInv, Shape, LineIsOfItsKey, EveryoneIsInLine, OncePerLine,
                      FetcherIsFirst, AnswersAreFresh, TtlOf
<1>7. CASE \E k \in Key : Invalidate(k)
  BY <1>6, <1>7 DEF Invalidate
<1>8. CASE Clear
  <2>1. DOMAIN store' = {}
    BY <1>8 DEF Clear
  <2> QED
    BY <1>8, <2>1 DEF Clear, IInv, Shape, EntriesAreDated, LineIsOfItsKey, EveryoneIsInLine,
                      OncePerLine, FetcherIsFirst, AnswersAreFresh, TtlOf
<1>9. CASE Tick
  <2>1. now' \in Nat /\ now <= now' /\ UNCHANGED <<store, line, pc, key, age>>
    BY <1>9 DEF Tick, IInv, Shape
  <2>2. EntriesAreDated'
    BY <2>1 DEF IInv, Shape, EntriesAreDated, TtlOf
  <2> QED
    BY <2>1, <2>2 DEF IInv, Shape, LineIsOfItsKey, EveryoneIsInLine, OncePerLine,
                      FetcherIsFirst, AnswersAreFresh, TtlOf
<1>10. CASE UNCHANGED vars
  BY <1>10 DEF vars, IInv, Shape, EntriesAreDated, LineIsOfItsKey, EveryoneIsInLine,
               OncePerLine, FetcherIsFirst, AnswersAreFresh, TtlOf
<1> QED
  BY <1>1, <1>2, <1>3, <1>4, <1>5, <1>7, <1>8, <1>9, <1>10 DEF Next

\* Whoever takes the factory found no good value at that very step.
LEMMA NoNeed ==
  ASSUME CacheAssumption, IInv, [Next]_vars, NEW r \in Reader, pc[r] # "fetching", pc'[r] = "fetching"
  PROVE  ~(/\ key'[r] \in DOMAIN store /\ now <= store[key'[r]].expires
           /\ ~store[key'[r]].null)
<1>1. ASSUME ~IsHit(key'[r])
      PROVE  ~(/\ key'[r] \in DOMAIN store /\ now <= store[key'[r]].expires
               /\ ~store[key'[r]].null)
  <2>1. ASSUME key'[r] \in DOMAIN store, now <= store[key'[r]].expires
        PROVE  ~(store[key'[r]].expires < now)
    <3>1. PICK k : k = key'[r]
      OBVIOUS
    <3>2. TtlOf(k) \in Nat
      BY DEF TtlOf, CacheAssumption
    <3>3. now \in Nat /\ store[k].at \in Nat /\ store[k].expires = store[k].at + TtlOf(k)
      BY <2>1, <3>1 DEF IInv, Shape, EntriesAreDated
    <3>4. store[k].expires \in Nat
      BY <3>2, <3>3
    <3> QED
      BY <2>1, <3>1, <3>3, <3>4
  <2> QED
    BY <1>1, <2>1 DEF IsHit, IsExpired
<1>2. ASSUME NEW other \in Reader, NEW k \in Key, Miss(other, k) PROVE ~IsHit(key'[r])
  BY <1>2 DEF Miss, IInv, Shape
<1>3. ASSUME NEW other \in Reader, Resume(other) PROVE ~IsHit(key'[r])
  BY <1>3 DEF Resume, SecondLook, Leave, IInv, Shape
<1>4. ASSUME NEW other \in Reader, Leave(other) PROVE FALSE
  BY <1>4 DEF Leave, IInv, Shape
<1>5. ASSUME UNCHANGED pc PROVE FALSE
  BY <1>5
<1> QED
  BY <1>1, <1>2, <1>3, <1>4, <1>5
     DEF Next, Hit, Fetched, FetchFails, LeaveFailed, Cancelled, Invalidate, Clear, Tick, vars

----------------------------------------------------------------------------
(* Theorems.                                                                *)

(* What holds of the lines at the locks and of the entries in the store in  *)
(* every state of core/cache.py.                                            *)
THEOREM Invariant == Spec => []IInv
<1>1. Init => IInv
  BY InitInv, CacheAssumption
<1>2. IInv /\ [Next]_vars => IInv'
  BY NextInv, CacheAssumption
<1> QED
  BY <1>1, <1>2, PTL DEF Spec

(* get_or_set: for any number of readers and keys, a key has one call of    *)
(* the factory at a time, since only the first in line calls it.            *)
THEOREM OneFlight == Spec => []SingleFlight
<1>1. IInv => SingleFlight
  BY DEF IInv, FetcherIsFirst, SingleFlight
<1> QED
  BY <1>1, Invariant, PTL

(* get: no answer is older than its key may live, whatever the lifetimes    *)
(* and however long a reader has waited.                                    *)
THEOREM FreshAnswers == Spec => []AnswersAreFresh
<1>1. IInv => AnswersAreFresh
  BY DEF IInv
<1> QED
  BY <1>1, Invariant, PTL

(* get_or_set: the factory is never called for a key that has a good value  *)
(* in the store.                                                            *)
THEOREM NeededFetches == Spec => NoNeedlessFetch
<1>1. IInv /\ [Next]_vars =>
        [\A r \in Reader : pc[r] # "fetching" /\ pc'[r] = "fetching" =>
           LET k == key'[r]
           IN ~(k \in DOMAIN store /\ now <= store[k].expires /\ ~store[k].null)]_vars
  BY NoNeed, CacheAssumption
<1> QED
  BY <1>1, Invariant, PTL DEF Spec, NoNeedlessFetch

=============================================================================
