-------------------------- MODULE CredentialsProofs --------------------------
(***************************************************************************)
(* Proofs about Credentials: for any number of callers and any periods,    *)
(* and even when the token handlers overlap, credentials are read and      *)
(* renewed by one thread at a time and nobody gets a torn copy.            *)
(***************************************************************************)
EXTENDS Credentials, Integers, TLAPS

USE ThreadAssumption, BufferAssumption, NumberAssumption

\* Conversions of seconds give words.
LEMMA WordType ==
  ASSUME NEW n \in Nat
  PROVE  Nanos(n) \in Nat /\ KinesisTime(n) \in Nat
<1>1. \A r \in Nat : (n * r) \in Nat
  OBVIOUS
<1>2. \A m \in Nat : m % Width \in Nat
  OBVIOUS
<1>3. QED
  BY <1>1, <1>2 DEF Nanos, KinesisTime

\* A rotation time that was never set is the beginning of time.
LEMMA NanosZero == Nanos(0) = 0
<1>1. 0 * NanosInSecond = 0
  BY SMT
<1>2. 0 % Width = 0
  OBVIOUS
<1>3. QED
  BY <1>1, <1>2 DEF Nanos

\* A product of seconds that fits its word is not changed by it.
LEMMA ShortWord ==
  ASSUME NEW n \in Nat, n < Width
  PROVE  n % Width = n
OBVIOUS

\* The maximum wraps, to a word just below the largest.
LEMMA LongestWord ==
  ASSUME NEW r \in Nat \ {0}, r <= Width
  PROVE  (MaxSeconds * r) % Width = Width - r
<1>1. MaxSeconds * r = (r - 1) * Width + (Width - r)
  BY DEF MaxSeconds
<1>2. ASSUME NEW q \in Nat, NEW m \in Nat, m < Width
      PROVE  (q * Width + m) % Width = m
  BY <1>2
<1>3. r - 1 \in Nat /\ Width - r \in Nat /\ Width - r < Width
  OBVIOUS
<1>4. QED
  BY <1>1, <1>2, <1>3

\* Multiplication keeps the order of natural numbers, and distributes.
LEMMA TimesOrder ==
  ASSUME NEW r \in Nat \ {0}, NEW a \in Nat, NEW b \in Nat
  PROVE  /\ a * r \in Nat /\ (a + b) * r = a * r + b * r
         /\ a < b <=> a * r < b * r
         /\ a <= b <=> a * r <= b * r
OBVIOUS

\* The expirations that credentials can have.
Dates == {MaxSeconds} \cup {n + p : n \in 0..MaxTime, p \in Periods}

\* The word of a moment of the execution, or of one a period later, is exact
\* in either unit; a date is such a moment or the maximum.
LEMMA WordOfMoment ==
  ASSUME NEW r \in {NanosInSecond, HundredNanosInSecond},
         NEW n \in 0..MaxTime, NEW p \in Periods \cup {GracePeriod, 0}
  PROVE  /\ r \in Nat \ {0} /\ n \in Nat /\ p \in Nat
         /\ (n + p) * r + r < Width
         /\ ((n + p) * r) % Width = (n + p) * r
<1>1. r \in Nat \ {0} /\ n \in Nat /\ p \in Nat /\ r <= NanosInSecond /\ NanosInSecond \in Nat \ {0}
  BY ClockAssumption
<1>2. PICK q \in Periods \cup {GracePeriod} :
        q \in Nat /\ n + p + 1 <= MaxTime + q + 1 /\ (MaxTime + q + 1) * NanosInSecond < Width
  <2>1. CASE p = 0
    BY <1>1, <2>1, ClockAssumption
  <2>2. CASE p # 0
    BY <1>1, <2>2, ClockAssumption
  <2>3. QED
    BY <2>1, <2>2
<1>3. (n + p + 1) * r <= (n + p + 1) * NanosInSecond
  BY <1>1
<1>4. (n + p + 1) * NanosInSecond <= (MaxTime + q + 1) * NanosInSecond
  BY <1>1, <1>2, TimesOrder
<1>5. (n + p + 1) * r < Width
  <2>1. (n + p + 1) * r \in Nat /\ (n + p + 1) * NanosInSecond \in Nat
        /\ (MaxTime + q + 1) * NanosInSecond \in Nat
    BY <1>1, <1>2
  <2>2. QED
    BY <1>2, <1>3, <1>4, <2>1
<1>6. (n + p + 1) * r = (n + p) * r + r /\ (n + p) * r \in Nat
  BY <1>1
<1>7. (n + p) * r + r < Width
  BY <1>5, <1>6
<1>8. (n + p) * r < Width
  BY <1>1, <1>6, <1>7
<1>9. QED
  BY <1>1, <1>6, <1>7, <1>8, ShortWord

\* The maximum lies behind every moment, in seconds and in either unit.
LEMMA MaximumIsLast ==
  ASSUME NEW r \in {NanosInSecond, HundredNanosInSecond},
         NEW n \in 0..MaxTime, NEW p \in Periods \cup {GracePeriod, 0}
  PROVE  /\ n + p < MaxSeconds
         /\ (MaxSeconds * r) % Width = Width - r
         /\ (n + p) * r < Width - r
<1>1. r \in Nat \ {0} /\ n \in Nat /\ p \in Nat /\ (n + p) * r + r < Width
  BY WordOfMoment
<1>2. (n + p) * r \in Nat /\ n + p <= (n + p) * r
  BY <1>1
<1>3. r <= Width /\ n + p < MaxSeconds /\ (n + p) * r < Width - r
  BY <1>1, <1>2 DEF MaxSeconds
<1>4. QED
  BY <1>1, <1>3, LongestWord

\* The left side of the comparison in refreshCredentials does not wrap.
LEMMA GraceWord ==
  ASSUME NEW n \in 0..MaxTime
  PROVE  /\ (Nanos(n) + Nanos(GracePeriod)) % Width = (n + GracePeriod) * NanosInSecond
         /\ (n + GracePeriod) * NanosInSecond > 0
<1> DEFINE N == NanosInSecond  G == GracePeriod
<1>1. N \in Nat \ {0} /\ n \in Nat /\ G \in Nat /\ ((n + G) * N) % Width = (n + G) * N
  BY WordOfMoment
<1>2. Nanos(n) = n * N
  <2>1. n + 0 = n /\ ((n + 0) * N) % Width = (n + 0) * N
    BY WordOfMoment
  <2>2. QED
    BY <2>1 DEF Nanos
<1>3. Nanos(G) = G * N
  <2>1. 0 \in 0..MaxTime /\ 0 + G = G
    BY <1>1
  <2>2. ((0 + G) * N) % Width = (0 + G) * N
    BY <2>1, WordOfMoment
  <2>3. QED
    BY <2>1, <2>2 DEF Nanos
<1>4. (Nanos(n) + Nanos(G)) % Width = (n + G) * N
  <2>1. n * N + G * N = (n + G) * N
    BY <1>1
  <2>2. QED
    BY <1>1, <1>2, <1>3, <2>1
<1>5. (n + G) * N > 0
  BY <1>1, ClockAssumption
<1>6. QED
  BY <1>4, <1>5

\* The comparison of wrapped nanoseconds in refreshCredentials compares the
\* dates it means to compare.
LEMMA DueIff ==
  ASSUME NEW n \in 0..MaxTime, NEW d \in Dates
  PROVE  (Nanos(n) + Nanos(GracePeriod)) % Width > Nanos(d) <=> n + GracePeriod > d
<1> DEFINE N == NanosInSecond  G == GracePeriod
<1>1. N \in Nat \ {0} /\ n \in Nat /\ G \in Nat
  BY WordOfMoment
<1>2. (Nanos(n) + Nanos(G)) % Width = (n + G) * N
  BY GraceWord
<1>3. CASE d = MaxSeconds
  <2>1. n + G < MaxSeconds /\ (MaxSeconds * N) % Width = Width - N /\ (n + G) * N < Width - N
    BY MaximumIsLast
  <2>2. (n + G) * N \in Nat /\ MaxSeconds \in Nat
    BY <1>1 DEF MaxSeconds
  <2>3. QED
    BY <1>1, <1>2, <1>3, <2>1, <2>2 DEF Nanos
<1>4. CASE d # MaxSeconds
  <2>1. PICK m \in 0..MaxTime, p \in Periods : d = m + p
    BY <1>4 DEF Dates
  <2>2. d \in Nat /\ Nanos(d) = d * N
    BY <2>1, WordOfMoment DEF Nanos
  <2>3. n + G > d <=> (n + G) * N > d * N
    BY <1>1, <2>2, TimesOrder
  <2>4. QED
    BY <1>2, <2>2, <2>3
<1>5. QED
  BY <1>3, <1>4

\* In PIC's unit too, a date that is later than the clock is a later word.
LEMMA LaterDate ==
  ASSUME NEW n \in 0..MaxTime, NEW d \in Dates, d > n
  PROVE  KinesisTime(d) > KinesisTime(n)
<1> DEFINE H == HundredNanosInSecond
<1>1. /\ H \in Nat \ {0} /\ n \in Nat /\ n + 0 = n
      /\ ((n + 0) * H) % Width = (n + 0) * H
  BY WordOfMoment
<1>2. KinesisTime(n) = n * H
  BY <1>1 DEF KinesisTime
<1>3. CASE d = MaxSeconds
  <2>1. (MaxSeconds * H) % Width = Width - H /\ (n + 0) * H < Width - H
    BY MaximumIsLast
  <2>2. n * H \in Nat /\ Width - H \in Int
    BY <1>1
  <2>3. QED
    BY <1>1, <1>2, <1>3, <2>1, <2>2 DEF KinesisTime
<1>4. CASE d # MaxSeconds
  <2>1. PICK m \in 0..MaxTime, p \in Periods : d = m + p
    BY <1>4 DEF Dates
  <2>2. d \in Nat /\ KinesisTime(d) = d * H
    BY <2>1, WordOfMoment DEF KinesisTime
  <2>3. QED
    BY <1>1, <1>2, <2>2, TimesOrder
<1>5. QED
  BY <1>3, <1>4

\* Every expiration a provider may give is a number of seconds.
LEMMA ExpirationsType ==
  ASSUME TypeOK
  PROVE  Expirations \subseteq Nat /\ MaxSeconds \in Nat
BY DEF Expirations, MaxSeconds, TypeOK

\* Every variable of the provider keeps its type.
THEOREM TypeCorrect == Spec => []TypeOK
<1>1. Init => TypeOK
  <2>1. MaxSeconds \in Nat
    BY DEF MaxSeconds
  <2>2. Init => raced \in BOOLEAN /\ pc \in [Threads -> Labels] /\ kind \in [Threads -> Kinds]
    BY DEF Init, Labels, Kinds
  <2>3. QED
    BY <2>1, <2>2 DEF Init, TypeOK
<1>2. TypeOK /\ [Next]_vars => TypeOK'
  <2> SUFFICES ASSUME TypeOK, [Next]_vars
               PROVE  TypeOK'
    OBVIOUS
  <2> USE DEF TypeOK, credVars, tokenVars, Goto, Labels, OnToken
  <2>1. CASE Tick
    BY <2>1 DEF Tick
  <2>2. CASE Renew
    BY <2>2, ExpirationsType DEF Renew
  <2>3. ASSUME NEW t \in Threads, Call(t) PROVE TypeOK'
    BY <2>3 DEF Call, Kinds
  <2>4. ASSUME NEW t \in Threads, Lock(t) PROVE TypeOK'
    BY <2>4 DEF Lock
  <2>5. ASSUME NEW t \in Threads, Check(t) PROVE TypeOK'
    BY <2>5 DEF Check
  <2>6. ASSUME NEW t \in Threads, StoreCredentials(t) PROVE TypeOK'
    BY <2>6, ExpirationsType DEF StoreCredentials
  <2>7. ASSUME NEW t \in Threads, SetExpiration(t) PROVE TypeOK'
    BY <2>7, ExpirationsType, WordType DEF SetExpiration
  <2>8. ASSUME NEW t \in Threads, CopyOut(t) PROVE TypeOK'
    BY <2>8 DEF CopyOut
  <2>9. ASSUME NEW t \in Threads, Return(t) PROVE TypeOK'
    BY <2>9 DEF Return, Done, Kinds
  <2>10. ASSUME NEW t \in Threads, FreeOld(t) PROVE TypeOK'
    BY <2>10 DEF FreeOld
  <2>11. ASSUME NEW t \in Threads, Freed(t) PROVE TypeOK'
    BY <2>11 DEF Freed
  <2>12. ASSUME NEW t \in Threads, Create(t) PROVE TypeOK'
    BY <2>12, WordType DEF Create
  <2>13. ASSUME NEW t \in Threads, CreateFails(t) PROVE TypeOK'
    BY <2>13 DEF CreateFails, Done, Kinds
  <2>14. ASSUME NEW t \in Threads, Use(t) PROVE TypeOK'
    BY <2>14 DEF Use
  <2>15. ASSUME NEW t \in Threads, PicRead(t) PROVE TypeOK'
    BY <2>15 DEF PicRead, Done, Kinds
  <2>16. CASE UNCHANGED vars
    BY <2>16 DEF vars
  <2>17. QED
    BY <2>1, <2>2, <2>3, <2>4, <2>5, <2>6, <2>7, <2>8, <2>9, <2>10, <2>11,
       <2>12, <2>13, <2>14, <2>15, <2>16
    DEF Next, Step
<1>3. QED
  BY <1>1, <1>2, PTL DEF Spec

\* What the invariants need of a step in the handlers: they leave the
\* credentials and the mutex alone.
LEMMA HandlerSteps ==
  ASSUME TypeOK, NEW t \in Threads,
         \/ FreeOld(t) \/ Freed(t) \/ Create(t) \/ CreateFails(t)
         \/ Use(t) \/ PicRead(t) \/ Return(t)
  PROVE  /\ UNCHANGED <<static, now, expiration, nextRotation, mutex>>
         /\ HasCopy(t)
         /\ \E l \in Labels \ {"lock", "check", "store", "expire", "copy"} :
              pc' = [pc EXCEPT ![t] = l]
         /\ mine' = mine \/ (mine' = [mine EXCEPT ![t] = 0] /\ pc' = [pc EXCEPT ![t] = "idle"])
BY DEF FreeOld, Freed, Create, CreateFails, Use, PicRead, Return, Done, Goto,
       HasCopy, credVars, tokenVars, Labels, OnToken, TypeOK

\* credential_mutex_ admits one thread at a time to refreshCredentials and to
\* the copy, and is free when none is there.
THEOREM MutualExclusion == Spec => []MutexInv
<1> USE DEF MutexInv, InMutex
<1>1. Init => MutexInv
  BY DEF Init
<1>2. TypeOK /\ MutexInv /\ [Next]_vars => MutexInv'
  <2> SUFFICES ASSUME TypeOK, MutexInv, [Next]_vars
               PROVE  MutexInv'
    OBVIOUS
  <2> USE DEF TypeOK, Goto
  <2>1. CASE Tick \/ Renew \/ UNCHANGED vars
    BY <2>1 DEF Tick, Renew, vars
  <2>2. ASSUME NEW t \in Threads, Call(t) PROVE MutexInv'
    BY <2>2 DEF Call
  <2>3. ASSUME NEW t \in Threads, Lock(t) PROVE MutexInv'
    BY <2>3 DEF Lock
  <2>4. ASSUME NEW t \in Threads, Check(t) PROVE MutexInv'
    BY <2>4 DEF Check
  <2>5. ASSUME NEW t \in Threads, StoreCredentials(t) PROVE MutexInv'
    BY <2>5 DEF StoreCredentials
  <2>6. ASSUME NEW t \in Threads, SetExpiration(t) PROVE MutexInv'
    BY <2>6 DEF SetExpiration
  <2>7. ASSUME NEW t \in Threads, CopyOut(t) PROVE MutexInv'
    BY <2>7 DEF CopyOut
  <2>8. ASSUME NEW t \in Threads,
               \/ FreeOld(t) \/ Freed(t) \/ Create(t) \/ CreateFails(t)
               \/ Use(t) \/ PicRead(t) \/ Return(t)
        PROVE  MutexInv'
    BY <2>8, HandlerSteps DEF HasCopy
  <2>9. QED
    BY <2>1, <2>2, <2>3, <2>4, <2>5, <2>6, <2>7, <2>8 DEF Next, Step
<1>3. QED
  BY <1>1, <1>2, TypeCorrect, PTL DEF Spec

\* While the cached expiration is the stored maximum of a rotating provider, a
\* refresh is due or one is in progress under the mutex.
THEOREM CacheComplete == Spec => []CacheInv
<1>1. Init => CacheInv
  BY DEF Init, CacheInv
<1>2. TypeOK /\ MutexInv /\ CacheInv /\ [Next]_vars => CacheInv'
  <2> SUFFICES ASSUME TypeOK, MutexInv, CacheInv, [Next]_vars, ~static'
               PROVE  CacheInv'
    BY DEF CacheInv
  <2> USE DEF TypeOK, MutexInv, InMutex, CacheInv, Goto, credVars
  <2>1. CASE Tick \/ Renew \/ UNCHANGED vars
    BY <2>1 DEF Tick, Renew, vars
  <2>2. ASSUME NEW t \in Threads, Call(t) PROVE CacheInv'
    BY <2>2 DEF Call
  <2>3. ASSUME NEW t \in Threads, Lock(t) PROVE CacheInv'
    BY <2>3 DEF Lock
  <2>4. ASSUME NEW t \in Threads, Check(t) PROVE CacheInv'
    <3>1. nextRotation = 0 => RotationDue
      BY GraceWord, NanosZero DEF RotationDue, TypeOK
    <3>2. \A u \in Threads : pc[u] # "expire"
      BY <2>4 DEF Check
    <3>3. pc'[t] = "copy" => expiration # MaxSeconds
      BY <2>4, <3>1, <3>2 DEF Check
    <3>4. QED
      BY <2>4, <3>2, <3>3 DEF Check
  <2>5. ASSUME NEW t \in Threads, StoreCredentials(t) PROVE CacheInv'
    BY <2>5 DEF StoreCredentials
  <2>6. ASSUME NEW t \in Threads, SetExpiration(t) PROVE CacheInv'
    <3>1. expiration' # MaxSeconds
      BY <2>6, ClockAssumption DEF SetExpiration, Expirations, MaxSeconds
    <3>2. QED
      BY <2>6, <3>1 DEF SetExpiration
  <2>7. ASSUME NEW t \in Threads, CopyOut(t) PROVE CacheInv'
    BY <2>7 DEF CopyOut
  <2>8. ASSUME NEW t \in Threads,
               \/ FreeOld(t) \/ Freed(t) \/ Create(t) \/ CreateFails(t)
               \/ Use(t) \/ PicRead(t) \/ Return(t)
        PROVE  CacheInv'
    BY <2>8, HandlerSteps DEF HasCopy
  <2>9. QED
    BY <2>1, <2>2, <2>3, <2>4, <2>5, <2>6, <2>7, <2>8 DEF Next, Step
<1>3. QED
  BY <1>1, <1>2, TypeCorrect, MutualExclusion, PTL DEF Spec

\* The invariant the completeness of credentials rests on.
THEOREM CacheGuarded == Spec => []CredentialsInv
BY MutualExclusion, CacheComplete, PTL DEF CredentialsInv

\* Nobody is given the half-updated credentials of a rotating provider,
\* whatever the callers do and however the token handlers overlap.
THEOREM CompleteCredentials == Spec => []NoTornCredentials
<1>1. Init => NoTornCredentials
  BY DEF Init, NoTornCredentials, HasCopy
<1>2. TypeOK /\ CacheInv /\ NoTornCredentials /\ [Next]_vars => NoTornCredentials'
  <2> SUFFICES ASSUME TypeOK, CacheInv, NoTornCredentials, [Next]_vars, ~static'
               PROVE  NoTornCredentials'
    BY DEF NoTornCredentials
  <2> USE DEF TypeOK, NoTornCredentials, HasCopy, Goto
  <2>1. CASE Tick \/ Renew \/ UNCHANGED vars
    BY <2>1 DEF Tick, Renew, vars
  <2>2. ASSUME NEW t \in Threads,
               Call(t) \/ Lock(t) \/ Check(t) \/ StoreCredentials(t) \/ SetExpiration(t)
        PROVE  NoTornCredentials'
    BY <2>2 DEF Call, Lock, Check, StoreCredentials, SetExpiration
  <2>3. ASSUME NEW t \in Threads, CopyOut(t) PROVE NoTornCredentials'
    BY <2>3 DEF CopyOut, CacheInv
  <2>4. ASSUME NEW t \in Threads,
               \/ FreeOld(t) \/ Freed(t) \/ Create(t) \/ CreateFails(t)
               \/ Use(t) \/ PicRead(t) \/ Return(t)
        PROVE  NoTornCredentials'
    BY <2>4, HandlerSteps
  <2>5. QED
    BY <2>1, <2>2, <2>3, <2>4 DEF Next, Step
<1>3. QED
  BY <1>1, <1>2, TypeCorrect, CacheComplete, PTL DEF Spec

------------------------------------------------------------------------------
(* When the provider is asked, and how fresh credentials are. *)

\* The cached expiration is the one the next rotation was computed from, except
\* inside an update; who goes to the provider unforced has a reason, and who
\* does not go has credentials that last.
RefreshInv ==
  /\ expiration \in Dates /\ nextRotation \in Dates \cup {0}
  /\ \A t \in Threads : HasCopy(t) => mine[t] \in Dates
  /\ \/ nextRotation \in {0, expiration}
     \/ \E t \in Threads : pc[t] = "expire"
  /\ \A t \in Threads :
       pc[t] = "copy" =>
         fetched[t] \/ (kind[t] # "streaming" /\ expiration >= readAt[t] + GracePeriod)


\* A handler leaves what the other threads have read alone, and its own until
\* it is done.
LEMMA HandlerLeaves ==
  ASSUME TypeOK, NEW t \in Threads,
         \/ FreeOld(t) \/ Freed(t) \/ Create(t) \/ CreateFails(t)
         \/ Use(t) \/ PicRead(t) \/ Return(t)
  PROVE  /\ \A u \in Threads \ {t} :
              kind'[u] = kind[u] /\ fetched'[u] = fetched[u] /\ readAt'[u] = readAt[u]
         /\ HasCopy(t)' => kind'[t] = kind[t] /\ fetched'[t] = fetched[t] /\ readAt'[t] = readAt[t]
BY DEF FreeOld, Freed, Create, CreateFails, Use, PicRead, Return, Done, Goto, HasCopy, TypeOK

\* What the check of refreshCredentials decides.
LEMMA CheckDecides ==
  ASSUME TypeOK, MutexInv, RefreshInv, NEW t \in Threads, pc[t] = "check"
  PROVE  /\ ~ RotationDue => expiration >= now + GracePeriod
         /\ RotationDue => nextRotation = 0 \/ expiration < now + GracePeriod
<1>1. nextRotation \in {0, expiration}
  BY DEF RefreshInv, MutexInv, InMutex
<1>2. nextRotation = 0 => RotationDue
  BY GraceWord, NanosZero DEF RotationDue, TypeOK
<1>3. now \in 0..MaxTime /\ expiration \in Dates /\ expiration \in Nat
  BY DEF TypeOK, RefreshInv
<1>4. nextRotation = expiration => (RotationDue <=> now + GracePeriod > expiration)
  BY <1>3, DueIff DEF RotationDue
<1>5. now + GracePeriod \in Nat
  BY <1>3
<1>6. QED
  BY <1>1, <1>2, <1>3, <1>4, <1>5

\* RefreshInv is inductive.
LEMMA RefreshInvStep ==
  ASSUME TypeOK, MutexInv, RefreshInv, [Next]_vars
  PROVE  RefreshInv'
<1> USE DEF TypeOK, MutexInv, InMutex, HasCopy, Goto, credVars
<1>0. MaxSeconds \in Dates /\ Expirations \subseteq Dates
  BY DEF Dates, Expirations
<1>1. CASE Tick \/ UNCHANGED vars
  BY <1>1 DEF Tick, vars, RefreshInv
<1>2. CASE Renew
  BY <1>2, <1>0 DEF Renew, RefreshInv
<1>3. ASSUME NEW t \in Threads, Call(t) PROVE RefreshInv'
  BY <1>3 DEF Call, RefreshInv
<1>4. ASSUME NEW t \in Threads, Lock(t) PROVE RefreshInv'
  BY <1>4 DEF Lock, RefreshInv
<1>5. ASSUME NEW t \in Threads, Check(t) PROVE RefreshInv'
  <2>1. pc'[t] = "copy" => kind[t] # "streaming" /\ expiration >= readAt'[t] + GracePeriod
    BY <1>5, CheckDecides DEF Check, ForceUpdate
  <2>2. /\ pc' = [pc EXCEPT ![t] = pc'[t]] /\ pc[t] = "check" /\ pc'[t] \in {"store", "copy"}
        /\ UNCHANGED <<expiration, nextRotation, mine, fetched, kind>>
        /\ \A u \in Threads \ {t} : readAt'[u] = readAt[u]
    BY <1>5 DEF Check
  <2>3. QED
    BY <2>1, <2>2 DEF RefreshInv
<1>6. ASSUME NEW t \in Threads, StoreCredentials(t) PROVE RefreshInv'
  BY <1>6, <1>0 DEF StoreCredentials, RefreshInv
<1>7. ASSUME NEW t \in Threads, SetExpiration(t) PROVE RefreshInv'
  BY <1>7, <1>0 DEF SetExpiration, RefreshInv
<1>8. ASSUME NEW t \in Threads, CopyOut(t) PROVE RefreshInv'
  BY <1>8 DEF CopyOut, RefreshInv
<1>9. ASSUME NEW t \in Threads,
             \/ FreeOld(t) \/ Freed(t) \/ Create(t) \/ CreateFails(t)
             \/ Use(t) \/ PicRead(t) \/ Return(t)
      PROVE  RefreshInv'
  BY <1>9, HandlerSteps, HandlerLeaves DEF RefreshInv
<1>10. QED
  BY <1>1, <1>2, <1>3, <1>4, <1>5, <1>6, <1>7, <1>8, <1>9 DEF Next, Step

\* Every cached expiration is a date, and the cache and the rotation time agree.
THEOREM RefreshConsistent == Spec => []RefreshInv
<1>1. Init => RefreshInv
  BY DEF Init, RefreshInv, Dates, HasCopy
<1>2. TypeOK /\ MutexInv /\ RefreshInv /\ [Next]_vars => RefreshInv'
  BY RefreshInvStep
<1>3. QED
  BY <1>1, <1>2, TypeCorrect, MutualExclusion, PTL DEF Spec

\* Whatever the callers interleave, credentials handed out without asking the
\* provider outlast the grace period counted from the check.
THEOREM FreshCredentials == Spec => []FreshOrJustFetched
<1>1. Init => FreshOrJustFetched
  BY DEF Init, FreshOrJustFetched, HasCopy
<1>2. TypeOK /\ RefreshInv /\ FreshOrJustFetched /\ [Next]_vars => FreshOrJustFetched'
  <2> SUFFICES ASSUME TypeOK, RefreshInv, FreshOrJustFetched, [Next]_vars
               PROVE  FreshOrJustFetched'
    OBVIOUS
  <2> USE DEF TypeOK, FreshOrJustFetched, HasCopy, Goto
  <2>1. CASE Tick \/ Renew \/ UNCHANGED vars
    BY <2>1 DEF Tick, Renew, vars
  <2>2. ASSUME NEW t \in Threads,
               Call(t) \/ Lock(t) \/ Check(t) \/ StoreCredentials(t) \/ SetExpiration(t)
        PROVE  FreshOrJustFetched'
    BY <2>2 DEF Call, Lock, Check, StoreCredentials, SetExpiration
  <2>3. ASSUME NEW t \in Threads, CopyOut(t) PROVE FreshOrJustFetched'
    BY <2>3 DEF CopyOut, RefreshInv
  <2>4. ASSUME NEW t \in Threads,
               \/ FreeOld(t) \/ Freed(t) \/ Create(t) \/ CreateFails(t)
               \/ Use(t) \/ PicRead(t) \/ Return(t)
        PROVE  FreshOrJustFetched'
    BY <2>4, HandlerSteps, HandlerLeaves
  <2>5. QED
    BY <2>1, <2>2, <2>3, <2>4 DEF Next, Step
<1>3. QED
  BY <1>1, <1>2, TypeCorrect, RefreshConsistent, PTL DEF Spec

\* The wrapped comparison never sends a caller to the provider while the cached
\* credentials are good beyond the grace period.
THEOREM FetchesNeeded == Spec => []NoNeedlessFetch
<1>1. Init => NoNeedlessFetch
  BY DEF Init, NoNeedlessFetch
<1>2. TypeOK /\ MutexInv /\ RefreshInv /\ NoNeedlessFetch /\ [Next]_vars => NoNeedlessFetch'
  <2> SUFFICES ASSUME TypeOK, MutexInv, RefreshInv, NoNeedlessFetch, [Next]_vars
               PROVE  NoNeedlessFetch'
    OBVIOUS
  <2> USE DEF TypeOK, MutexInv, InMutex, NoNeedlessFetch, ForceUpdate, Goto, credVars
  <2>1. CASE Tick \/ Renew \/ UNCHANGED vars
    BY <2>1 DEF Tick, Renew, vars
  <2>2. ASSUME NEW t \in Threads, Call(t) PROVE NoNeedlessFetch'
    BY <2>2 DEF Call
  <2>3. ASSUME NEW t \in Threads, Check(t) PROVE NoNeedlessFetch'
    BY <2>3, CheckDecides DEF Check
  <2>4. ASSUME NEW t \in Threads,
               Lock(t) \/ StoreCredentials(t) \/ SetExpiration(t) \/ CopyOut(t)
        PROVE  NoNeedlessFetch'
    BY <2>4 DEF Lock, StoreCredentials, SetExpiration, CopyOut
  <2>5. ASSUME NEW t \in Threads,
               \/ FreeOld(t) \/ Freed(t) \/ Create(t) \/ CreateFails(t)
               \/ Use(t) \/ PicRead(t) \/ Return(t)
        PROVE  NoNeedlessFetch'
    BY <2>5, HandlerSteps, HandlerLeaves DEF HasCopy
  <2>6. QED
    BY <2>1, <2>2, <2>3, <2>4, <2>5 DEF Next, Step
<1>3. QED
  BY <1>1, <1>2, TypeCorrect, MutualExclusion, RefreshConsistent, PTL DEF Spec

------------------------------------------------------------------------------
(* The serialized token, which no mutex guards. *)

\* Of a thread at work on security_token_: the block it holds is the one the
\* provider stores, and no one else's.
OwnToken(t) ==
  /\ pc[t] = "freeing" => buf[t] = token
  /\ pc[t] = "create" => token = Null
  /\ pc[t] \in {"use", "picRead"} => token \in Buffers /\ content[token] = KinesisTime(mine[t])
  /\ pc[t] = "picRead" => buf[t] = token

\* Until two handlers overlap, at most one thread is at work on security_token_,
\* and what is stored is the only block there is.
TokenInv ==
  ~raced =>
    /\ heap = {token} \ {Null}
    /\ \A t, u \in Threads : pc[t] \in OnToken /\ pc[u] \in OnToken => t = u
    /\ \A t \in Threads : OwnToken(t)

\* TokenInv is inductive.
LEMMA TokenInvStep ==
  ASSUME TypeOK, TokenInv, [Next]_vars
  PROVE  TokenInv'
<1> USE DEF TypeOK, TokenInv, OwnToken, OnToken, Goto, tokenVars
<1>1. CASE Tick \/ UNCHANGED vars
  BY <1>1 DEF Tick, vars
<1>2. CASE Renew
  BY <1>2 DEF Renew
<1>3. ASSUME NEW t \in Threads, Call(t) PROVE TokenInv'
  BY <1>3 DEF Call
<1>4. ASSUME NEW t \in Threads,
             Lock(t) \/ Check(t) \/ StoreCredentials(t) \/ SetExpiration(t)
      PROVE  TokenInv'
  BY <1>4 DEF Lock, Check, StoreCredentials, SetExpiration
<1>5. ASSUME NEW t \in Threads, CopyOut(t) PROVE TokenInv'
  BY <1>5 DEF CopyOut
<1>6. ASSUME NEW t \in Threads, Return(t) PROVE TokenInv'
  BY <1>6 DEF Return, Done
<1>7. ASSUME NEW t \in Threads, FreeOld(t) PROVE TokenInv'
  BY <1>7 DEF FreeOld
<1>8. ASSUME NEW t \in Threads, Freed(t) PROVE TokenInv'
  BY <1>8 DEF Freed
<1>9. ASSUME NEW t \in Threads, Create(t) PROVE TokenInv'
  BY <1>9 DEF Create
<1>10. ASSUME NEW t \in Threads, CreateFails(t) PROVE TokenInv'
  BY <1>10 DEF CreateFails, Done
<1>11. ASSUME NEW t \in Threads, Use(t) PROVE TokenInv'
  BY <1>11 DEF Use
<1>12. ASSUME NEW t \in Threads, PicRead(t) PROVE TokenInv'
  BY <1>12 DEF PicRead, Done
<1>13. QED
  BY <1>1, <1>2, <1>3, <1>4, <1>5, <1>6, <1>7, <1>8, <1>9, <1>10, <1>11, <1>12
  DEF Next, Step

\* TokenInv holds of every execution.
THEOREM TokenOwned == Spec => []TokenInv
<1>1. Init => TokenInv
  BY DEF Init, TokenInv, OwnToken, OnToken
<1>2. TypeOK /\ TokenInv /\ [Next]_vars => TokenInv'
  BY TokenInvStep
<1>3. QED
  BY <1>1, <1>2, TypeCorrect, PTL DEF Spec

\* freeAwsCredentials is not given a block that was freed before, unless two
\* handlers have overlapped.
THEOREM FreedOnce == Spec => []TokenFreedOnce
<1>1. TypeOK /\ TokenInv => TokenFreedOnce
  BY DEF TypeOK, TokenInv, OwnToken, TokenFreedOnce
<1>2. QED
  BY <1>1, TypeCorrect, TokenOwned, PTL

\* What PIC is told of the expiration was not wrapped into the past, in every
\* execution; and unless two handlers have overlapped it reads a live token
\* made from the credentials of this very call.
THEOREM PicReadsLiveToken == Spec => []PicReadsOwnToken
<1>1. TypeOK /\ TokenInv /\ RefreshInv => PicReadsOwnToken
  <2> SUFFICES ASSUME TypeOK, TokenInv, RefreshInv, NEW t \in Threads, pc[t] = "picRead"
               PROVE  /\ mine[t] > now => KinesisTime(mine[t]) > KinesisTime(now)
                      /\ raced \/ (buf[t] \in heap /\ content[buf[t]] = KinesisTime(mine[t]))
    BY DEF PicReadsOwnToken
  <2>1. raced \/ (buf[t] \in heap /\ content[buf[t]] = KinesisTime(mine[t]))
    BY DEF TypeOK, TokenInv, OwnToken
  <2>2. mine[t] \in Dates /\ now \in 0..MaxTime
    BY DEF TypeOK, RefreshInv, HasCopy
  <2>3. QED
    BY <2>1, <2>2, LaterDate
<1>2. QED
  BY <1>1, TypeCorrect, TokenOwned, RefreshConsistent, PTL

\* No call leaves a block behind, unless two handlers have overlapped.
THEOREM NoBlockLost == Spec => []NoTokenLeak
<1>1. TokenInv => NoTokenLeak
  BY DEF TokenInv, NoTokenLeak
<1>2. QED
  BY <1>1, TokenOwned, PTL

\* The word for the maximum is that of no other date, and of no empty block.
LEMMA MaximumIsUnique ==
  /\ KinesisTime(MaxSeconds) # 0
  /\ \A d \in Dates \ {MaxSeconds} : KinesisTime(d) # KinesisTime(MaxSeconds)
<1> DEFINE H == HundredNanosInSecond
<1>1. \A n \in 0..MaxTime, p \in Periods \cup {0} :
        /\ H \in Nat \ {0} /\ (n + p) * H \in Nat /\ KinesisTime(n + p) = (n + p) * H
        /\ KinesisTime(MaxSeconds) = Width - H /\ (n + p) * H < Width - H
  <2> TAKE n \in 0..MaxTime, p \in Periods \cup {0}
  <2>1. H \in Nat \ {0} /\ n \in Nat /\ p \in Nat /\ ((n + p) * H) % Width = (n + p) * H
    BY WordOfMoment
  <2>2. (MaxSeconds * H) % Width = Width - H /\ (n + p) * H < Width - H
    BY MaximumIsLast
  <2>3. (n + p) * H \in Nat
    BY <2>1
  <2>4. QED
    BY <2>1, <2>2, <2>3 DEF KinesisTime
<1>2. KinesisTime(MaxSeconds) # 0
  <2>1. 0 \in 0..MaxTime
    OBVIOUS
  <2>2. (0 + 0) * H \in Nat /\ (0 + 0) * H < Width - H /\ KinesisTime(MaxSeconds) = Width - H
    BY <1>1, <2>1
  <2>3. QED
    BY <2>2
<1>3. \A d \in Dates \ {MaxSeconds} : KinesisTime(d) # KinesisTime(MaxSeconds)
  <2> TAKE d \in Dates \ {MaxSeconds}
  <2>1. PICK n \in 0..MaxTime, p \in Periods : d = n + p
    BY DEF Dates
  <2>2. d * H \in Nat /\ d * H < Width - H
        /\ KinesisTime(d) = d * H /\ KinesisTime(MaxSeconds) = Width - H
    BY <1>1, <2>1
  <2>3. QED
    BY <2>2
<1>4. QED
  BY <1>2, <1>3

\* However the handlers overlap, no serialized token of a rotating provider
\* claims the maximum expiration.
THEOREM TokensAreComplete == Spec => []TokensComplete
<1> DEFINE Complete == ~static => \A b \in Buffers : content[b] # KinesisTime(MaxSeconds)
<1>1. Init => Complete
  BY MaximumIsUnique DEF Init
<1>2. TypeOK /\ RefreshInv /\ NoTornCredentials /\ Complete /\ [Next]_vars => Complete'
  <2> SUFFICES ASSUME TypeOK, RefreshInv, NoTornCredentials, Complete, [Next]_vars
               PROVE  Complete'
    OBVIOUS
  <2>0. ASSUME UNCHANGED <<static, content>> PROVE Complete'
    BY <2>0
  <2> USE DEF credVars, tokenVars
  <2>1. CASE Tick \/ UNCHANGED vars
    BY <2>0, <2>1 DEF Tick, vars
  <2>2. CASE Renew
    BY <2>2, MaximumIsUnique DEF Renew
  <2>3. ASSUME NEW t \in Threads,
               \/ Call(t) \/ Lock(t) \/ Check(t) \/ StoreCredentials(t) \/ SetExpiration(t)
               \/ CopyOut(t) \/ Return(t) \/ FreeOld(t) \/ CreateFails(t) \/ Use(t) \/ PicRead(t)
        PROVE  Complete'
    BY <2>0, <2>3 DEF Call, Lock, Check, StoreCredentials, SetExpiration, CopyOut, Return,
                      FreeOld, CreateFails, Use, PicRead, Done
  <2>4. ASSUME NEW t \in Threads, Freed(t) PROVE Complete'
    BY <2>4, MaximumIsUnique DEF Freed
  <2>5. ASSUME NEW t \in Threads, Create(t) PROVE Complete'
    <3>1. ~static => mine[t] \in Dates \ {MaxSeconds}
      BY <2>5 DEF Create, HasCopy, RefreshInv, NoTornCredentials
    <3>2. ~static => KinesisTime(mine[t]) # KinesisTime(MaxSeconds)
      BY <3>1, MaximumIsUnique
    <3>3. QED
      BY <2>5, <3>2 DEF Create, TypeOK
  <2>6. QED
    BY <2>1, <2>2, <2>3, <2>4, <2>5 DEF Next, Step
<1>3. TypeOK /\ Complete => TokensComplete
  BY DEF TypeOK, TokensComplete
<1>4. QED
  BY <1>1, <1>2, <1>3, TypeCorrect, RefreshConsistent, CompleteCredentials, PTL DEF Spec
==============================================================================
