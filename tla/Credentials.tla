----------------------------- MODULE Credentials -----------------------------
(***************************************************************************)
(* CredentialProvider: the cached credentials that refreshCredentials      *)
(* renews under credential_mutex_, and the serialized copy of them,        *)
(* security_token_, that the two callbacks given to PIC free, create and   *)
(* hand over outside that mutex.                                           *)
(*                                                                         *)
(* Threads call getCredentials ("get") and getUpdatedCredentials           *)
(* ("update") directly, and PIC calls getSecurityTokenHandler ("security") *)
(* and getStreamingTokenHandler ("streaming"), which call one of the two   *)
(* each.  PIC may run any number of them at the same time.  Seconds and    *)
(* nanoseconds are unsigned words of Width values; of the credentials only *)
(* the expiration is kept.                                                 *)
(***************************************************************************)
EXTENDS Naturals

CONSTANTS
  Threads, NoThread,   \* callers
  Buffers, Null,       \* heap blocks that hold a serialized token
  Periods,             \* lifetimes in seconds a rotating provider gives
  GracePeriod,         \* CredentialProviderGracePeriod, in seconds
  NanosInSecond,       \* the ratio of the chrono conversion
  HundredNanosInSecond,\* HUNDREDS_OF_NANOS_IN_A_SECOND
  Width,               \* 2^64 in the code
  MaxTime              \* bound: the clock stops there

ASSUME ThreadAssumption == NoThread \notin Threads
ASSUME BufferAssumption == Null \notin Buffers
ASSUME NumberAssumption ==
  /\ Periods \subseteq Nat
  /\ {GracePeriod, NanosInSecond, HundredNanosInSecond, MaxTime} \subseteq Nat
  /\ Width \in Nat \ {0}

MaxSeconds == Width - 1          \* MAX_UINT64

\* The conversions of seconds wrap like the unsigned words they are.
Nanos(seconds) == (seconds * NanosInSecond) % Width
KinesisTime(seconds) == (seconds * HundredNanosInSecond) % Width

\* The dates of an execution fit their words: 2^64 nanoseconds reach beyond
\* the year 2500.
ASSUME ClockAssumption ==
  /\ GracePeriod > 0 /\ HundredNanosInSecond \in 1..NanosInSecond
  /\ \A p \in Periods \cup {GracePeriod} : (MaxTime + p + 1) * NanosInSecond < Width

VARIABLES
  static,        \* a StaticCredentialProvider, or one that rotates
  now,           \* the system clock, in seconds
  expiration,    \* credentials_.expiration_
  nextRotation,  \* next_rotation_time_
  mutex,         \* holder of credential_mutex_
  token,         \* security_token_
  heap,          \* the blocks currently allocated
  content,       \* content[b]: expiration serialized in block b
  pc, kind,      \* where each thread is, and the function it runs
  readAt,        \* the clock refreshCredentials read
  fetched,       \* did this call ask the provider?
  mine,          \* expiration of the credentials the call copied out
  buf,           \* the block the call works on
  raced          \* history: have two handlers worked on security_token_ at once?

credVars == <<expiration, nextRotation>>
tokenVars == <<token, heap, content>>
vars == <<static, now, expiration, nextRotation, mutex, token, heap, content,
          pc, kind, readAt, fetched, mine, buf, raced>>

Handlers == {"security", "streaming"}
Kinds == {"get", "update"} \cup Handlers
OnToken == {"free", "freeing", "create", "use", "picRead"}
Labels == {"idle", "lock", "check", "store", "expire", "copy", "return"} \cup OnToken

TypeOK ==
  /\ static \in BOOLEAN
  /\ now \in 0..MaxTime
  /\ expiration \in Nat
  /\ nextRotation \in Nat
  /\ mutex \in Threads \cup {NoThread}
  /\ token \in Buffers \cup {Null}
  /\ heap \in SUBSET Buffers
  /\ content \in [Buffers -> Nat]
  /\ pc \in [Threads -> Labels]
  /\ kind \in [Threads -> Kinds]
  /\ readAt \in [Threads -> Nat]
  /\ fetched \in [Threads -> BOOLEAN]
  /\ mine \in [Threads -> Nat]
  /\ buf \in [Threads -> Buffers \cup {Null}]
  /\ raced \in BOOLEAN

Init ==
  /\ static \in BOOLEAN
  /\ now = 0
  /\ expiration = MaxSeconds /\ nextRotation = 0
  /\ mutex = NoThread
  /\ token = Null /\ heap = {} /\ content = [b \in Buffers |-> 0]
  /\ pc = [t \in Threads |-> "idle"]
  /\ kind = [t \in Threads |-> "get"]
  /\ readAt = [t \in Threads |-> 0]
  /\ fetched = [t \in Threads |-> FALSE]
  /\ mine = [t \in Threads |-> 0]
  /\ buf = [t \in Threads |-> Null]
  /\ raced = FALSE

------------------------------------------------------------------------------
Goto(t, label) == pc' = [pc EXCEPT ![t] = label]

Tick ==
  /\ now < MaxTime
  /\ now' = now + 1
  /\ UNCHANGED <<static, credVars, mutex, tokenVars, pc, kind, readAt, fetched, mine, buf, raced>>

Call(t) == \E k \in Kinds :
  /\ pc[t] = "idle"
  /\ Goto(t, "lock")
  /\ kind' = [kind EXCEPT ![t] = k]
  /\ UNCHANGED <<static, now, credVars, mutex, tokenVars, readAt, fetched, mine, buf, raced>>

------------------------------------------------------------------------------
(* getCredentials and getUpdatedCredentials *)

\* Deviation: no credential_mutex_.
LockNothing(t) ==
  /\ pc[t] = "lock"
  /\ mutex' = t
  /\ Goto(t, "check")
  /\ UNCHANGED <<static, now, credVars, tokenVars, kind, readAt, fetched, mine, buf, raced>>

Lock(t) ==
  /\ pc[t] = "lock" /\ mutex = NoThread
  /\ mutex' = t
  /\ Goto(t, "check")
  /\ UNCHANGED <<static, now, credVars, tokenVars, kind, readAt, fetched, mine, buf, raced>>

ForceUpdate(t) == kind[t] \in {"update", "streaming"}

\* Deviation: the grace period is forgotten.
RotationPast == Nanos(now) > Nanos(nextRotation)

\* now_time + CredentialProviderGracePeriod > next_rotation_time_, in unsigned
\* nanoseconds.
RotationDue == (Nanos(now) + Nanos(GracePeriod)) % Width > Nanos(nextRotation)

Check(t) ==
  /\ pc[t] = "check"
  /\ Goto(t, IF ForceUpdate(t) \/ RotationDue THEN "store" ELSE "copy")
  /\ readAt' = [readAt EXCEPT ![t] = now]
  /\ UNCHANGED <<static, now, credVars, mutex, tokenVars, kind, fetched, mine, buf, raced>>

\* updateCredentials, first half: the stored credentials are copied forward;
\* their own expiration is the maximum.
StoreCredentials(t) ==
  /\ pc[t] = "store"
  /\ expiration' = MaxSeconds
  /\ Goto(t, "expire")
  /\ UNCHANGED <<static, now, nextRotation, mutex, tokenVars, kind, readAt, fetched, mine, buf, raced>>

Expirations == IF static THEN {MaxSeconds} ELSE {now + p : p \in Periods}

\* Deviation: the time of the update is taken for the next rotation.
SetExpirationNow(t) == \E e \in Expirations :
  /\ pc[t] = "expire"
  /\ expiration' = e
  /\ nextRotation' = now
  /\ fetched' = [fetched EXCEPT ![t] = TRUE]
  /\ Goto(t, "copy")
  /\ UNCHANGED <<static, now, mutex, tokenVars, kind, readAt, mine, buf, raced>>

\* Second half: setExpiration; refreshCredentials then records the rotation time.
SetExpiration(t) == \E e \in Expirations :
  /\ pc[t] = "expire"
  /\ expiration' = e
  /\ nextRotation' = e
  /\ fetched' = [fetched EXCEPT ![t] = TRUE]
  /\ Goto(t, "copy")
  /\ UNCHANGED <<static, now, mutex, tokenVars, kind, readAt, mine, buf, raced>>

\* credentials = credentials_, and the lock_guard leaves scope.
CopyOut(t) ==
  /\ pc[t] = "copy"
  /\ mine' = [mine EXCEPT ![t] = expiration]
  /\ mutex' = NoThread
  /\ Goto(t, IF kind[t] \in Handlers THEN "free" ELSE "return")
  /\ raced' = (raced \/ (kind[t] \in Handlers /\ \E u \in Threads : pc[u] \in OnToken))
  /\ UNCHANGED <<static, now, credVars, tokenVars, kind, readAt, fetched, buf>>

Done(t) ==
  /\ Goto(t, "idle")
  /\ readAt' = [readAt EXCEPT ![t] = 0]
  /\ fetched' = [fetched EXCEPT ![t] = FALSE]
  /\ mine' = [mine EXCEPT ![t] = 0]
  /\ buf' = [buf EXCEPT ![t] = Null]
  /\ kind' = [kind EXCEPT ![t] = "get"]
  /\ UNCHANGED <<static, now, credVars, mutex, raced>>

Return(t) ==
  /\ pc[t] = "return"
  /\ Done(t)
  /\ UNCHANGED tokenVars

------------------------------------------------------------------------------
(* The rest of the two handlers, with no lock held *)

\* Deviation: the block of the last call is not freed.
KeepOld(t) ==
  /\ pc[t] = "free"
  /\ Goto(t, "create")
  /\ UNCHANGED <<static, now, credVars, mutex, tokenVars, kind, readAt, fetched, mine, buf, raced>>

\* freeAwsCredentials(&security_token_): reads the pointer ...
FreeOld(t) ==
  /\ pc[t] = "free"
  /\ buf' = [buf EXCEPT ![t] = token]
  /\ Goto(t, "freeing")
  /\ UNCHANGED <<static, now, credVars, mutex, tokenVars, kind, readAt, fetched, mine, raced>>

\* Deviation: the pointer that is cleared is a copy.
FreedCopy(t) ==
  /\ pc[t] = "freeing"
  /\ heap' = heap \ {buf[t]}
  /\ content' = [b \in Buffers |-> IF b = buf[t] THEN 0 ELSE content[b]]
  /\ Goto(t, "create")
  /\ UNCHANGED <<static, now, credVars, mutex, token, kind, readAt, fetched, mine, buf, raced>>

\* ... frees the block, which another handler may have freed since, and clears
\* the pointer, which another handler may have set.
Freed(t) ==
  /\ pc[t] = "freeing"
  /\ heap' = heap \ {buf[t]}
  /\ token' = Null
  /\ content' = [b \in Buffers |-> IF b = buf[t] THEN 0 ELSE content[b]]
  /\ Goto(t, "create")
  /\ UNCHANGED <<static, now, credVars, mutex, kind, readAt, fetched, mine, buf, raced>>

\* Deviation: the token is made from the cache, not from the copy.
CreateFromCache(t) == \E b \in Buffers \ heap :
  /\ pc[t] = "create"
  /\ heap' = heap \cup {b}
  /\ token' = b
  /\ content' = [content EXCEPT ![b] = KinesisTime(expiration)]
  /\ Goto(t, "use")
  /\ UNCHANGED <<static, now, credVars, mutex, kind, readAt, fetched, mine, buf, raced>>

\* createAwsCredentials allocates a block and stores its address.
Create(t) == \E b \in Buffers \ heap :
  /\ pc[t] = "create"
  /\ heap' = heap \cup {b}
  /\ token' = b
  /\ content' = [content EXCEPT ![b] = KinesisTime(mine[t])]
  /\ Goto(t, "use")
  /\ UNCHANGED <<static, now, credVars, mutex, kind, readAt, fetched, mine, buf, raced>>

\* It fails: the handler returns the status, PIC gets no token.
CreateFails(t) ==
  /\ pc[t] = "create"
  /\ Done(t)
  /\ UNCHANGED tokenVars

\* security_token_ is read again and given to PIC: as an argument of
\* getStreamingTokenResultEvent, or as the result of getSecurityTokenHandler.
\* (After a race it may be null, and reading its size undefined.)
Use(t) ==
  /\ pc[t] = "use"
  /\ buf' = [buf EXCEPT ![t] = token]
  /\ Goto(t, "picRead")
  /\ UNCHANGED <<static, now, credVars, mutex, tokenVars, kind, readAt, fetched, mine, raced>>

\* PIC copies the bytes; after the handler's return in the second case.
PicRead(t) ==
  /\ pc[t] = "picRead"
  /\ Done(t)
  /\ UNCHANGED tokenVars

\* ~CredentialProvider frees the token; the application makes a new provider,
\* of either kind.
Renew ==
  /\ \A t \in Threads : pc[t] = "idle"
  /\ heap' = heap \ {token} /\ token' = Null
  /\ content' = [b \in Buffers |-> 0]
  /\ expiration' = MaxSeconds /\ nextRotation' = 0
  /\ static' \in BOOLEAN
  /\ UNCHANGED <<now, mutex, pc, kind, readAt, fetched, mine, buf, raced>>

Step(t) ==
  \/ Lock(t) \/ Check(t) \/ StoreCredentials(t) \/ SetExpiration(t)
  \/ CopyOut(t) \/ Return(t)
  \/ FreeOld(t) \/ Freed(t) \/ Create(t) \/ CreateFails(t) \/ Use(t) \/ PicRead(t)

Next ==
  \/ Tick \/ Renew
  \/ \E t \in Threads : Call(t) \/ Step(t)

Spec == Init /\ [][Next]_vars

------------------------------------------------------------------------------
(* Properties *)

HasCopy(t) == pc[t] \in {"return", "free", "freeing", "create", "use", "picRead"}

\* The code between lock and unlock: one thread at a time.
InMutex(t) == pc[t] \in {"check", "store", "expire", "copy"}

MutexInv == \A t \in Threads : InMutex(t) <=> mutex = t

\* No caller sees the credentials in the middle of updateCredentials, when the
\* expiration is still the stored maximum: it would hold short-lived
\* credentials for ones that never expire.
NoTornCredentials ==
  \A t \in Threads : HasCopy(t) /\ ~static => mine[t] # MaxSeconds

\* Why: the maximum is only in place before the first fetch, which is then due,
\* and between the two halves of an update, under the mutex.
CacheInv ==
  ~static =>
    /\ expiration = MaxSeconds =>
         \/ nextRotation = 0
         \/ \E t \in Threads : pc[t] = "expire"
    /\ \A t \in Threads : pc[t] = "copy" => expiration # MaxSeconds

\* Both hold together: what the cache contains rests on the mutex.
CredentialsInv == MutexInv /\ CacheInv

\* Nobody is given credentials that expire within the grace period, unless the
\* provider was asked in this very call and gave no better; a streaming token
\* is always made from credentials fetched for it.
FreshOrJustFetched ==
  \A t \in Threads :
    HasCopy(t) => fetched[t] \/ (kind[t] # "streaming" /\ mine[t] >= readAt[t] + GracePeriod)

\* Unless it is forced, the provider is asked only on first use and when the
\* cached credentials really are close to expiry: the wrapped maximum of
\* static credentials still lies beyond every time the clock can show.
NoNeedlessFetch ==
  \A t \in Threads :
    pc[t] = "store" /\ ~ForceUpdate(t) =>
      nextRotation = 0 \/ expiration < readAt[t] + GracePeriod

\* Until two handlers overlap, freeAwsCredentials is only applied to a block
\* that is still allocated, whatever handlers failed before.
TokenFreedOnce ==
  raced \/ \A t \in Threads : pc[t] = "freeing" /\ buf[t] # Null => buf[t] \in heap

\* The expiration that PIC is told is not in the past while the credentials
\* are good; and until two handlers overlap the bytes PIC reads are those of a
\* live block, made from the credentials this very handler copied.
PicReadsOwnToken ==
  \A t \in Threads : pc[t] = "picRead" =>
    /\ mine[t] > now => KinesisTime(mine[t]) > KinesisTime(now)
    /\ raced \/ (buf[t] \in heap /\ content[buf[t]] = KinesisTime(mine[t]))

\* Until two handlers overlap, security_token_ is the only block allocated once
\* the handlers have returned.
NoTokenLeak ==
  raced \/ ((\A t \in Threads : pc[t] = "idle") => heap = {token} \ {Null})

\* However handlers overlap, no block holds a token made in the middle of
\* updateCredentials, which would claim to be good for ever.
TokensComplete ==
  ~static => \A b \in heap : content[b] # KinesisTime(MaxSeconds)

------------------------------------------------------------------------------
(* What the comments of the code say and some executions contradict. *)

\* "Synchronize credential access since multiple clients may call
\* simultaneously" (getUpdatedCredentials), "free current aws credential
\* first": what a handler frees is allocated.
TokenSynchronized ==
  \A t \in Threads : pc[t] = "freeing" /\ buf[t] # Null => buf[t] \in heap

\* "Store the buffer so we can release it at the end": once the handlers have
\* returned there is no block but the one that is stored.
TokenStored == (\A t \in Threads : pc[t] = "idle") => heap = {token} \ {Null}
==============================================================================
