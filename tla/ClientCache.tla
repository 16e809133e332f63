---------------------------- MODULE ClientCache -----------------------------
(***************************************************************************)
(* simple_nb_client_cache_t (cuti/cuti/simple_nb_client_cache.cpp), which  *)
(* keeps connections for use by later calls, and the calls of rpc_client_t *)
(* (cuti/cuti/rpc_client.cpp) that obtain and store them.                  *)
(*                                                                         *)
(* Calls are made by several threads.  The cache's mutex makes each search *)
(* of its entries atomic.  What is too old is decided by a look at the     *)
(* clock before the mutex is taken, so that time may pass, and others use  *)
(* the cache, in between.  Making a connection takes place outside of it.  *)
(***************************************************************************)
EXTENDS Integers, Sequences, SequencesExt, FiniteSets, Places

CONSTANTS
  Callers,
  Addresses,     \* of servers
  MaxCachesize,  \* max_cachesize_
  MaxAge,        \* max_age_
  Clients,       \* bound: the connections ever made
  MaxTime,       \* bound: the last point in time
  Nothing        \* nothing

ASSUME ClientCacheAssumption ==
  /\ {MaxCachesize, MaxAge, MaxTime} \subseteq Nat
  /\ Nothing \notin Clients \cup Addresses \cup Int

VARIABLES
  now,
  entries,       \* entries_: the client and the timestamp_ of each
  address,       \* the server_address() of each client that was made
  at,            \* where each thread is in its call
  call,          \* the address of each thread's call
  expiry,        \* expiry_timestamp, while the thread waits for the mutex
  client,        \* the nb_client_ of each thread's call: Nothing while it is made
  dead           \* the clients that are closed

cacheVars == <<now, entries, address, at, call, expiry, client, dead>>

Entry  == [client : Clients, timestamp : 0 .. MaxTime]
Cached == {entries[i].client : i \in DOMAIN entries}
InUse  == {client[t] : t \in Callers} \ {Nothing}

CacheTypeOK ==
  /\ now \in 0 .. MaxTime
  /\ entries \in Seq(Entry) /\ Len(entries) <= MaxCachesize
  /\ address \in [Clients -> Addresses \cup {Nothing}]
  /\ at \in [Callers -> {"idle", "obtain", "create", "use", "invalidate"}]
  /\ call \in [Callers -> Addresses \cup {Nothing}]
  /\ expiry \in [Callers -> (-MaxAge .. MaxTime) \cup {Nothing}]
  /\ client \in [Callers -> Clients \cup {Nothing}]
  /\ dead \subseteq Clients

CacheInit ==
  /\ now = 0
  /\ entries = <<>>
  /\ address = [c \in Clients |-> Nothing]
  /\ at = [t \in Callers |-> "idle"]
  /\ call = [t \in Callers |-> Nothing]
  /\ expiry = [t \in Callers |-> Nothing]
  /\ client = [t \in Callers |-> Nothing]
  /\ dead = {}

-----------------------------------------------------------------------------
IsFor(e, a) == address[e.client] = a

\* Mutant of IsFresh: an old connection is kept.
IsFreshForever(e, x) == TRUE

IsFresh(e, x) == e.timestamp > x

(***************************************************************************)
(* What comes before the first entry that expired, and what comes after.   *)
(***************************************************************************)
FreshLength(x) ==
  CHOOSE n \in 0 .. Len(entries) :
    /\ \A i \in 1 .. n : IsFresh(entries[i], x)
    /\ n = Len(entries) \/ ~IsFresh(entries[n + 1], x)

Fresh(x)   == SubSeq(entries, 1, FreshLength(x))
Expired(x) == {entries[i].client : i \in FreshLength(x) + 1 .. Len(entries)}

(***************************************************************************)
(* obtain(): the newest connection to the address, if there is one, and    *)
(* expired ones are closed.                                                *)
(***************************************************************************)
StartObtain(t, a) ==
  /\ at[t] = "idle"
  /\ at' = [at EXCEPT ![t] = "obtain"]
  /\ call' = [call EXCEPT ![t] = a]
  /\ expiry' = [expiry EXCEPT ![t] = now - MaxAge]
  /\ UNCHANGED <<now, entries, address, client, dead>>

\* Mutant of Obtain: the entry is left in the cache.
ObtainShared(t) ==
  /\ at[t] = "obtain"
  /\ LET found == Fresh(expiry[t])
         fits  == {i \in DOMAIN found : IsFor(found[i], call[t])}
     IN  IF fits = {}
           THEN client' = client /\ at' = [at EXCEPT ![t] = "create"]
           ELSE /\ client' = [client EXCEPT ![t] = found[CHOOSE i \in fits : \A j \in fits : i <= j].client]
                /\ at' = [at EXCEPT ![t] = "use"]
  /\ entries' = Fresh(expiry[t])
  /\ dead' = dead \cup Expired(expiry[t])
  /\ expiry' = [expiry EXCEPT ![t] = Nothing]
  /\ UNCHANGED <<now, address, call>>

Obtain(t) ==
  /\ at[t] = "obtain"
  /\ LET found == Fresh(expiry[t])
         fits  == {i \in DOMAIN found : IsFor(found[i], call[t])}
         pos   == CHOOSE i \in fits : \A j \in fits : i <= j
     IN  IF fits = {}
           THEN entries' = found /\ client' = client /\ at' = [at EXCEPT ![t] = "create"]
           ELSE /\ entries' = RemoveAt(found, pos)
                /\ client' = [client EXCEPT ![t] = found[pos].client]
                /\ at' = [at EXCEPT ![t] = "use"]
  /\ dead' = dead \cup Expired(expiry[t])
  /\ expiry' = [expiry EXCEPT ![t] = Nothing]
  /\ UNCHANGED <<now, address, call>>

\* The rest of obtain(): a connection is made.
Create(t, c) ==
  /\ at[t] = "create"
  /\ at' = [at EXCEPT ![t] = "use"]
  /\ address[c] = Nothing
  /\ address' = [address EXCEPT ![c] = call[t]]
  /\ client' = [client EXCEPT ![t] = c]
  /\ UNCHANGED <<now, entries, call, expiry, dead>>

(***************************************************************************)
(* No connection can be made, and obtain() throws, or the call fails:      *)
(* other connections to the server may be bad too.                         *)
(***************************************************************************)
Fail(t) ==
  /\ at[t] \in {"create", "use"}
  /\ at' = [at EXCEPT ![t] = "invalidate"]
  /\ expiry' = [expiry EXCEPT ![t] = now - MaxAge]
  /\ UNCHANGED <<now, entries, address, call, client, dead>>

\* Mutant of Invalidate: one entry only.
InvalidateOne(t) ==
  /\ at[t] = "invalidate"
  /\ LET found == Fresh(expiry[t])
         fits  == {i \in DOMAIN found : IsFor(found[i], call[t])}
         pos   == CHOOSE i \in fits : \A j \in fits : i <= j
     IN  /\ entries' = IF fits = {} THEN found ELSE RemoveAt(found, pos)
         /\ dead' = dead \cup Expired(expiry[t]) \cup ({client[t]} \ {Nothing})
                      \cup (IF fits = {} THEN {} ELSE {found[pos].client})
  /\ at' = [at EXCEPT ![t] = "idle"]
  /\ call' = [call EXCEPT ![t] = Nothing]
  /\ expiry' = [expiry EXCEPT ![t] = Nothing]
  /\ client' = [client EXCEPT ![t] = Nothing]
  /\ UNCHANGED <<now, address>>

\* invalidate_entries(): connections to the address and expired ones are closed.
Invalidate(t) ==
  /\ at[t] = "invalidate"
  /\ LET found == Fresh(expiry[t])
     IN  entries' = AtPlaces(found, {i \in DOMAIN found : ~IsFor(found[i], call[t])})
  /\ dead' = dead \cup Expired(expiry[t]) \cup ({client[t]} \ {Nothing})
               \cup {c \in Cached : address[c] = call[t]}
  /\ at' = [at EXCEPT ![t] = "idle"]
  /\ call' = [call EXCEPT ![t] = Nothing]
  /\ expiry' = [expiry EXCEPT ![t] = Nothing]
  /\ client' = [client EXCEPT ![t] = Nothing]
  /\ UNCHANGED <<now, address>>

\* store(), after a call that succeeded: the oldest is closed if there are too many.
Store(t) ==
  /\ at[t] = "use"
  /\ LET stored == <<[client |-> client[t], timestamp |-> now]>> \o entries
     IN  IF Len(entries) = MaxCachesize
           THEN entries' = Front(stored) /\ dead' = dead \cup {Last(stored).client}
           ELSE entries' = stored /\ dead' = dead
  /\ at' = [at EXCEPT ![t] = "idle"]
  /\ client' = [client EXCEPT ![t] = Nothing]
  /\ call' = [call EXCEPT ![t] = Nothing]
  /\ UNCHANGED <<now, address, expiry>>

Tick ==
  /\ now < MaxTime
  /\ now' = now + 1
  /\ UNCHANGED <<entries, address, at, call, expiry, client, dead>>

CacheNext ==
  \/ \E t \in Callers :
       \/ \E a \in Addresses : StartObtain(t, a)
       \/ Obtain(t)
       \/ \E c \in Clients : Create(t, c)
       \/ Store(t) \/ Fail(t) \/ Invalidate(t)
  \/ Tick

CacheSpec == CacheInit /\ [][CacheNext]_cacheVars

-----------------------------------------------------------------------------
(***************************************************************************)
(* A connection that was made is in one place: in the cache, once, in use  *)
(* by one call, or closed.  No two calls share one, and none is lost.      *)
(***************************************************************************)
OneOwner ==
  /\ \A i, j \in DOMAIN entries : entries[i].client = entries[j].client => i = j
  /\ \A t, u \in Callers : client[t] # Nothing /\ client[t] = client[u] => t = u
  /\ Cached \cap InUse = {} /\ (Cached \cup InUse) \cap dead = {}
  /\ Cached \cup InUse \cup dead = {c \in Clients : address[c] # Nothing}

(***************************************************************************)
(* "In reverse timestamp order (highest first)"                            *)
(* (simple_nb_client_cache.hpp): searches stop at the first that expired.  *)
(***************************************************************************)
NewestFirst ==
  \A i, j \in DOMAIN entries : i < j => entries[i].timestamp >= entries[j].timestamp

InThePast == \A i \in DOMAIN entries : entries[i].timestamp <= now

ServesItsCall == \A t \in Callers : client[t] # Nothing => address[client[t]] = call[t]

\* Where a thread is decides what it has.
CallsFit ==
  \A t \in Callers :
    /\ at[t] = "idle" <=> call[t] = Nothing
    /\ at[t] \in {"obtain", "invalidate"} <=> expiry[t] # Nothing
    /\ at[t] = "use" => client[t] # Nothing
    /\ client[t] # Nothing => at[t] \in {"use", "invalidate"}

\* What the threads that share the cache rely on.
CacheInv ==
  /\ CacheTypeOK
  /\ OneOwner
  /\ NewestFirst /\ InThePast
  /\ CallsFit /\ ServesItsCall

(***************************************************************************)
(* Of the connections to its server that had been in use within the last   *)
(* MaxAge when obtain() was called, or were stored later, a call gets one, *)
(* and the one used last; it has to make one only if there are none.       *)
(***************************************************************************)
Usable(t) == {i \in DOMAIN entries : address[entries[i].client] = call[t]
                                       /\ entries[i].timestamp > expiry[t]}

FitsTheCall ==
  [][\A t \in Callers :
       at[t] = "obtain" /\ at'[t] # "obtain" =>
         \/ Usable(t) = {} /\ client'[t] = Nothing
         \/ \E i \in Usable(t) :
              /\ client'[t] = entries[i].client
              /\ \A j \in Usable(t) : entries[j].timestamp <= entries[i].timestamp]_cacheVars

(***************************************************************************)
(* When a call that failed is over, no connection to its server that was   *)
(* made before is used for another call, except those that calls in        *)
(* progress have in use.                                                   *)
(***************************************************************************)
FailureInvalidates ==
  [][\A t \in Callers :
       at[t] = "invalidate" /\ at'[t] # "invalidate"
         => \A c \in Cached' : address[c] # call[t]]_cacheVars

=============================================================================
