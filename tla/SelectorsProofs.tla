-------------------------- MODULE SelectorsProofs --------------------------
(***************************************************************************)
(* Proofs about the selectors.  What the four have in common, two lists    *)
(* that share the registrations, is proved once; for each of them it is    *)
(* then shown that what it finds are watched registrations of events that  *)
(* are ready, because the kernel, or the array, has exactly the watched    *)
(* ones.                                                                   *)
(***************************************************************************)
EXTENDS Selectors, SequenceFacts

-----------------------------------------------------------------------------
(***************************************************************************)
(* Lists of which the elements are all different.                          *)
(***************************************************************************)
LEMMA ElementsOf ==
  ASSUME NEW T, NEW s \in Seq(T)
  PROVE  /\ Len(s) \in Nat /\ DOMAIN s = 1 .. Len(s)
         /\ \A i \in 1 .. Len(s) : s[i] \in T
         /\ ToSet(s) = {s[i] : i \in 1 .. Len(s)} /\ ToSet(s) \subseteq T
         /\ \A x : Contains(s, x) <=> x \in ToSet(s)
BY DEF ToSet, Contains

LEMMA JoinedLists ==
  ASSUME NEW T, NEW w \in Seq(T), NEW p \in Seq(T)
  PROVE  /\ w \o p \in Seq(T)
         /\ ToSet(w \o p) = ToSet(w) \cup ToSet(p)
         /\ Distinct(w \o p) <=> Distinct(w) /\ Distinct(p) /\ ToSet(w) \cap ToSet(p) = {}
<1>1. /\ w \o p \in Seq(T) /\ Len(w \o p) = Len(w) + Len(p)
      /\ \A i \in 1 .. Len(w) + Len(p) : (w \o p)[i] = IF i <= Len(w) THEN w[i] ELSE p[i - Len(w)]
  BY ConcatProperties
<1>2. /\ Len(w) \in Nat /\ Len(p) \in Nat
      /\ ToSet(w) = {w[i] : i \in 1 .. Len(w)} /\ ToSet(p) = {p[i] : i \in 1 .. Len(p)}
  BY ElementsOf
<1> DEFINE u == w \o p
<1>3. ToSet(u) = {u[i] : i \in 1 .. Len(u)}
  BY <1>1, ElementsOf
<1>4. /\ Len(u) = Len(w) + Len(p)
      /\ \A i \in 1 .. Len(w) : i \in 1 .. Len(u) /\ u[i] = w[i]
      /\ \A i \in 1 .. Len(p) : Len(w) + i \in 1 .. Len(u) /\ u[Len(w) + i] = p[i]
  <2>1. ASSUME NEW i \in 1 .. Len(w) PROVE i \in 1 .. Len(u) /\ u[i] = w[i]
    BY <1>1, <1>2
  <2>2. ASSUME NEW i \in 1 .. Len(p) PROVE Len(w) + i \in 1 .. Len(u) /\ u[Len(w) + i] = p[i]
    <3>1. Len(w) + i \in 1 .. Len(w) + Len(p) /\ ~(Len(w) + i <= Len(w)) /\ Len(w) + i - Len(w) = i
      BY <1>2
    <3> QED
      BY <1>1, <3>1
  <2> QED
    BY <1>1, <2>1, <2>2
<1>5. \A i \in 1 .. Len(u) : i \in 1 .. Len(w) \/ \E j \in 1 .. Len(p) : i = Len(w) + j
  <2> SUFFICES ASSUME NEW i \in 1 .. Len(u), i \notin 1 .. Len(w)
               PROVE  \E j \in 1 .. Len(p) : i = Len(w) + j
    OBVIOUS
  <2>1. i - Len(w) \in 1 .. Len(p) /\ i = Len(w) + (i - Len(w))
    BY <1>2, <1>4
  <2> QED
    BY <2>1
<1> HIDE DEF u
<1>6. ToSet(u) = ToSet(w) \cup ToSet(p)
  <2>1. ASSUME NEW i \in 1 .. Len(u) PROVE u[i] \in ToSet(w) \cup ToSet(p)
    <3>1. CASE i \in 1 .. Len(w)
      BY <1>2, <1>4, <3>1
    <3>2. CASE \E j \in 1 .. Len(p) : i = Len(w) + j
      BY <1>2, <1>4, <3>2
    <3> QED
      BY <1>5, <3>1, <3>2
  <2>2. \A x \in ToSet(w) \cup ToSet(p) : x \in ToSet(u)
    BY <1>2, <1>3, <1>4
  <2> QED
    BY <1>3, <2>1, <2>2
<1>7. ASSUME Distinct(u)
      PROVE  Distinct(w) /\ Distinct(p) /\ ToSet(w) \cap ToSet(p) = {}
  <2>1. Distinct(w)
    BY <1>4, <1>7 DEF Distinct
  <2>2. Distinct(p)
    <3> SUFFICES ASSUME NEW i \in 1 .. Len(p), NEW j \in 1 .. Len(p), p[i] = p[j] PROVE i = j
      BY DEF Distinct
    <3>1. Len(w) + i = Len(w) + j
      BY <1>4, <1>7 DEF Distinct
    <3> QED
      BY <1>2, <3>1
  <2>3. ASSUME NEW i \in 1 .. Len(w), NEW j \in 1 .. Len(p), w[i] = p[j] PROVE FALSE
    <3>1. i = Len(w) + j
      BY <1>4, <1>7, <2>3 DEF Distinct
    <3> QED
      BY <1>2, <3>1
  <2> QED
    BY <1>2, <2>1, <2>2, <2>3
<1>8. ASSUME Distinct(w), Distinct(p), ToSet(w) \cap ToSet(p) = {}
      PROVE  Distinct(u)
  <2> SUFFICES ASSUME NEW i \in 1 .. Len(u), NEW j \in 1 .. Len(u), u[i] = u[j] PROVE i = j
    BY DEF Distinct
  <2>1. \A a \in 1 .. Len(w), b \in 1 .. Len(p) : w[a] # p[b]
    BY <1>2, <1>8
  <2>2. CASE i \in 1 .. Len(w) /\ j \in 1 .. Len(w)
    BY <1>4, <1>8, <2>2 DEF Distinct
  <2>3. CASE i \notin 1 .. Len(w) /\ j \notin 1 .. Len(w)
    BY <1>4, <1>5, <1>8, <2>3 DEF Distinct
  <2>4. CASE i \in 1 .. Len(w) /\ j \notin 1 .. Len(w)
    <3>1. PICK b \in 1 .. Len(p) : j = Len(w) + b
      BY <1>5, <2>4
    <3> QED
      BY <1>4, <2>1, <2>4, <3>1
  <2>5. CASE i \notin 1 .. Len(w) /\ j \in 1 .. Len(w)
    <3>1. PICK b \in 1 .. Len(p) : i = Len(w) + b
      BY <1>5, <2>5
    <3> QED
      BY <1>4, <2>1, <2>5, <3>1
  <2> QED
    BY <2>2, <2>3, <2>4, <2>5
<1> QED
  BY <1>1, <1>6, <1>7, <1>8 DEF u

LEMMA PutAtTheEnd ==
  ASSUME NEW T, NEW s \in Seq(T), Distinct(s), NEW x, x \notin T
  PROVE  /\ Append(s, x) \in Seq(T \cup {x}) /\ Distinct(Append(s, x))
         /\ ToSet(Append(s, x)) = ToSet(s) \cup {x}
<1> DEFINE a == Append(s, x)
<1>1. s \in Seq(T \cup {x})
  BY ElementsOf
<1>2. /\ a \in Seq(T \cup {x}) /\ Len(a) = Len(s) + 1 /\ a[Len(s) + 1] = x
      /\ \A i \in 1 .. Len(s) : a[i] = s[i]
  BY <1>1
<1>3. /\ Len(s) \in Nat /\ \A i \in 1 .. Len(s) : s[i] \in T
      /\ ToSet(s) = {s[i] : i \in 1 .. Len(s)}
  BY ElementsOf
<1>4. ToSet(a) = {a[i] : i \in 1 .. Len(a)}
  BY <1>2, ElementsOf
<1> HIDE DEF a
<1>5. \A i \in 1 .. Len(a) : i \in 1 .. Len(s) \/ i = Len(s) + 1
  <2>1. Len(a) = Len(s) + 1 /\ Len(s) \in Nat
    BY <1>2, <1>3
  <2> QED
    BY <2>1
<1>6. \A i \in 1 .. Len(s) : i \in 1 .. Len(a) /\ Len(s) + 1 \in 1 .. Len(a)
  <2>1. Len(a) = Len(s) + 1 /\ Len(s) \in Nat
    BY <1>2, <1>3
  <2> QED
    BY <2>1
<1>7. ToSet(a) = ToSet(s) \cup {x}
  <2>1. Len(s) + 1 \in 1 .. Len(a)
    BY <1>2, <1>3
  <2> QED
    BY <1>2, <1>3, <1>4, <1>5, <1>6, <2>1
<1>8. Distinct(a)
  BY <1>2, <1>3, <1>5 DEF Distinct
<1> QED
  BY <1>2, <1>7, <1>8 DEF a

LEMMA TakeOffTheFront ==
  ASSUME NEW T, NEW s \in Seq(T), Distinct(s), s # <<>>
  PROVE  /\ Head(s) \in ToSet(s)
         /\ Tail(s) \in Seq(T) /\ Distinct(Tail(s))
         /\ ToSet(Tail(s)) = ToSet(s) \ {Head(s)}
<1> DEFINE t == Tail(s)
<1>1. /\ t \in Seq(T) /\ Len(t) = Len(s) - 1 /\ Len(s) \in Nat /\ Len(s) > 0 /\ Head(s) = s[1]
      /\ \A i \in 1 .. Len(s) - 1 : t[i] = s[i + 1]
  OBVIOUS
<1>2. /\ ToSet(s) = {s[i] : i \in 1 .. Len(s)} /\ ToSet(t) = {t[i] : i \in 1 .. Len(t)}
  BY <1>1, ElementsOf
<1> HIDE DEF t
<1>3. \A i \in 1 .. Len(t) : i + 1 \in 1 .. Len(s) /\ i + 1 # 1 /\ t[i] = s[i + 1]
  BY <1>1
<1>4. \A i \in 1 .. Len(s) : i # 1 => i - 1 \in 1 .. Len(t) /\ t[i - 1] = s[i]
  <2> SUFFICES ASSUME NEW i \in 1 .. Len(s), i # 1
               PROVE  i - 1 \in 1 .. Len(t) /\ t[i - 1] = s[i]
    OBVIOUS
  <2>1. i - 1 \in 1 .. Len(t) /\ (i - 1) + 1 = i
    BY <1>1
  <2> QED
    BY <1>3, <2>1
<1>5. 1 \in 1 .. Len(s)
  BY <1>1
<1>6. ToSet(t) = ToSet(s) \ {s[1]}
  <2>1. \A x \in ToSet(t) : x \in ToSet(s) /\ x # s[1]
    BY <1>2, <1>3, <1>5 DEF Distinct
  <2>2. \A x \in ToSet(s) : x # s[1] => x \in ToSet(t)
    BY <1>2, <1>4
  <2> QED
    BY <2>1, <2>2
<1>7. Distinct(t)
  <2> SUFFICES ASSUME NEW i \in 1 .. Len(t), NEW j \in 1 .. Len(t), t[i] = t[j] PROVE i = j
    BY DEF Distinct
  <2>1. i + 1 = j + 1
    BY <1>3 DEF Distinct
  <2> QED
    BY <2>1
<1> QED
  BY <1>1, <1>2, <1>5, <1>6, <1>7 DEF t

LEMMA OffAndOn ==
  ASSUME NEW T, NEW s \in Seq(T), NEW X
  PROVE  /\ Off(s, X) \in Seq(T) /\ ToSet(Off(s, X)) = ToSet(s) \ X
         /\ On(s, X) \in Seq(T) /\ ToSet(On(s, X)) = ToSet(s) \cap X
         /\ Distinct(s) => Distinct(Off(s, X)) /\ Distinct(On(s, X))
<1>1. DOMAIN s = 1 .. Len(s) /\ ToSet(s) = {s[i] : i \in 1 .. Len(s)}
  BY ElementsOf
<1>2. ASSUME NEW I \in SUBSET (1 .. Len(s))
      PROVE  /\ AtPlaces(s, I) \in Seq(T) /\ ToSet(AtPlaces(s, I)) = {s[n] : n \in I}
             /\ Distinct(s) => Distinct(AtPlaces(s, I))
  <2>1. AtPlaces(s, I) \in Seq(T) /\ Leaves(AtPlaces(s, I), s, I)
    BY AtPlacesLeaves
  <2> QED
    BY <2>1, WhatIsLeft
<1> DEFINE O == {i \in DOMAIN s : s[i] \notin X}
           N == {i \in DOMAIN s : s[i] \in X}
<1>3. O \in SUBSET (1 .. Len(s)) /\ N \in SUBSET (1 .. Len(s))
  BY <1>1
<1>4. {s[n] : n \in O} = ToSet(s) \ X /\ {s[n] : n \in N} = ToSet(s) \cap X
  BY <1>1
<1> QED
  BY <1>2, <1>3, <1>4 DEF Off, On

-----------------------------------------------------------------------------
(***************************************************************************)
(* The two lists share the registrations.                                  *)
(***************************************************************************)
Share(w, p, T) ==
  /\ w \in Seq(T) /\ Distinct(w)
  /\ p \in Seq(T) /\ Distinct(p)
  /\ ToSet(w) \cap ToSet(p) = {}
  /\ ToSet(w) \cup ToSet(p) = T

LEMMA ToShare ==
  ASSUME NEW T, NEW w \in Seq(T), NEW p \in Seq(T)
  PROVE  IsInjective(w \o p) /\ ToSet(w \o p) = T <=> Share(w, p, T)
<1>1. w \o p \in Seq(T)
  BY JoinedLists
<1>2. IsInjective(w \o p) <=> Distinct(w \o p)
  <2>1. DOMAIN (w \o p) = 1 .. Len(w \o p)
    BY <1>1, ElementsOf
  <2> QED
    BY <2>1 DEF IsInjective, Distinct
<1> QED
  BY <1>2, JoinedLists DEF Share

\* A new registration is on the first list.
LEMMA ShareWithNew ==
  ASSUME NEW T, NEW w, NEW p, Share(w, p, T), NEW x, x \notin T,
         NEW U, U = T \cup {x}
  PROVE  /\ Share(Append(w, x), p, U)
         /\ ToSet(Append(w, x)) = ToSet(w) \cup {x}
<1>1. w \in Seq(T) /\ Distinct(w) /\ p \in Seq(T) /\ Distinct(p)
  BY DEF Share
<1>2. /\ Append(w, x) \in Seq(T \cup {x}) /\ Distinct(Append(w, x))
      /\ ToSet(Append(w, x)) = ToSet(w) \cup {x}
  BY <1>1, PutAtTheEnd
<1>3. p \in Seq(T \cup {x})
  BY <1>1
<1>4. ToSet(w) \cap ToSet(p) = {} /\ ToSet(w) \cup ToSet(p) = T
  BY DEF Share
<1> QED
  BY <1>1, <1>2, <1>3, <1>4 DEF Share

\* A sequence over T is one over the set of its elements, and over what contains that.
LEMMA OverItsElements ==
  ASSUME NEW T, NEW s \in Seq(T), NEW U, ToSet(s) \subseteq U
  PROVE  s \in Seq(U)
<1>1. Len(s) \in Nat /\ \A i \in 1 .. Len(s) : s[i] \in U
  BY ElementsOf
<1>2. s = [i \in 1 .. Len(s) |-> s[i]]
  OBVIOUS
<1> QED
  BY <1>1, <1>2

\* One that is gone is on neither.
LEMMA ShareWithout ==
  ASSUME NEW T, NEW w, NEW p, Share(w, p, T), NEW X, NEW U, U = T \ X
  PROVE  Share(Off(w, X), Off(p, X), U)
<1>1. w \in Seq(T) /\ Distinct(w) /\ p \in Seq(T) /\ Distinct(p)
  BY DEF Share
<1>2. /\ Off(w, X) \in Seq(T) /\ Distinct(Off(w, X)) /\ ToSet(Off(w, X)) = ToSet(w) \ X
      /\ Off(p, X) \in Seq(T) /\ Distinct(Off(p, X)) /\ ToSet(Off(p, X)) = ToSet(p) \ X
  BY <1>1, OffAndOn
<1>3. ToSet(w) \cap ToSet(p) = {} /\ ToSet(w) \cup ToSet(p) = T
  BY DEF Share
<1>4. Off(w, X) \in Seq(U) /\ Off(p, X) \in Seq(U)
  <2>1. ToSet(Off(w, X)) \subseteq U /\ ToSet(Off(p, X)) \subseteq U
    BY <1>2, <1>3
  <2> QED
    BY <1>2, <2>1, OverItsElements
<1> QED
  BY <1>2, <1>3, <1>4 DEF Share

(***************************************************************************)
(* Those that are found go to the end of the second list.                  *)
(***************************************************************************)
LEMMA ShareWithFound ==
  ASSUME NEW T, NEW w, NEW p, Share(w, p, T),
         NEW found \in Seq(ToSet(w)), Distinct(found)
  PROVE  /\ Share(Off(w, ToSet(found)), p \o found, T)
         /\ ToSet(Off(w, ToSet(found))) = ToSet(w) \ ToSet(found)
         /\ ToSet(p \o found) = ToSet(p) \cup ToSet(found)
<1> DEFINE F == ToSet(found)
           v == Off(w, F)
<1>1. w \in Seq(T) /\ Distinct(w) /\ p \in Seq(T) /\ Distinct(p)
  BY DEF Share
<1>2. ToSet(w) \cap ToSet(p) = {} /\ ToSet(w) \cup ToSet(p) = T
  BY DEF Share
<1>3. F \subseteq ToSet(w)
  BY ElementsOf
<1>4. found \in Seq(T)
  <2>1. F \subseteq T
    BY <1>2, <1>3
  <2> QED
    BY <2>1, OverItsElements
<1>5. v \in Seq(T) /\ Distinct(v) /\ ToSet(v) = ToSet(w) \ F
  BY <1>1, OffAndOn
<1> HIDE DEF F, v
<1>6. F \cap ToSet(p) = {}
  BY <1>2, <1>3
<1>7. p \o found \in Seq(T) /\ ToSet(p \o found) = ToSet(p) \cup F /\ Distinct(p \o found)
  BY <1>1, <1>4, <1>6, JoinedLists DEF F
<1>8. ToSet(v) \cap ToSet(p \o found) = {} /\ ToSet(v) \cup ToSet(p \o found) = T
  BY <1>2, <1>3, <1>5, <1>7
<1> QED
  BY <1>5, <1>7, <1>8 DEF Share, F, v

\* The first of the second list is taken off.
LEMMA ShareWithoutFirst ==
  ASSUME NEW T, NEW w, NEW p, Share(w, p, T), p # <<>>, NEW U, U = T \ {Head(p)}
  PROVE  /\ Head(p) \in ToSet(p)
         /\ Share(w, Tail(p), U)
         /\ ToSet(Tail(p)) = ToSet(p) \ {Head(p)}
<1> DEFINE h == Head(p)
           q == Tail(p)
<1>1. w \in Seq(T) /\ Distinct(w) /\ p \in Seq(T) /\ Distinct(p)
  BY DEF Share
<1>2. ToSet(w) \cap ToSet(p) = {} /\ ToSet(w) \cup ToSet(p) = T
  BY DEF Share
<1>3. h \in ToSet(p) /\ q \in Seq(T) /\ Distinct(q) /\ ToSet(q) = ToSet(p) \ {h}
  BY <1>1, TakeOffTheFront
<1>4. U = T \ {h}
  OBVIOUS
<1> HIDE DEF h, q
<1>5. ToSet(w) \subseteq U /\ ToSet(q) \subseteq U
  BY <1>2, <1>3, <1>4
<1>6. w \in Seq(U) /\ q \in Seq(U)
  BY <1>1, <1>3, <1>5, OverItsElements
<1>7. ToSet(w) \cap ToSet(q) = {} /\ ToSet(w) \cup ToSet(q) = U
  BY <1>2, <1>3, <1>4
<1> QED
  BY <1>1, <1>3, <1>6, <1>7 DEF Share, h, q

-----------------------------------------------------------------------------
(***************************************************************************)
(* What the four have in common of the invariant, and of the operations.   *)
(***************************************************************************)
Shared ==
  /\ Tickets \subseteq 2 .. slots - 1
  /\ slots \in 2 .. MaxTickets + 2
  /\ callbacks \in [Tickets -> Events]
  /\ Share(watched_list, pending_list, Tickets)
  /\ ready \subseteq Events
  /\ result \in Events \cup {None}

LEMMA SharedIsInv == Shared <=> ArenaTypeOK /\ OnOneList
<1>1. ASSUME Shared PROVE ArenaTypeOK /\ OnOneList
  BY <1>1, ToShare DEF Shared, Share, ArenaTypeOK, OnOneList
<1>2. ASSUME ArenaTypeOK, OnOneList PROVE Shared
  BY <1>2, ToShare DEF Shared, ArenaTypeOK, OnOneList
<1> QED
  BY <1>1, <1>2

LEMMA TicketsFit ==
  ASSUME Shared
  PROVE  Tickets \subseteq 2 .. MaxTickets + 1 /\ IsFiniteSet(Tickets)
<1>1. slots \in Nat /\ MaxTickets \in Nat /\ slots <= MaxTickets + 2
  BY RegistrationsAssumption DEF Shared
<1>2. 2 .. slots - 1 \subseteq 2 .. MaxTickets + 1
  BY <1>1
<1>3. IsFiniteSet(2 .. slots - 1)
  BY <1>1, FS_Interval
<1> QED
  BY <1>2, <1>3, FS_Subset DEF Shared

\* An id of the arena that is not in use is no ticket.
LEMMA NewTicket ==
  ASSUME Shared, NEW ticket, Arena!NewId(ticket)
  PROVE  /\ ticket \notin Tickets /\ ticket \in 2 .. slots' - 1
         /\ slots' \in 2 .. MaxTickets + 2 /\ slots <= slots'
         /\ Tickets \subseteq 2 .. slots' - 1
<1>1. Arena!Used = {0, 1} \cup Tickets
  <2> DEFINE l == [i \in {0, 1} |-> IF i = 0 THEN watched_list ELSE pending_list]
  <2>1. DOMAIN l = {0, 1} /\ l[0] = watched_list /\ l[1] = pending_list
    OBVIOUS
  <2>2. \A s : Arena!ToSet(s) = ToSet(s)
    BY DEF Arena!ToSet, ToSet
  <2>3. Arena!Elements = UNION {ToSet(l[i]) : i \in DOMAIN l}
    BY <2>2 DEF Arena!Elements
  <2> HIDE DEF l
  <2>4. Arena!Elements = ToSet(watched_list) \cup ToSet(pending_list)
    BY <2>1, <2>3
  <2> QED
    BY <2>1, <2>4 DEF Arena!Used, Shared, Share, l
<1>2. slots \in Nat /\ 2 <= slots /\ MaxTickets \in Nat /\ slots <= MaxTickets + 2
  BY RegistrationsAssumption DEF Shared
<1>3. Tickets \subseteq 2 .. slots - 1
  BY DEF Shared
<1>4. CASE ticket \in 0 .. slots - 1 /\ ticket \notin {0, 1} \cup Tickets /\ slots' = slots
  BY <1>2, <1>3, <1>4
<1>5. CASE slots < MaxTickets + 2 /\ ticket = slots /\ slots' = slots + 1
  BY <1>2, <1>3, <1>5
<1> QED
  BY <1>1, <1>4, <1>5 DEF Arena!NewId

\* The outcome of a CallWhen: nothing but a slot may have been used, ...
Failed ==
  /\ UNCHANGED <<callbacks, watched_list, pending_list, ready, result>>
  /\ \E ticket : Arena!NewId(ticket)

LEMMA FailedKeeps == Shared /\ Failed => Shared'
<1> SUFFICES ASSUME Shared, Failed PROVE Shared'
  OBVIOUS
<1>1. slots' \in 2 .. MaxTickets + 2 /\ Tickets \subseteq 2 .. slots' - 1
  BY NewTicket DEF Failed
<1> QED
  BY <1>1 DEF Shared, Failed, Tickets

\* ... or there is one more registration.
Registered(ticket, e) ==
  /\ Arena!NewId(ticket)
  /\ AddWatched(ticket, e)
  /\ UNCHANGED <<pending_list, ready, result>>

LEMMA RegisteredKeeps ==
  ASSUME Shared, NEW ticket, NEW e \in Events, Registered(ticket, e)
  PROVE  /\ Shared'
         /\ ticket \notin Tickets /\ ticket \in 2 .. MaxTickets + 1
         /\ Tickets' = Tickets \cup {ticket}
         /\ ToSet(watched_list)' = ToSet(watched_list) \cup {ticket}
         /\ callbacks'[ticket] = e /\ \A t \in Tickets : callbacks'[t] = callbacks[t]
<1>1. /\ ticket \notin Tickets /\ ticket \in 2 .. slots' - 1
      /\ slots' \in 2 .. MaxTickets + 2
      /\ Tickets \subseteq 2 .. slots' - 1
  BY NewTicket DEF Registered
<1>2. /\ callbacks' = [t \in Tickets \cup {ticket} |-> IF t = ticket THEN e ELSE callbacks[t]]
      /\ watched_list' = Append(watched_list, ticket)
      /\ pending_list' = pending_list /\ ready' = ready /\ result' = result
  BY DEF Registered, AddWatched
<1>3. /\ Share(watched_list', pending_list', Tickets \cup {ticket})
      /\ ToSet(watched_list') = ToSet(watched_list) \cup {ticket}
  <2>1. Share(watched_list, pending_list, Tickets)
    BY DEF Shared
  <2>2. PICK U : U = Tickets \cup {ticket}
    OBVIOUS
  <2>3. /\ Share(Append(watched_list, ticket), pending_list, U)
        /\ ToSet(Append(watched_list, ticket)) = ToSet(watched_list) \cup {ticket}
    BY <1>1, <2>1, <2>2, ShareWithNew
  <2> QED
    BY <1>2, <2>2, <2>3
<1>4. /\ Tickets' = Tickets \cup {ticket}
      /\ callbacks'[ticket] = e /\ \A t \in Tickets : callbacks'[t] = callbacks[t]
  BY <1>1, <1>2 DEF Tickets
<1>5. callbacks' \in [Tickets' -> Events]
  <2>1. \A t \in Tickets : callbacks[t] \in Events
    BY DEF Shared
  <2> QED
    BY <1>2, <1>4, <2>1
<1>6. ticket \in 2 .. MaxTickets + 1
  <2>1. slots' \in Nat /\ slots' <= MaxTickets + 2 /\ MaxTickets \in Nat
    BY <1>1, RegistrationsAssumption
  <2>2. \A a, b \in Nat : a <= b + 2 => 2 .. a - 1 \subseteq 2 .. b + 1
    OBVIOUS
  <2>3. 2 .. slots' - 1 \subseteq 2 .. MaxTickets + 1
    BY <2>1, <2>2
  <2> QED
    BY <1>1, <2>3
<1>7. Shared'
  <2>1. Tickets' \subseteq 2 .. slots' - 1
    BY <1>1, <1>4
  <2>2. Share(watched_list', pending_list', Tickets')
    BY <1>3, <1>4
  <2> QED
    BY <1>1, <1>2, <1>5, <2>1, <2>2 DEF Shared
<1> QED
  BY <1>1, <1>3, <1>4, <1>6, <1>7

\* A cancelled registration is on neither list any more.
LEMMA RemovedKeeps ==
  ASSUME Shared, NEW ticket \in Tickets, RemoveRegistration(ticket)
  PROVE  /\ Shared'
         /\ Tickets' = Tickets \ {ticket}
         /\ ToSet(watched_list)' = ToSet(watched_list) \ {ticket}
         /\ ToSet(pending_list)' = ToSet(pending_list) \ {ticket}
         /\ \A t \in Tickets' : callbacks'[t] = callbacks[t]
<1>1. /\ callbacks' = [t \in Tickets \ {ticket} |-> callbacks[t]]
      /\ watched_list' = Off(watched_list, {ticket}) /\ pending_list' = Off(pending_list, {ticket})
      /\ slots' = slots /\ ready' = ready /\ result' = result
  BY DEF RemoveRegistration, Without
<1>2. Share(watched_list, pending_list, Tickets)
  BY DEF Shared
<1>3. /\ Share(watched_list', pending_list', Tickets \ {ticket})
      /\ ToSet(watched_list') = ToSet(watched_list) \ {ticket}
      /\ ToSet(pending_list') = ToSet(pending_list) \ {ticket}
  <2>1. PICK X, U : X = {ticket} /\ U = Tickets \ X
    OBVIOUS
  <2>2. /\ Share(Off(watched_list, X), Off(pending_list, X), U)
        /\ ToSet(Off(watched_list, X)) = ToSet(watched_list) \ X
        /\ ToSet(Off(pending_list, X)) = ToSet(pending_list) \ X
    <3>1. U = Tickets \ X
      BY <2>1
    <3>2. Share(Off(watched_list, X), Off(pending_list, X), U)
      BY <1>2, <3>1, ShareWithout
    <3>3. watched_list \in Seq(Tickets) /\ pending_list \in Seq(Tickets)
      BY <1>2 DEF Share
    <3>4. ToSet(Off(watched_list, X)) = ToSet(watched_list) \ X
      BY <3>3, OffAndOn
    <3>5. ToSet(Off(pending_list, X)) = ToSet(pending_list) \ X
      BY <3>3, OffAndOn
    <3> QED
      BY <3>2, <3>4, <3>5
  <2>3. watched_list' = Off(watched_list, X) /\ pending_list' = Off(pending_list, X)
    BY <1>1, <2>1
  <2>4. /\ Share(watched_list', pending_list', U)
        /\ ToSet(watched_list') = ToSet(watched_list) \ X
        /\ ToSet(pending_list') = ToSet(pending_list) \ X
    BY <2>2, <2>3
  <2> QED
    BY <2>1, <2>4
<1>4. Tickets' = Tickets \ {ticket} /\ \A t \in Tickets' : callbacks'[t] = callbacks[t]
  BY <1>1 DEF Tickets
<1>5. callbacks' \in [Tickets' -> Events]
  BY <1>1, <1>4 DEF Shared
<1> QED
  BY <1>1, <1>3, <1>4, <1>5 DEF Shared

\* What select() does with what was found, F: it returns one of them, if any.
Taken(F) ==
  \/ /\ ToSet(pending_list) \cup F = {}
     /\ result' = None
     /\ UNCHANGED <<callbacks, pending_list>>
  \/ \E t \in ToSet(pending_list) \cup F :
       /\ result' = callbacks[t]
       /\ callbacks' = Without(t)
       /\ ToSet(pending_list)' = (ToSet(pending_list) \cup F) \ {t}

LEMMA EmptyList ==
  ASSUME NEW T, NEW s \in Seq(T)
  PROVE  s = <<>> <=> ToSet(s) = {}
<1>1. Len(s) \in Nat /\ ToSet(s) = {s[i] : i \in 1 .. Len(s)}
  BY ElementsOf
<1>2. s = <<>> <=> Len(s) = 0
  OBVIOUS
<1>3. Len(s) = 0 => ToSet(s) = {}
  BY <1>1
<1>4. Len(s) # 0 => s[1] \in ToSet(s)
  <2>1. Len(s) # 0 => 1 \in 1 .. Len(s)
    BY <1>1
  <2> QED
    BY <1>1, <2>1
<1> QED
  BY <1>2, <1>3, <1>4

LEMMA TakenKeeps ==
  ASSUME Shared, NEW found \in Seq(ToSet(watched_list)), Distinct(found), TakeFirst(found)
  PROVE  /\ Shared'
         /\ ToSet(watched_list)' = ToSet(watched_list) \ ToSet(found)
         /\ Tickets' \subseteq Tickets
         /\ \A t \in Tickets' : /\ callbacks'[t] = callbacks[t]
                                /\ t \in ToSet(pending_list)' <=> t \in ToSet(pending_list) \cup ToSet(found)
         /\ Taken(ToSet(found))
<1> DEFINE F == ToSet(found)
           v == Off(watched_list, F)
           p == pending_list \o found
<1>1. /\ Share(v, p, Tickets)
      /\ ToSet(v) = ToSet(watched_list) \ F /\ ToSet(p) = ToSet(pending_list) \cup F
  <2>1. Share(watched_list, pending_list, Tickets)
    BY DEF Shared
  <2>2. Share(Off(watched_list, ToSet(found)), pending_list \o found, Tickets)
    BY <2>1, ShareWithFound
  <2>3. ToSet(Off(watched_list, ToSet(found))) = ToSet(watched_list) \ ToSet(found)
    BY <2>1, ShareWithFound
  <2>4. ToSet(pending_list \o found) = ToSet(pending_list) \cup ToSet(found)
    BY <2>1, ShareWithFound
  <2> QED
    BY <2>2, <2>3, <2>4
<1>2. /\ watched_list' = v
      /\ IF p = <<>>
           THEN /\ result' = None
                /\ UNCHANGED <<callbacks, pending_list>>
           ELSE /\ result' = callbacks[Head(p)]
                /\ pending_list' = Tail(p)
                /\ callbacks' = Without(Head(p))
      /\ UNCHANGED <<slots, ready>>
  BY DEF TakeFirst
<1>3. p \in Seq(Tickets) /\ ToSet(p) \subseteq Tickets
  BY <1>1 DEF Share
<1>4. p = <<>> <=> ToSet(p) = {}
  BY <1>3, EmptyList
<1>5. ToSet(watched_list') = ToSet(v) /\ (p = <<>> => pending_list' = pending_list)
  BY <1>2
<1>6. pending_list \in Seq(Tickets)
  BY DEF Shared, Share
<1> HIDE DEF v, p
<1>7. CASE p = <<>>
  <2>1. F = {} /\ ToSet(pending_list) = {}
    BY <1>1, <1>4, <1>7
  <2>2. callbacks' = callbacks /\ pending_list' = pending_list /\ result' = None /\ Tickets' = Tickets
    BY <1>2, <1>7 DEF Tickets
  <2>3. Taken(F)
    BY <2>1, <2>2 DEF Taken
  <2>4. pending_list = p
    BY <1>6, <1>7, <2>1, EmptyList
  <2>5. Share(watched_list', pending_list', Tickets')
    BY <1>1, <1>2, <2>2, <2>4
  <2>6. Shared'
    BY <1>2, <2>2, <2>5 DEF Shared
  <2> QED
    BY <1>1, <1>5, <2>1, <2>2, <2>3, <2>6
<1>8. CASE p # <<>>
  <2> DEFINE h == Head(p)
             q == Tail(p)
  <2>1. /\ h \in ToSet(p) /\ Share(v, q, Tickets \ {h}) /\ ToSet(q) = ToSet(p) \ {h}
    <3>1. PICK U : U = Tickets \ {Head(p)}
      OBVIOUS
    <3>2. Head(p) \in ToSet(p) /\ Share(v, Tail(p), U) /\ ToSet(Tail(p)) = ToSet(p) \ {Head(p)}
      BY <1>1, <1>8, <3>1, ShareWithoutFirst
    <3> QED
      BY <3>1, <3>2
  <2>2. /\ result' = callbacks[h] /\ callbacks' = Without(h) /\ pending_list' = q
        /\ slots' = slots /\ ready' = ready /\ watched_list' = v
    BY <1>2, <1>8
  <2> HIDE DEF h, q
  <2>3. callbacks' = [t \in Tickets \ {h} |-> callbacks[t]]
    BY <2>2 DEF Without
  <2>4. Tickets' = Tickets \ {h} /\ \A t \in Tickets' : callbacks'[t] = callbacks[t]
    BY <2>3 DEF Tickets
  <2>5. callbacks \in [Tickets -> Events] /\ h \in Tickets
    BY <1>3, <2>1 DEF Shared
  <2>6. callbacks' \in [Tickets' -> Events] /\ callbacks[h] \in Events
    BY <2>3, <2>4, <2>5
  <2>7. Share(watched_list', pending_list', Tickets')
    BY <2>1, <2>2, <2>4
  <2>8. Shared'
    BY <2>2, <2>4, <2>6, <2>7 DEF Shared
  <2>9. ToSet(pending_list') = (ToSet(pending_list) \cup F) \ {h} /\ h \in ToSet(pending_list) \cup F
    BY <1>1, <2>1, <2>2
  <2>10. Taken(F)
    BY <2>2, <2>9 DEF Taken
  <2> QED
    BY <1>1, <1>5, <2>4, <2>8, <2>9, <2>10
<1> QED
  BY <1>7, <1>8 DEF F

\* So it is a select() of the abstract selector, if their events are ready.
LEMMA TakenIsSelect ==
  ASSUME Shared, NEW F \in SUBSET ToSet(watched_list), \A t \in F : callbacks[t] \in ready,
         Tickets # {}, Taken(F), UNCHANGED ready
  PROVE  Abstract!Select
<1>1. F \in SUBSET {t \in Tickets \ ToSet(pending_list) : callbacks[t] \in ready}
  BY DEF Shared, Share
<1>2. CASE /\ ToSet(pending_list) \cup F = {}
           /\ result' = None
           /\ UNCHANGED <<callbacks, pending_list>>
  BY <1>1, <1>2 DEF Abstract!Select, Tickets
<1>3. CASE \E t \in ToSet(pending_list) \cup F :
             /\ result' = callbacks[t]
             /\ callbacks' = Without(t)
             /\ ToSet(pending_list)' = (ToSet(pending_list) \cup F) \ {t}
  BY <1>1, <1>3 DEF Abstract!Select, Abstract!Without, Without, Tickets
<1> QED
  BY <1>2, <1>3 DEF Taken

-----------------------------------------------------------------------------
(***************************************************************************)
(* The four share their operations with this module.                       *)
(***************************************************************************)
LEMMA PollLists ==
  ASSUME NEW s, NEW X
  PROVE  Poll!On(s, X) = On(s, X) /\ Poll!Off(s, X) = Off(s, X) /\ Poll!AtPlaces(s, X) = AtPlaces(s, X)
<1>1. \A I : Poll!Among(s, I) = Among(s, I)
  BY DEF Poll!Among, Among
<1>2. \A I : Poll!AtPlaces(s, I) = AtPlaces(s, I)
  BY <1>1 DEF Poll!AtPlaces, AtPlaces
<1> QED
  BY <1>2 DEF Poll!On, Poll!Off, On, Off

LEMMA PollOperations ==
  ASSUME NEW ticket, NEW e, NEW found
  PROVE  /\ Poll!Arena!NewId(ticket) <=> Arena!NewId(ticket)
         /\ Poll!AddWatched(ticket, e) <=> AddWatched(ticket, e)
         /\ Poll!RemoveRegistration(ticket) <=> RemoveRegistration(ticket)
         /\ Poll!TakeFirst(found) <=> TakeFirst(found)
<1>1. Poll!Arena!NewId(ticket) <=> Arena!NewId(ticket)
  BY DEF Poll!Arena!NewId, Poll!Arena!Used, Poll!Arena!Elements, Poll!Arena!ToSet,
         Arena!NewId, Arena!Used, Arena!Elements, Arena!ToSet
<1>2. Poll!AddWatched(ticket, e) <=> AddWatched(ticket, e)
  BY DEF Poll!AddWatched, AddWatched, Poll!Tickets, Tickets
<1>3. \A s, X : Poll!Off(s, X) = Off(s, X)
  BY PollLists
<1>4. \A t : Poll!Without(t) = Without(t)
  BY DEF Poll!Without, Without, Poll!Tickets, Tickets
<1>5. Poll!ToSet(found) = ToSet(found)
  BY DEF Poll!ToSet, ToSet
<1>6. Poll!RemoveRegistration(ticket) <=> RemoveRegistration(ticket)
  BY <1>3, <1>4 DEF Poll!RemoveRegistration, RemoveRegistration
<1>7. Poll!TakeFirst(found) <=> TakeFirst(found)
  BY <1>3, <1>4, <1>5 DEF Poll!TakeFirst, TakeFirst
<1> QED
  BY <1>1, <1>2, <1>6, <1>7

LEMMA SelectLists ==
  ASSUME NEW s, NEW X
  PROVE  Select!On(s, X) = On(s, X) /\ Select!Off(s, X) = Off(s, X) /\ Select!AtPlaces(s, X) = AtPlaces(s, X)
<1>1. \A I : Select!Among(s, I) = Among(s, I)
  BY DEF Select!Among, Among
<1>2. \A I : Select!AtPlaces(s, I) = AtPlaces(s, I)
  BY <1>1 DEF Select!AtPlaces, AtPlaces
<1> QED
  BY <1>2 DEF Select!On, Select!Off, On, Off

LEMMA SelectOperations ==
  ASSUME NEW ticket, NEW e, NEW found
  PROVE  /\ Select!Arena!NewId(ticket) <=> Arena!NewId(ticket)
         /\ Select!AddWatched(ticket, e) <=> AddWatched(ticket, e)
         /\ Select!RemoveRegistration(ticket) <=> RemoveRegistration(ticket)
         /\ Select!TakeFirst(found) <=> TakeFirst(found)
<1>1. Select!Arena!NewId(ticket) <=> Arena!NewId(ticket)
  BY DEF Select!Arena!NewId, Select!Arena!Used, Select!Arena!Elements, Select!Arena!ToSet,
         Arena!NewId, Arena!Used, Arena!Elements, Arena!ToSet
<1>2. Select!AddWatched(ticket, e) <=> AddWatched(ticket, e)
  BY DEF Select!AddWatched, AddWatched, Select!Tickets, Tickets
<1>3. \A s, X : Select!Off(s, X) = Off(s, X)
  BY SelectLists
<1>4. \A t : Select!Without(t) = Without(t)
  BY DEF Select!Without, Without, Select!Tickets, Tickets
<1>5. Select!ToSet(found) = ToSet(found)
  BY DEF Select!ToSet, ToSet
<1>6. Select!RemoveRegistration(ticket) <=> RemoveRegistration(ticket)
  BY <1>3, <1>4 DEF Select!RemoveRegistration, RemoveRegistration
<1>7. Select!TakeFirst(found) <=> TakeFirst(found)
  BY <1>3, <1>4, <1>5 DEF Select!TakeFirst, TakeFirst
<1> QED
  BY <1>1, <1>2, <1>6, <1>7

LEMMA EpollLists ==
  ASSUME NEW s, NEW X
  PROVE  Epoll!On(s, X) = On(s, X) /\ Epoll!Off(s, X) = Off(s, X) /\ Epoll!AtPlaces(s, X) = AtPlaces(s, X)
<1>1. \A I : Epoll!Among(s, I) = Among(s, I)
  BY DEF Epoll!Among, Among
<1>2. \A I : Epoll!AtPlaces(s, I) = AtPlaces(s, I)
  BY <1>1 DEF Epoll!AtPlaces, AtPlaces
<1> QED
  BY <1>2 DEF Epoll!On, Epoll!Off, On, Off

LEMMA EpollOperations ==
  ASSUME NEW ticket, NEW e, NEW found
  PROVE  /\ Epoll!Arena!NewId(ticket) <=> Arena!NewId(ticket)
         /\ Epoll!AddWatched(ticket, e) <=> AddWatched(ticket, e)
         /\ Epoll!RemoveRegistration(ticket) <=> RemoveRegistration(ticket)
         /\ Epoll!TakeFirst(found) <=> TakeFirst(found)
<1>1. Epoll!Arena!NewId(ticket) <=> Arena!NewId(ticket)
  BY DEF Epoll!Arena!NewId, Epoll!Arena!Used, Epoll!Arena!Elements, Epoll!Arena!ToSet,
         Arena!NewId, Arena!Used, Arena!Elements, Arena!ToSet
<1>2. Epoll!AddWatched(ticket, e) <=> AddWatched(ticket, e)
  BY DEF Epoll!AddWatched, AddWatched, Epoll!Tickets, Tickets
<1>3. \A s, X : Epoll!Off(s, X) = Off(s, X)
  BY EpollLists
<1>4. \A t : Epoll!Without(t) = Without(t)
  BY DEF Epoll!Without, Without, Epoll!Tickets, Tickets
<1>5. Epoll!ToSet(found) = ToSet(found)
  BY DEF Epoll!ToSet, ToSet
<1>6. Epoll!RemoveRegistration(ticket) <=> RemoveRegistration(ticket)
  BY <1>3, <1>4 DEF Epoll!RemoveRegistration, RemoveRegistration
<1>7. Epoll!TakeFirst(found) <=> TakeFirst(found)
  BY <1>3, <1>4, <1>5 DEF Epoll!TakeFirst, TakeFirst
<1> QED
  BY <1>1, <1>2, <1>6, <1>7

LEMMA KqueueLists ==
  ASSUME NEW s, NEW X
  PROVE  Kqueue!Epoll!On(s, X) = On(s, X) /\ Kqueue!Epoll!Off(s, X) = Off(s, X) /\ Kqueue!Epoll!AtPlaces(s, X) = AtPlaces(s, X)
<1>1. \A I : Kqueue!Epoll!Among(s, I) = Among(s, I)
  BY DEF Kqueue!Epoll!Among, Among
<1>2. \A I : Kqueue!Epoll!AtPlaces(s, I) = AtPlaces(s, I)
  BY <1>1 DEF Kqueue!Epoll!AtPlaces, AtPlaces
<1> QED
  BY <1>2 DEF Kqueue!Epoll!On, Kqueue!Epoll!Off, On, Off

LEMMA KqueueOperations ==
  ASSUME NEW ticket, NEW e, NEW found
  PROVE  /\ Kqueue!Epoll!Arena!NewId(ticket) <=> Arena!NewId(ticket)
         /\ Kqueue!Epoll!AddWatched(ticket, e) <=> AddWatched(ticket, e)
         /\ Kqueue!Epoll!RemoveRegistration(ticket) <=> RemoveRegistration(ticket)
         /\ Kqueue!Epoll!TakeFirst(found) <=> TakeFirst(found)
<1>1. Kqueue!Epoll!Arena!NewId(ticket) <=> Arena!NewId(ticket)
  BY DEF Kqueue!Epoll!Arena!NewId, Kqueue!Epoll!Arena!Used, Kqueue!Epoll!Arena!Elements, Kqueue!Epoll!Arena!ToSet,
         Arena!NewId, Arena!Used, Arena!Elements, Arena!ToSet
<1>2. Kqueue!Epoll!AddWatched(ticket, e) <=> AddWatched(ticket, e)
  BY DEF Kqueue!Epoll!AddWatched, AddWatched, Kqueue!Epoll!Tickets, Tickets
<1>3. \A s, X : Kqueue!Epoll!Off(s, X) = Off(s, X)
  BY KqueueLists
<1>4. \A t : Kqueue!Epoll!Without(t) = Without(t)
  BY DEF Kqueue!Epoll!Without, Without, Kqueue!Epoll!Tickets, Tickets
<1>5. Kqueue!Epoll!ToSet(found) = ToSet(found)
  BY DEF Kqueue!Epoll!ToSet, ToSet
<1>6. Kqueue!Epoll!RemoveRegistration(ticket) <=> RemoveRegistration(ticket)
  BY <1>3, <1>4 DEF Kqueue!Epoll!RemoveRegistration, RemoveRegistration
<1>7. Kqueue!Epoll!TakeFirst(found) <=> TakeFirst(found)
  BY <1>3, <1>4, <1>5 DEF Kqueue!Epoll!TakeFirst, TakeFirst
<1> QED
  BY <1>1, <1>2, <1>6, <1>7

-----------------------------------------------------------------------------
(***************************************************************************)
(* What a step of any of them is for the registrations.                    *)
(***************************************************************************)
Finds(found) ==
  /\ found \in Seq(ToSet(watched_list)) /\ Distinct(found)
  /\ \A t \in ToSet(found) : callbacks[t] \in ready

Selects ==
  /\ Tickets # {}
  /\ \E found : Finds(found) /\ TakeFirst(found)

SharedStep ==
  \/ Failed
  \/ \E e \in Events : \E ticket : Registered(ticket, e)
  \/ \E ticket \in Tickets : RemoveRegistration(ticket)
  \/ Selects
  \/ \E e \in Events : BecomesReady(e) \/ IsOver(e)

LEMMA SharedStepKeeps == Shared /\ SharedStep => Shared'
<1> SUFFICES ASSUME Shared, SharedStep PROVE Shared'
  OBVIOUS
<1>1. CASE Failed
  BY <1>1, FailedKeeps
<1>2. CASE \E e \in Events : \E ticket : Registered(ticket, e)
  BY <1>2, RegisteredKeeps
<1>3. CASE \E ticket \in Tickets : RemoveRegistration(ticket)
  BY <1>3, RemovedKeeps
<1>4. CASE Selects
  BY <1>4, TakenKeeps DEF Selects, Finds
<1>5. CASE \E e \in Events : BecomesReady(e) \/ IsOver(e)
  BY <1>5 DEF BecomesReady, IsOver, arenaVars, Shared, Tickets
<1> QED
  BY <1>1, <1>2, <1>3, <1>4, <1>5 DEF SharedStep

\* Each of them is one that selector.hpp allows.
LEMMA SharedStepRefines == Shared /\ SharedStep => [Abstract!Next]_(Abstract!vars)
<1> SUFFICES ASSUME Shared, SharedStep PROVE [Abstract!Next]_(Abstract!vars)
  OBVIOUS
<1>1. CASE Failed
  BY <1>1 DEF Failed, Abstract!vars
<1>2. ASSUME NEW e \in Events, NEW ticket, Registered(ticket, e)
      PROVE  Abstract!Next
  <2>1. /\ ticket \notin Tickets /\ ticket \in 2 .. MaxTickets + 1
    BY <1>2, RegisteredKeeps
  <2>2. Abstract!CallWhen(e, ticket)
    BY <1>2, <2>1 DEF Registered, AddWatched, Abstract!CallWhen, Tickets
  <2> QED
    BY <2>1, <2>2 DEF Abstract!Next
<1>3. ASSUME NEW ticket \in Tickets, RemoveRegistration(ticket)
      PROVE  Abstract!Next
  <2>1. ToSet(pending_list)' = ToSet(pending_list) \ {ticket}
    BY <1>3, RemovedKeeps
  <2>2. Abstract!Cancel(ticket)
    BY <1>3, <2>1 DEF RemoveRegistration, Abstract!Cancel, Without, Abstract!Without, Tickets
  <2> QED
    BY <2>2 DEF Abstract!Next, Tickets
<1>4. ASSUME Tickets # {}, NEW found, Finds(found), TakeFirst(found)
      PROVE  Abstract!Next
  <2>1. Taken(ToSet(found))
    BY <1>4, TakenKeeps DEF Finds
  <2>2. ToSet(found) \subseteq ToSet(watched_list)
    BY <1>4, ElementsOf DEF Finds
  <2>3. UNCHANGED ready
    BY <1>4 DEF TakeFirst
  <2>4. Abstract!Select
    BY <1>4, <2>1, <2>2, <2>3, TakenIsSelect DEF Finds
  <2> QED
    BY <2>4 DEF Abstract!Next
<1>5. ASSUME NEW e \in Events, BecomesReady(e) \/ IsOver(e)
      PROVE  Abstract!Next
  BY <1>5 DEF BecomesReady, IsOver, arenaVars, Abstract!Next, Abstract!BecomesReady, Abstract!IsOver
<1> QED
  BY <1>1, <1>2, <1>3, <1>4, <1>5 DEF SharedStep, Selects

-----------------------------------------------------------------------------
(***************************************************************************)
(* select(): the descriptors are those of the watched registrations.       *)
(***************************************************************************)
LEMMA SelectKeeps == Shared /\ SelectNext => SharedStep
<1> SUFFICES ASSUME Shared, SelectNext PROVE SharedStep
  OBVIOUS
<1>1. ASSUME NEW e \in Events, Select!CallWhen(e) PROVE SharedStep
  <2>1. PICK ticket : /\ Select!Arena!NewId(ticket) /\ Select!AddWatched(ticket, e)
                      /\ UNCHANGED <<pending_list, ready, result>>
    BY <1>1 DEF Select!CallWhen
  <2>2. Registered(ticket, e)
    BY <2>1, SelectOperations DEF Registered
  <2> QED
    BY <2>2 DEF SharedStep
<1>2. ASSUME NEW ticket \in Tickets, Select!Cancel(ticket) PROVE SharedStep
  BY <1>2, SelectOperations DEF Select!Cancel, SharedStep
<1>3. ASSUME Select!Select PROVE SharedStep
  <2>1. PICK found \in {<<>>, Select!Found} : Select!TakeFirst(found)
    BY <1>3 DEF Select!Select
  <2>2. Tickets # {}
    BY <1>3 DEF Select!Select, Select!Tickets, Tickets
  <2>3. TakeFirst(found)
    BY <2>1, SelectOperations
  <2>4. Finds(found)
    <3>1. CASE found = <<>>
      BY <3>1 DEF Finds, Distinct, ToSet
    <3>2. CASE found = Select!Found
      <4> DEFINE I == {i \in DOMAIN watched_list : Select!IsFound(i)}
      <4>1. found = AtPlaces(watched_list, I)
        BY <3>2, SelectLists DEF Select!Found
      <4>2. watched_list \in Seq(Tickets) /\ Distinct(watched_list)
        BY DEF Shared, Share
      <4>3. DOMAIN watched_list = 1 .. Len(watched_list) /\ I \in SUBSET (1 .. Len(watched_list))
        BY <4>2, ElementsOf
      <4>4. \A i \in I : callbacks[watched_list[i]] \in ready
        BY DEF Select!IsFound, Select!BitsSet
      <4> HIDE DEF I
      <4>5. found \in Seq(Tickets) /\ Leaves(found, watched_list, I)
        BY <4>1, <4>2, <4>3, AtPlacesLeaves
      <4>6. ToSet(found) = {watched_list[n] : n \in I} /\ Distinct(found)
        BY <4>2, <4>3, <4>5, WhatIsLeft
      <4>7. ToSet(found) \subseteq ToSet(watched_list)
        BY <4>2, <4>3, <4>6, ElementsOf
      <4>8. found \in Seq(ToSet(watched_list))
        BY <4>5, <4>7, OverItsElements
      <4>9. \A t \in ToSet(found) : callbacks[t] \in ready
        BY <4>4, <4>6
      <4> QED
        BY <4>6, <4>8, <4>9 DEF Finds
    <3> QED
      BY <2>1, <3>1, <3>2
  <2> QED
    BY <2>2, <2>3, <2>4 DEF SharedStep, Selects
<1> QED
  BY <1>1, <1>2, <1>3 DEF SelectNext

-----------------------------------------------------------------------------
(***************************************************************************)
(* poll(): the active pollfds are those of the watched registrations.      *)
(***************************************************************************)
PollFits ==
  /\ \E size \in 0 .. MaxPollfds : DOMAIN pollfds = 0 .. size - 1
  /\ {i \in DOMAIN pollfds : pollfds[i] # None} = ToSet(watched_list)
  /\ \A t \in ToSet(watched_list) : pollfds[t] = callbacks[t]

LEMMA PollFitsIsInv == Poll!PollsForWatched <=> PollFits
BY DEF Poll!PollsForWatched, PollFits, Poll!ToSet, ToSet

LEMMA PollRegistered ==
  ASSUME Shared, PollFits, NEW e \in Events, Poll!CallWhen(e)
  PROVE  SharedStep /\ PollFits'
<1>1. PICK new :
        /\ Poll!Arena!NewId(new)
        /\ IF new + 1 > MaxPollfds
             THEN UNCHANGED <<callbacks, watched_list, pollfds>>
             ELSE /\ Poll!AddWatched(new, e)
                  /\ pollfds' = [i \in DOMAIN pollfds \cup 0 .. new |->
                                   IF i = new THEN e
                                   ELSE IF i \in DOMAIN pollfds THEN pollfds[i] ELSE None]
        /\ UNCHANGED <<pending_list, ready, result>>
  BY DEF Poll!CallWhen
<1>2. CASE new + 1 > MaxPollfds
  <2>1. Failed
    BY <1>1, <1>2, PollOperations DEF Failed
  <2> QED
    BY <1>1, <1>2, <2>1 DEF SharedStep, PollFits
<1>3. CASE ~(new + 1 > MaxPollfds)
  <2>1. Registered(new, e)
    BY <1>1, <1>3, PollOperations DEF Registered
  <2>2. /\ new \notin Tickets /\ new \in 2 .. MaxTickets + 1
        /\ ToSet(watched_list)' = ToSet(watched_list) \cup {new}
        /\ callbacks'[new] = e /\ \A t \in Tickets : callbacks'[t] = callbacks[t]
    BY <2>1, RegisteredKeeps
  <2>3. new \in Nat /\ MaxPollfds \in Nat /\ new + 1 <= MaxPollfds
    BY <1>3, <2>2, RegistrationsAssumption, SelectorsAssumption
  <2>4. PICK size \in 0 .. MaxPollfds : DOMAIN pollfds = 0 .. size - 1
    BY DEF PollFits
  <2>5. \E n \in 0 .. MaxPollfds : DOMAIN pollfds \cup 0 .. new = 0 .. n - 1
    <3>1. CASE size <= new + 1
      <4>1. new + 1 \in 0 .. MaxPollfds /\ DOMAIN pollfds \cup 0 .. new = 0 .. (new + 1) - 1
        BY <2>3, <2>4, <3>1
      <4> QED
        BY <4>1
    <3>2. CASE size > new + 1
      <4>1. DOMAIN pollfds \cup 0 .. new = 0 .. size - 1
        BY <2>3, <2>4, <3>2
      <4> QED
        BY <4>1
    <3> QED
      BY <2>3, <2>4, <3>1, <3>2
  <2>6. /\ DOMAIN pollfds' = DOMAIN pollfds \cup 0 .. new /\ new \in DOMAIN pollfds'
        /\ pollfds'[new] = e
        /\ \A i \in DOMAIN pollfds' \ {new} : pollfds'[i] = IF i \in DOMAIN pollfds THEN pollfds[i] ELSE None
    <3>1. new \in 0 .. new
      BY <2>3
    <3> QED
      BY <1>1, <1>3, <3>1
  <2>7. e # None /\ ToSet(watched_list) \subseteq Tickets
    BY RegistrationsAssumption DEF Shared, Share
  <2>8. \A i \in DOMAIN pollfds : pollfds[i] # None <=> i \in ToSet(watched_list)
    BY DEF PollFits
  <2>9. ToSet(watched_list) \subseteq DOMAIN pollfds
    BY DEF PollFits
  <2>10. {i \in DOMAIN pollfds' : pollfds'[i] # None} = ToSet(watched_list) \cup {new}
    BY <2>6, <2>7, <2>8, <2>9
  <2>11. \A t \in ToSet(watched_list) \cup {new} : pollfds'[t] = callbacks'[t]
    BY <2>2, <2>6, <2>7, <2>9 DEF PollFits
  <2>12. PollFits'
    BY <2>2, <2>5, <2>6, <2>10, <2>11 DEF PollFits
  <2> QED
    BY <2>1, <2>12 DEF SharedStep
<1> QED
  BY <1>2, <1>3

LEMMA PollCancelled ==
  ASSUME Shared, PollFits, NEW ticket \in Tickets, Poll!Cancel(ticket)
  PROVE  SharedStep /\ PollFits'
<1>1. RemoveRegistration(ticket) /\ pollfds' = [pollfds EXCEPT ![ticket] = None]
  BY PollOperations DEF Poll!Cancel
<1>2. /\ ToSet(watched_list)' = ToSet(watched_list) \ {ticket}
      /\ Tickets' = Tickets \ {ticket} /\ \A t \in Tickets' : callbacks'[t] = callbacks[t]
  BY <1>1, RemovedKeeps
<1>3. /\ DOMAIN pollfds' = DOMAIN pollfds
      /\ \A i \in DOMAIN pollfds : pollfds'[i] = IF i = ticket THEN None ELSE pollfds[i]
  BY <1>1
<1>4. ToSet(watched_list) \subseteq Tickets
  BY DEF Shared, Share
<1>5. PollFits'
  BY <1>2, <1>3, <1>4 DEF PollFits
<1> QED
  BY <1>1, <1>5 DEF SharedStep

LEMMA PollSelected ==
  ASSUME Shared, PollFits, Poll!Select
  PROVE  SharedStep /\ PollFits'
<1>1. PICK which \in {{}, Poll!Reported} : Poll!Find(which)
  BY DEF Poll!Select
<1>2. which \subseteq ToSet(watched_list) /\ \A t \in which : callbacks[t] \in ready
  <2>1. Poll!Reported = {i \in DOMAIN pollfds : pollfds[i] \in ready}
    BY DEF Poll!Reported
  <2>2. None \notin ready
    BY RegistrationsAssumption DEF Shared
  <2>3. \A i \in Poll!Reported : i \in ToSet(watched_list) /\ callbacks[i] \in ready
    BY <2>1, <2>2 DEF PollFits
  <2> QED
    BY <1>1, <2>3
<1>3. PICK found : found = On(watched_list, which)
  OBVIOUS
<1>4. /\ Tickets # {} /\ TakeFirst(found)
      /\ pollfds' = [i \in DOMAIN pollfds |-> IF i \in which THEN None ELSE pollfds[i]]
  BY <1>1, <1>3, PollLists, PollOperations DEF Poll!Find, Poll!Tickets, Tickets
<1>5. watched_list \in Seq(Tickets) /\ Distinct(watched_list)
  BY DEF Shared, Share
<1>6. found \in Seq(Tickets) /\ Distinct(found) /\ ToSet(found) = which
  <2>1. ToSet(found) = ToSet(watched_list) \cap which /\ found \in Seq(Tickets) /\ Distinct(found)
    BY <1>3, <1>5, OffAndOn
  <2> QED
    BY <1>2, <2>1
<1>7. Finds(found)
  BY <1>2, <1>6, OverItsElements DEF Finds
<1>8. /\ ToSet(watched_list)' = ToSet(watched_list) \ which
      /\ Shared' /\ \A t \in Tickets' : callbacks'[t] = callbacks[t]
  BY <1>4, <1>6, <1>7, TakenKeeps DEF Finds
<1>9. ToSet(watched_list)' \subseteq Tickets'
  BY <1>8 DEF Shared, Share
<1>10. PollFits'
  <2>1. /\ DOMAIN pollfds' = DOMAIN pollfds
        /\ \A i \in DOMAIN pollfds : pollfds'[i] = IF i \in which THEN None ELSE pollfds[i]
    BY <1>4
  <2> QED
    BY <1>8, <1>9, <2>1 DEF PollFits
<1> QED
  BY <1>4, <1>7, <1>10 DEF SharedStep, Selects

LEMMA PollKeeps == Shared /\ PollFits /\ PollNext => SharedStep /\ PollFits'
<1> SUFFICES ASSUME Shared, PollFits, PollNext PROVE SharedStep /\ PollFits'
  OBVIOUS
<1>1. CASE \E e \in Events : Poll!CallWhen(e)
  BY <1>1, PollRegistered
<1>2. CASE \E ticket \in Tickets : Poll!Cancel(ticket)
  BY <1>2, PollCancelled
<1>3. CASE Poll!Select
  BY <1>3, PollSelected
<1> QED
  BY <1>1, <1>2, <1>3 DEF PollNext

-----------------------------------------------------------------------------
(***************************************************************************)
(* epoll and kqueue: the kernel has the tickets of the watched             *)
(* registrations.                                                          *)
(***************************************************************************)
KernelFits ==
  /\ interest \in [Events -> ToSet(watched_list) \cup {None}]
  /\ \A t \in ToSet(watched_list) : interest[callbacks[t]] = t
  /\ \A e \in Events : interest[e] # None => callbacks[interest[e]] = e
  /\ fds = [t \in Tickets |-> IF t \in ToSet(pending_list) THEN -1 ELSE callbacks[t][1]]

LEMMA KernelFitsIsInv ==
  ASSUME Shared
  PROVE  Epoll!KernelHasWatched <=> KernelFits
<1>1. \A t : Epoll!Contains(pending_list, t) <=> t \in ToSet(pending_list)
  <2>1. pending_list \in Seq(Tickets)
    BY DEF Shared, Share
  <2>2. \A t : Contains(pending_list, t) <=> t \in ToSet(pending_list)
    BY <2>1, ElementsOf
  <2> QED
    BY <2>2 DEF Contains, Epoll!Contains
<1>2. Epoll!ToSet(watched_list) = ToSet(watched_list) /\ Epoll!Tickets = Tickets
  BY DEF Epoll!ToSet, ToSet, Epoll!Tickets, Tickets
<1> QED
  BY <1>1, <1>2 DEF Epoll!KernelHasWatched, KernelFits

\* None is no ticket, and an event begins with a descriptor.
LEMMA Values ==
  ASSUME Shared
  PROVE  /\ None \notin Tickets /\ Tickets \subseteq Nat
         /\ \A t \in Tickets : callbacks[t] \in Events /\ callbacks[t][1] \in Nat /\ callbacks[t][1] # -1
<1>1. Tickets \subseteq Nat
  <2>1. MaxTickets \in Nat /\ Tickets \subseteq 2 .. MaxTickets + 1
    BY TicketsFit, RegistrationsAssumption
  <2> QED
    BY <2>1
<1>2. \A e \in Events : e[1] \in Nat
  BY RegistrationsAssumption
<1>3. \A t \in Tickets : callbacks[t] \in Events
  BY DEF Shared
<1>4. \A n \in Nat : n # -1
  OBVIOUS
<1> QED
  BY <1>1, <1>2, <1>3, <1>4, RegistrationsAssumption

\* EPOLL_CTL_ADD, or EV_ADD, of an event that is not watched.
LEMMA KernelRegistered ==
  ASSUME Shared, KernelFits, NEW e \in Events, NEW ticket, Registered(ticket, e),
         interest[e] = None, interest' = [interest EXCEPT ![e] = ticket],
         fds' = [t \in Tickets \cup {ticket} |-> IF t = ticket THEN e[1] ELSE fds[t]]
  PROVE  KernelFits'
<1>1. /\ ticket \notin Tickets
      /\ Tickets' = Tickets \cup {ticket}
      /\ ToSet(watched_list)' = ToSet(watched_list) \cup {ticket}
      /\ callbacks'[ticket] = e /\ \A t \in Tickets : callbacks'[t] = callbacks[t]
  BY RegisteredKeeps
<1>2. ToSet(watched_list) \cup ToSet(pending_list) = Tickets
  BY DEF Shared, Share
<1>3. pending_list' = pending_list
  BY DEF Registered
<1>4. interest' \in [Events -> ToSet(watched_list)' \cup {None}]
  BY <1>1 DEF KernelFits
<1>5. /\ interest'[e] = ticket
      /\ \A d \in Events \ {e} : interest'[d] = interest[d]
  BY DEF KernelFits
<1>6. \A t \in ToSet(watched_list) : interest[callbacks[t]] = t /\ callbacks[t] \in Events /\ t # None
  BY <1>2, Values DEF KernelFits
<1>7. \A t \in ToSet(watched_list)' : interest'[callbacks'[t]] = t
  BY <1>1, <1>2, <1>5, <1>6
<1>8. \A d \in Events : interest'[d] # None => callbacks'[interest'[d]] = d
  <2>1. \A d \in Events : interest[d] # None => interest[d] \in Tickets /\ callbacks[interest[d]] = d
    BY <1>2 DEF KernelFits
  <2> QED
    BY <1>1, <1>5, <2>1
<1>9. fds' = [t \in Tickets' |-> IF t \in ToSet(pending_list)' THEN -1 ELSE callbacks'[t][1]]
  <2>1. \A t \in Tickets : fds[t] = IF t \in ToSet(pending_list) THEN -1 ELSE callbacks[t][1]
    BY DEF KernelFits
  <2>2. ToSet(pending_list)' = ToSet(pending_list) /\ ticket \notin ToSet(pending_list)
    BY <1>1, <1>2, <1>3
  <2> QED
    BY <1>1, <2>1, <2>2
<1> QED
  BY <1>4, <1>7, <1>8, <1>9 DEF KernelFits

\* EPOLL_CTL_DEL, or EV_DELETE, when fd_ says that the kernel has the ticket.
LEMMA KernelCancelled ==
  ASSUME Shared, KernelFits, NEW ticket \in Tickets, RemoveRegistration(ticket),
         interest' = IF fds[ticket] = -1 THEN interest
                     ELSE [interest EXCEPT ![<<fds[ticket], callbacks[ticket][2]>>] = None],
         fds' = [t \in Tickets \ {ticket} |-> fds[t]]
  PROVE  KernelFits'
<1>1. /\ Tickets' = Tickets \ {ticket}
      /\ ToSet(watched_list)' = ToSet(watched_list) \ {ticket}
      /\ ToSet(pending_list)' = ToSet(pending_list) \ {ticket}
      /\ \A t \in Tickets' : callbacks'[t] = callbacks[t]
  BY RemovedKeeps
<1>2. /\ ToSet(watched_list) \cup ToSet(pending_list) = Tickets
      /\ ToSet(watched_list) \cap ToSet(pending_list) = {}
  BY DEF Shared, Share
<1>3. fds' = [t \in Tickets' |-> IF t \in ToSet(pending_list)' THEN -1 ELSE callbacks'[t][1]]
  <2>1. \A t \in Tickets : fds[t] = IF t \in ToSet(pending_list) THEN -1 ELSE callbacks[t][1]
    BY DEF KernelFits
  <2> QED
    BY <1>1, <2>1
<1>4. CASE ticket \in ToSet(pending_list)
  <2>1. fds[ticket] = -1
    BY <1>4 DEF KernelFits
  <2>2. interest' = interest /\ ToSet(watched_list)' = ToSet(watched_list)
    BY <1>1, <1>2, <1>4, <2>1
  <2>3. \A t \in ToSet(watched_list) : callbacks'[t] = callbacks[t]
    BY <1>1, <1>2, <1>4
  <2>4. \A e \in Events : interest[e] # None => interest[e] \in ToSet(watched_list)
    BY DEF KernelFits
  <2> QED
    BY <1>3, <2>2, <2>3, <2>4 DEF KernelFits
<1>5. CASE ticket \in ToSet(watched_list)
  <2> DEFINE e == callbacks[ticket]
  <2>1. e \in Events /\ e[1] # -1
    BY Values
  <2>2. e = <<e[1], e[2]>>
    BY <2>1, RegistrationsAssumption
  <2>3. fds[ticket] = e[1]
    BY <1>2, <1>5 DEF KernelFits
  <2>4. interest' = [interest EXCEPT ![e] = None]
    BY <2>1, <2>2, <2>3
  <2>5. interest[e] = ticket
    BY <1>5 DEF KernelFits
  <2> HIDE DEF e
  <2>6. /\ interest'[e] = None
        /\ \A d \in Events \ {e} : interest'[d] = interest[d]
    BY <2>1, <2>4 DEF KernelFits
  <2>7. \A d \in Events \ {e} : interest[d] # ticket
    <3>1. ticket # None
      BY Values
    <3> QED
      BY <3>1 DEF KernelFits, e
  <2>8. interest' \in [Events -> ToSet(watched_list)' \cup {None}]
    <3>1. \A d \in Events : interest'[d] \in ToSet(watched_list)' \cup {None}
      BY <1>1, <2>6, <2>7 DEF KernelFits
    <3>2. interest' = [d \in Events |-> interest'[d]]
      BY <2>4 DEF KernelFits
    <3> QED
      BY <3>1, <3>2
  <2>9. \A t \in ToSet(watched_list)' : interest'[callbacks'[t]] = t
    <3>1. \A t \in ToSet(watched_list)' : /\ t \in ToSet(watched_list) /\ t # ticket
                                          /\ callbacks'[t] = callbacks[t] /\ callbacks[t] \in Events
      BY <1>1, <1>2, Values
    <3>2. \A t \in ToSet(watched_list)' : callbacks[t] # e
      BY <2>5, <3>1 DEF KernelFits
    <3> QED
      BY <2>6, <3>1, <3>2 DEF KernelFits
  <2>10. \A d \in Events : interest'[d] # None => callbacks'[interest'[d]] = d
    <3>1. \A d \in Events : interest'[d] # None => d # e /\ interest'[d] = interest[d] /\ interest[d] \in Tickets'
      BY <1>1, <1>2, <2>6, <2>7 DEF KernelFits
    <3> QED
      BY <1>1, <3>1 DEF KernelFits
  <2> QED
    BY <1>3, <2>8, <2>9, <2>10 DEF KernelFits
<1> QED
  BY <1>2, <1>4, <1>5

Reports == {interest[e] : e \in {d \in ready : interest[d] # None}}

\* What is reported are watched registrations of events that are ready.
LEMMA ReportsFit ==
  ASSUME Shared, KernelFits
  PROVE  /\ Reports \subseteq ToSet(watched_list) /\ IsFiniteSet(Reports)
         /\ \A t \in Reports : callbacks[t] \in ready
<1>1. \A e \in ready : e \in Events
  BY DEF Shared
<1>2. Reports \subseteq ToSet(watched_list) /\ \A t \in Reports : callbacks[t] \in ready
  BY <1>1 DEF KernelFits, Reports
<1>3. IsFiniteSet(Reports)
  <2>1. Reports \subseteq Tickets
    BY <1>2 DEF Shared, Share
  <2> QED
    BY <2>1, TicketsFit, FS_Subset
<1> QED
  BY <1>2, <1>3

LEMMA KernelSelected ==
  ASSUME Shared, KernelFits, Tickets # {},
         NEW batch \in Seq(Reports), Distinct(batch), TakeFirst(batch),
         interest' = [e \in Events |-> IF interest[e] \in ToSet(batch) THEN None ELSE interest[e]],
         fds' = [t \in DOMAIN callbacks' |-> IF t \in ToSet(batch) THEN -1 ELSE fds[t]]
  PROVE  SharedStep /\ KernelFits'
<1> DEFINE F == ToSet(batch)
<1>1. F \subseteq Reports
  BY ElementsOf
<1>2. F \subseteq ToSet(watched_list) /\ \A t \in F : callbacks[t] \in ready
  BY <1>1, ReportsFit
<1>3. Finds(batch)
  BY <1>2, OverItsElements DEF Finds
<1>4. /\ Shared'
      /\ ToSet(watched_list)' = ToSet(watched_list) \ F
      /\ Tickets' \subseteq Tickets
      /\ \A t \in Tickets' : /\ callbacks'[t] = callbacks[t]
                             /\ t \in ToSet(pending_list)' <=> t \in ToSet(pending_list) \cup F
  BY <1>3, TakenKeeps DEF Finds
<1>5. ToSet(watched_list)' \subseteq Tickets'
  BY <1>4 DEF Shared, Share
<1> HIDE DEF F
<1>6. interest' = [e \in Events |-> IF interest[e] \in F THEN None ELSE interest[e]]
  BY DEF F
<1>7. interest' \in [Events -> ToSet(watched_list)' \cup {None}]
  BY <1>4, <1>6 DEF KernelFits
<1>8. \A t \in ToSet(watched_list)' : interest'[callbacks'[t]] = t
  <2>1. \A t \in ToSet(watched_list)' : /\ t \in ToSet(watched_list) /\ t \notin F
                                        /\ callbacks'[t] = callbacks[t]
                                        /\ callbacks[t] \in Events
    BY <1>4, <1>5, Values
  <2>2. \A t \in ToSet(watched_list)' : interest[callbacks[t]] = t
    BY <2>1 DEF KernelFits
  <2> QED
    BY <1>6, <2>1, <2>2
<1>9. \A e \in Events : interest'[e] # None => callbacks'[interest'[e]] = e
  <2>1. \A e \in Events : interest'[e] # None =>
            interest'[e] = interest[e] /\ interest'[e] \in Tickets'
    BY <1>5, <1>6, <1>7
  <2> QED
    BY <1>4, <2>1 DEF KernelFits
<1>10. fds' = [t \in Tickets' |-> IF t \in ToSet(pending_list)' THEN -1 ELSE callbacks'[t][1]]
  <2>1. \A t \in Tickets : fds[t] = IF t \in ToSet(pending_list) THEN -1 ELSE callbacks[t][1]
    BY DEF KernelFits
  <2>2. fds' = [t \in Tickets' |-> IF t \in F THEN -1 ELSE fds[t]]
    BY DEF F, Tickets
  <2> QED
    BY <1>4, <2>1, <2>2
<1>11. KernelFits'
  BY <1>7, <1>8, <1>9, <1>10 DEF KernelFits
<1> QED
  BY <1>3, <1>11 DEF SharedStep, Selects

\* What there is room for of the tickets R is a list of them.
LEMMA BatchOf ==
  ASSUME NEW R, IsFiniteSet(R), NEW room \in Nat, NEW b,
         NEW n, n = IF Cardinality(R) < room THEN Cardinality(R) ELSE room,
         b \in {<<>>} \cup {c \in [1 .. n -> R] : IsInjective(c)}
  PROVE  b \in Seq(R) /\ Distinct(b)
<1>1. n \in Nat
  BY FS_CardinalityType
<1>2. CASE b = <<>>
  BY <1>2 DEF Distinct
<1>3. CASE b \in [1 .. n -> R] /\ IsInjective(b)
  <2>1. b \in Seq(R) /\ Len(b) = n /\ DOMAIN b = 1 .. n
    BY <1>1, <1>3
  <2> QED
    BY <1>3, <2>1 DEF IsInjective, Distinct
<1> QED
  BY <1>2, <1>3

LEMMA EpollBatch ==
  ASSUME Shared, KernelFits, NEW batch \in Seq(Reports), Distinct(batch), Epoll!SelectBatch(batch)
  PROVE  SharedStep /\ KernelFits'
<1>1. \A t : Epoll!Contains(batch, t) <=> t \in ToSet(batch)
  <2>1. \A t : Contains(batch, t) <=> t \in ToSet(batch)
    BY ElementsOf
  <2> QED
    BY <2>1 DEF Contains, Epoll!Contains
<1>2. /\ Tickets # {} /\ TakeFirst(batch)
      /\ interest' = Epoll!Uninterested(batch)
      /\ fds' = [t \in DOMAIN callbacks' |-> IF Epoll!Contains(batch, t) THEN -1 ELSE fds[t]]
  BY EpollOperations DEF Epoll!SelectBatch, Epoll!Tickets, Tickets
<1>3. /\ interest' = [e \in Events |-> IF interest[e] \in ToSet(batch) THEN None ELSE interest[e]]
      /\ fds' = [t \in DOMAIN callbacks' |-> IF t \in ToSet(batch) THEN -1 ELSE fds[t]]
  BY <1>1, <1>2 DEF Epoll!Uninterested
<1> QED
  BY <1>2, <1>3, KernelSelected

LEMMA EpollCallWhen ==
  ASSUME Shared, KernelFits, NEW e \in Events, Epoll!CallWhen(e)
  PROVE  SharedStep /\ KernelFits'
<1>1. PICK ticket :
        /\ Epoll!Arena!NewId(ticket)
        /\ IF interest[e] # None
             THEN UNCHANGED <<callbacks, watched_list, fds, interest>>
             ELSE /\ Epoll!AddWatched(ticket, e)
                  /\ fds' = [t \in Tickets \cup {ticket} |-> IF t = ticket THEN e[1] ELSE fds[t]]
                  /\ interest' = [interest EXCEPT ![e] = ticket]
        /\ UNCHANGED <<pending_list, ready, result>>
  BY DEF Epoll!CallWhen, Epoll!epollVars, Epoll!Tickets, Tickets
<1>2. CASE interest[e] # None
  <2>1. Failed
    BY <1>1, <1>2, EpollOperations DEF Failed
  <2> QED
    BY <1>1, <1>2, <2>1 DEF SharedStep, KernelFits, Tickets
<1>3. CASE interest[e] = None
  <2>1. Registered(ticket, e)
    BY <1>1, <1>3, EpollOperations DEF Registered
  <2>2. KernelFits'
    BY <1>1, <1>3, <2>1, KernelRegistered
  <2> QED
    BY <2>1, <2>2 DEF SharedStep
<1> QED
  BY <1>2, <1>3

LEMMA EpollCancel ==
  ASSUME Shared, KernelFits, NEW ticket \in Tickets, Epoll!Cancel(ticket)
  PROVE  SharedStep /\ KernelFits'
<1>1. /\ interest' = IF fds[ticket] = -1 THEN interest
                     ELSE [interest EXCEPT ![<<fds[ticket], callbacks[ticket][2]>>] = None]
      /\ fds' = [t \in Tickets \ {ticket} |-> fds[t]]
      /\ RemoveRegistration(ticket)
  BY EpollOperations DEF Epoll!Cancel, Epoll!Tickets, Tickets
<1>2. KernelFits'
  BY <1>1, KernelCancelled
<1> QED
  BY <1>1, <1>2 DEF SharedStep

LEMMA EpollBatchOf ==
  ASSUME NEW R, IsFiniteSet(R), NEW b \in Epoll!BatchesOf(R)
  PROVE  b \in Seq(R) /\ Distinct(b)
<1> DEFINE n == IF Epoll!Cardinality(R) < MaxEvents THEN Epoll!Cardinality(R) ELSE MaxEvents
<1>1. n = IF Cardinality(R) < MaxEvents THEN Cardinality(R) ELSE MaxEvents
  <2>1. Epoll!Cardinality(R) = Cardinality(R)
    BY DEF Epoll!Cardinality, Cardinality
  <2> QED
    BY <2>1
<1>2. b \in {<<>>} \cup {c \in [1 .. n -> R] : Epoll!IsInjective(c)}
  <2>1. Epoll!BatchesOf(R) = {<<>>} \cup {c \in [1 .. n -> R] : Epoll!IsInjective(c)}
    BY DEF Epoll!BatchesOf
  <2> HIDE DEF n
  <2> QED
    BY <2>1
<1> HIDE DEF n
<1>3. \A c : Epoll!IsInjective(c) <=> IsInjective(c)
  BY DEF Epoll!IsInjective, IsInjective
<1>4. b \in {<<>>} \cup {c \in [1 .. n -> R] : IsInjective(c)}
  BY <1>2, <1>3
<1>5. MaxEvents \in Nat
  BY SelectorsAssumption
<1> QED
  BY <1>1, <1>4, <1>5, BatchOf

\* A batch of each epoll instance: no ticket is in both.
LEMMA EpollSelected ==
  ASSUME Shared, KernelFits, Epoll!Select
  PROVE  SharedStep /\ KernelFits'
<1> DEFINE Of(d) == {t \in Reports : callbacks[t][2] = d}
<1>1. PICK b \in Epoll!Batches : Epoll!SelectBatch(b)
  BY DEF Epoll!Select
<1>2. \E w \in Epoll!BatchesOf(Of("writable")), r \in Epoll!BatchesOf(Of("readable")) : b = w \o r
  <2> DEFINE Q(d) == {t \in Epoll!Reported : callbacks[t][2] = d}
  <2>1. Epoll!Batches = {w \o r : w \in Epoll!BatchesOf(Q("writable")),
                                  r \in Epoll!BatchesOf(Q("readable"))}
    BY DEF Epoll!Batches
  <2>2. Q("writable") = Of("writable") /\ Q("readable") = Of("readable")
    <3>1. Epoll!Reported = Reports
      BY DEF Epoll!Reported, Reports
    <3> QED
      BY <3>1
  <2> HIDE DEF Q, Of
  <2>3. \E w \in Epoll!BatchesOf(Q("writable")), r \in Epoll!BatchesOf(Q("readable")) : b = w \o r
    BY <1>1, <2>1
  <2> QED
    BY <2>2, <2>3
<1>3. PICK w \in Epoll!BatchesOf(Of("writable")), r \in Epoll!BatchesOf(Of("readable")) : b = w \o r
  BY <1>2
<1>4. Of("writable") \cap Of("readable") = {} /\ Of("writable") \subseteq Reports /\ Of("readable") \subseteq Reports
  OBVIOUS
<1> HIDE DEF Of
<1>5. w \in Seq(Of("writable")) /\ Distinct(w) /\ r \in Seq(Of("readable")) /\ Distinct(r)
  <2>1. IsFiniteSet(Of("writable")) /\ IsFiniteSet(Of("readable"))
    BY <1>4, ReportsFit, FS_Subset
  <2> QED
    BY <2>1, EpollBatchOf
<1>6. ToSet(w) \subseteq Of("writable") /\ ToSet(r) \subseteq Of("readable")
  BY <1>5, ElementsOf
<1>7. w \in Seq(Reports) /\ r \in Seq(Reports) /\ ToSet(w) \cap ToSet(r) = {}
  BY <1>4, <1>5, <1>6, OverItsElements
<1>8. b \in Seq(Reports) /\ Distinct(b)
  BY <1>3, <1>5, <1>7, JoinedLists
<1> QED
  BY <1>1, <1>8, EpollBatch

LEMMA EpollKeeps == Shared /\ KernelFits /\ EpollNext => SharedStep /\ KernelFits'
<1> SUFFICES ASSUME Shared, KernelFits, EpollNext PROVE SharedStep /\ KernelFits'
  OBVIOUS
<1>1. CASE \E e \in Events : Epoll!CallWhen(e)
  BY <1>1, EpollCallWhen
<1>2. CASE \E ticket \in Tickets : Epoll!Cancel(ticket)
  BY <1>2, EpollCancel
<1>3. CASE Epoll!Select
  BY <1>3, EpollSelected
<1> QED
  BY <1>1, <1>2, <1>3 DEF EpollNext

LEMMA KqueueBatch ==
  ASSUME Shared, KernelFits, NEW batch \in Seq(Reports), Distinct(batch), Kqueue!Epoll!SelectBatch(batch)
  PROVE  SharedStep /\ KernelFits'
<1>1. \A t : Kqueue!Epoll!Contains(batch, t) <=> t \in ToSet(batch)
  <2>1. \A t : Contains(batch, t) <=> t \in ToSet(batch)
    BY ElementsOf
  <2> QED
    BY <2>1 DEF Contains, Kqueue!Epoll!Contains
<1>2. /\ Tickets # {} /\ TakeFirst(batch)
      /\ interest' = Kqueue!Epoll!Uninterested(batch)
      /\ fds' = [t \in DOMAIN callbacks' |-> IF Kqueue!Epoll!Contains(batch, t) THEN -1 ELSE fds[t]]
  BY KqueueOperations DEF Kqueue!Epoll!SelectBatch, Kqueue!Epoll!Tickets, Tickets
<1>3. /\ interest' = [e \in Events |-> IF interest[e] \in ToSet(batch) THEN None ELSE interest[e]]
      /\ fds' = [t \in DOMAIN callbacks' |-> IF t \in ToSet(batch) THEN -1 ELSE fds[t]]
  BY <1>1, <1>2 DEF Kqueue!Epoll!Uninterested
<1> QED
  BY <1>2, <1>3, KernelSelected

LEMMA KqueueCallWhen ==
  ASSUME Shared, KernelFits, NEW e \in Events, Kqueue!Epoll!CallWhen(e)
  PROVE  SharedStep /\ KernelFits'
<1>1. PICK ticket :
        /\ Kqueue!Epoll!Arena!NewId(ticket)
        /\ IF interest[e] # None
             THEN UNCHANGED <<callbacks, watched_list, fds, interest>>
             ELSE /\ Kqueue!Epoll!AddWatched(ticket, e)
                  /\ fds' = [t \in Tickets \cup {ticket} |-> IF t = ticket THEN e[1] ELSE fds[t]]
                  /\ interest' = [interest EXCEPT ![e] = ticket]
        /\ UNCHANGED <<pending_list, ready, result>>
  BY DEF Kqueue!Epoll!CallWhen, Kqueue!Epoll!epollVars, Kqueue!Epoll!Tickets, Tickets
<1>2. CASE interest[e] # None
  <2>1. Failed
    BY <1>1, <1>2, KqueueOperations DEF Failed
  <2> QED
    BY <1>1, <1>2, <2>1 DEF SharedStep, KernelFits, Tickets
<1>3. CASE interest[e] = None
  <2>1. Registered(ticket, e)
    BY <1>1, <1>3, KqueueOperations DEF Registered
  <2>2. KernelFits'
    BY <1>1, <1>3, <2>1, KernelRegistered
  <2> QED
    BY <2>1, <2>2 DEF SharedStep
<1> QED
  BY <1>2, <1>3

LEMMA KqueueCancel ==
  ASSUME Shared, KernelFits, NEW ticket \in Tickets, Kqueue!Epoll!Cancel(ticket)
  PROVE  SharedStep /\ KernelFits'
<1>1. /\ interest' = IF fds[ticket] = -1 THEN interest
                     ELSE [interest EXCEPT ![<<fds[ticket], callbacks[ticket][2]>>] = None]
      /\ fds' = [t \in Tickets \ {ticket} |-> fds[t]]
      /\ RemoveRegistration(ticket)
  BY KqueueOperations DEF Kqueue!Epoll!Cancel, Kqueue!Epoll!Tickets, Tickets
<1>2. KernelFits'
  BY <1>1, KernelCancelled
<1> QED
  BY <1>1, <1>2 DEF SharedStep

LEMMA KqueueBatchOf ==
  ASSUME NEW R, IsFiniteSet(R), NEW b \in Kqueue!Epoll!BatchesOf(R)
  PROVE  b \in Seq(R) /\ Distinct(b)
<1> DEFINE n == IF Kqueue!Epoll!Cardinality(R) < MaxKevents THEN Kqueue!Epoll!Cardinality(R) ELSE MaxKevents
<1>1. n = IF Cardinality(R) < MaxKevents THEN Cardinality(R) ELSE MaxKevents
  <2>1. Kqueue!Epoll!Cardinality(R) = Cardinality(R)
    BY DEF Kqueue!Epoll!Cardinality, Cardinality
  <2> QED
    BY <2>1
<1>2. b \in {<<>>} \cup {c \in [1 .. n -> R] : Kqueue!Epoll!IsInjective(c)}
  <2>1. Kqueue!Epoll!BatchesOf(R) = {<<>>} \cup {c \in [1 .. n -> R] : Kqueue!Epoll!IsInjective(c)}
    BY DEF Kqueue!Epoll!BatchesOf
  <2> HIDE DEF n
  <2> QED
    BY <2>1
<1> HIDE DEF n
<1>3. \A c : Kqueue!Epoll!IsInjective(c) <=> IsInjective(c)
  BY DEF Kqueue!Epoll!IsInjective, IsInjective
<1>4. b \in {<<>>} \cup {c \in [1 .. n -> R] : IsInjective(c)}
  BY <1>2, <1>3
<1>5. MaxKevents \in Nat
  BY SelectorsAssumption
<1> QED
  BY <1>1, <1>4, <1>5, BatchOf

LEMMA KqueueSelected ==
  ASSUME Shared, KernelFits, Kqueue!Select
  PROVE  SharedStep /\ KernelFits'
<1>1. Kqueue!Epoll!Reported = Reports
  BY DEF Kqueue!Epoll!Reported, Reports
<1>2. PICK batch \in Kqueue!Epoll!BatchesOf(Reports) : Kqueue!Epoll!SelectBatch(batch)
  BY <1>1 DEF Kqueue!Select, Kqueue!Batches
<1>3. batch \in Seq(Reports) /\ Distinct(batch)
  BY <1>2, ReportsFit, KqueueBatchOf
<1> QED
  BY <1>2, <1>3, KqueueBatch

LEMMA KqueueKeeps == Shared /\ KernelFits /\ KqueueNext => SharedStep /\ KernelFits'
<1> SUFFICES ASSUME Shared, KernelFits, KqueueNext PROVE SharedStep /\ KernelFits'
  OBVIOUS
<1>1. CASE \E e \in Events : Kqueue!CallWhen(e)
  BY <1>1, KqueueCallWhen DEF Kqueue!CallWhen
<1>2. CASE \E ticket \in Tickets : Kqueue!Cancel(ticket)
  BY <1>2, KqueueCancel DEF Kqueue!Cancel
<1>3. CASE Kqueue!Select
  BY <1>3, KqueueSelected
<1> QED
  BY <1>1, <1>2, <1>3 DEF KqueueNext

-----------------------------------------------------------------------------
(***************************************************************************)
(* The four side by side.                                                  *)
(***************************************************************************)
Parts ==
  /\ Shared
  /\ kind = "poll" => PollFits
  /\ kind \in {"epoll", "kqueue"} => KernelFits

LEMMA InvIsParts == Inv <=> Parts
<1>1. Shared => (Epoll!KernelHasWatched <=> KernelFits)
  BY KernelFitsIsInv
<1> QED
  BY <1>1, SharedIsInv, PollFitsIsInv DEF Inv, Parts

LEMMA InitParts == Init => Parts
<1> SUFFICES ASSUME Init PROVE Parts
  OBVIOUS
<1>1. DOMAIN callbacks = {} /\ watched_list = <<>> /\ pending_list = <<>> /\ slots = 2
      /\ ready = {} /\ result = None /\ pollfds = <<>> /\ fds = <<>>
      /\ interest = [e \in Events |-> None]
  BY DEF Init, ArenaInit, Epoll!EpollInit
<1>2. Tickets = {} /\ callbacks \in [{} -> Events]
  BY DEF Tickets, Init, ArenaInit
<1>3. ToSet(watched_list) = {} /\ ToSet(pending_list) = {}
  BY <1>1 DEF ToSet
<1>4. Share(watched_list, pending_list, Tickets)
  BY <1>1, <1>2, <1>3 DEF Share, Distinct
<1>5. slots \in 2 .. MaxTickets + 2
  BY <1>1, RegistrationsAssumption
<1>6. Shared
  BY <1>1, <1>2, <1>4, <1>5 DEF Shared
<1>7. PollFits
  <2>1. DOMAIN pollfds = {} /\ 0 \in 0 .. MaxPollfds /\ 0 .. 0 - 1 = {}
    BY <1>1, SelectorsAssumption
  <2> QED
    BY <1>3, <2>1 DEF PollFits
<1>8. KernelFits
  <2>1. fds = [t \in {} |-> IF t \in ToSet(pending_list) THEN -1 ELSE callbacks[t][1]]
    BY <1>1
  <2> QED
    BY <1>1, <1>2, <1>3, <2>1 DEF KernelFits
<1> QED
  BY <1>6, <1>7, <1>8 DEF Parts

LEMMA NextParts == Parts /\ [Next]_vars => Parts' /\ [Abstract!Next]_(Abstract!vars)
<1> SUFFICES ASSUME Parts, [Next]_vars PROVE Parts' /\ [Abstract!Next]_(Abstract!vars)
  OBVIOUS
<1> USE DEF Parts
<1>1. CASE PollNext
  <2>1. kind = "poll" /\ kind' = kind
    BY <1>1 DEF PollNext
  <2>2. SharedStep /\ PollFits'
    BY <1>1, <2>1, PollKeeps
  <2> QED
    BY <2>1, <2>2, SharedStepKeeps, SharedStepRefines
<1>2. CASE SelectNext
  <2>1. kind = "select" /\ kind' = kind
    BY <1>2 DEF SelectNext
  <2>2. SharedStep
    BY <1>2, SelectKeeps
  <2> QED
    BY <2>1, <2>2, SharedStepKeeps, SharedStepRefines
<1>3. CASE EpollNext
  <2>1. kind = "epoll" /\ kind' = kind
    BY <1>3 DEF EpollNext
  <2>2. SharedStep /\ KernelFits'
    BY <1>3, <2>1, EpollKeeps
  <2> QED
    BY <2>1, <2>2, SharedStepKeeps, SharedStepRefines
<1>4. CASE KqueueNext
  <2>1. kind = "kqueue" /\ kind' = kind
    BY <1>4 DEF KqueueNext
  <2>2. SharedStep /\ KernelFits'
    BY <1>4, <2>1, KqueueKeeps
  <2> QED
    BY <2>1, <2>2, SharedStepKeeps, SharedStepRefines
<1>5. CASE World
  <2>1. SharedStep /\ UNCHANGED <<kind, fds, interest, pollfds, arenaVars>>
    BY <1>5 DEF World, SharedStep, BecomesReady, IsOver
  <2>2. (PollFits => PollFits') /\ (KernelFits => KernelFits')
    BY <2>1 DEF PollFits, KernelFits, arenaVars, Tickets
  <2> QED
    BY <2>1, <2>2, SharedStepKeeps, SharedStepRefines
<1>6. CASE UNCHANGED vars
  BY <1>6 DEF vars, arenaVars, Shared, PollFits, KernelFits, Tickets, Abstract!vars
<1> QED
  BY <1>1, <1>2, <1>3, <1>4, <1>5, <1>6 DEF Next

(***************************************************************************)
(* Each registration is on one list, once, and the kernel, or the array    *)
(* for poll(), has exactly the watched ones: no assert of the selectors    *)
(* fails, and no event is taken for that of a recycled ticket.             *)
(***************************************************************************)
THEOREM Invariance == Spec => []Inv
<1>1. Parts /\ [Next]_vars => Parts'
  BY NextParts
<1>2. Spec => []Parts
  BY InitParts, <1>1, PTL DEF Spec
<1> QED
  BY <1>2, InvIsParts, PTL

(***************************************************************************)
(* Each of the four does what selector.hpp says and nothing else: every    *)
(* callback is selected at most once, after its event was detected, and    *)
(* not after it was cancelled.                                             *)
(***************************************************************************)
THEOREM SelectorsImplementSelector == Spec => ImplementsSelector
<1>1. Init => Abstract!Init
  <2>1. Init => ToSet(pending_list) = {}
    BY DEF Init, ArenaInit, ToSet
  <2> QED
    BY <2>1 DEF Init, ArenaInit, Abstract!Init
<1>2. Parts /\ [Next]_vars => Parts' /\ [Abstract!Next]_(Abstract!vars)
  BY NextParts
<1> QED
  BY InitParts, <1>1, <1>2, PTL DEF Spec, ImplementsSelector, Abstract!Spec

=============================================================================
