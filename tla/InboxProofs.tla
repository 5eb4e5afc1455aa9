---------------------------- MODULE InboxProofs -----------------------------
(***************************************************************************)
(* Theorems about the inbox, for any parts and headers, any number of      *)
(* groups and any window, messages, webhooks, capacity and time to live:   *)
(* what the marks remember, what is in a group and what may leave it, that *)
(* the inbox uses the marks as EmissionMarks says, that what was announced *)
(* is stored, and that listing and replay agree.                           *)
(***************************************************************************)
EXTENDS Inbox, WellFoundedInduction, FiniteSetTheorems, TLAPS

-----------------------------------------------------------------------------
(* The emission marks by themselves: what MarksSpec promises, whoever uses *)
(* them.                                                                   *)

\* Refused and never offered look alike: held is Never.  The order of the
\* entries plays no part.
EntriesInv ==
  /\ DOMAIN entries \subseteq Ids
  /\ entries \in [DOMAIN entries -> Entry]
  /\ held \in [Pairs -> 0..Never]

\* A live entry names only webhooks that took the message last time.
LiveInv ==
  \A id \in DOMAIN entries : entries[id].age < TTL =>
    \A w \in entries[id].webhooks : held[<<id, w>>] # Never

Inv == EntriesInv /\ LiveInv

LEMMA ServedIsLive == Inv => ServedHoldsItem
BY DEF Inv, LiveInv, ServedHoldsItem, Served

LEMMA NoMarksInv == NoMarks => Inv
BY MarksAssumption DEF NoMarks, Inv, EntriesInv, LiveInv, Never

LEMMA ForgetInv == ASSUME Inv, ForgetMarks  PROVE Inv'
BY MarksAssumption DEF ForgetMarks, Inv, EntriesInv, LiveInv, Never

LEMMA SweepInv == ASSUME Inv, SweepMarks  PROVE Inv'
BY DEF SweepMarks, Unexpired, Inv, EntriesInv, LiveInv

LEMMA AgeInv == ASSUME Inv, AgeMarks  PROVE Inv'
<1>1. DOMAIN entries' = DOMAIN entries
  BY DEF AgeMarks
<1>2. \A id \in DOMAIN entries :
        entries'[id] = [entries[id] EXCEPT !.age = Older(entries[id].age, TTL)]
  BY DEF AgeMarks
<1>3. \A id \in DOMAIN entries :
        /\ entries'[id] \in Entry
        /\ entries'[id].webhooks = entries[id].webhooks
        /\ entries'[id].age < TTL => entries[id].age < TTL
  <2>. SUFFICES ASSUME NEW id \in DOMAIN entries
                PROVE  /\ entries'[id] \in Entry
                       /\ entries'[id].webhooks = entries[id].webhooks
                       /\ entries'[id].age < TTL => entries[id].age < TTL
    OBVIOUS
  <2>1. entries[id] \in Entry
    BY DEF Inv, EntriesInv
  <2>2. /\ entries'[id].webhooks = entries[id].webhooks
        /\ entries'[id].age = Older(entries[id].age, TTL)
        /\ entries'[id] = [webhooks |-> entries[id].webhooks,
                           age |-> Older(entries[id].age, TTL)]
    BY <1>2, <2>1 DEF Entry
  <2>3. Older(entries[id].age, TTL) \in 0..TTL
    BY <2>1, MarksAssumption DEF Entry, Older
  <2>4. Older(entries[id].age, TTL) < TTL => entries[id].age < TTL
    BY <2>1, MarksAssumption DEF Entry, Older
  <2>. QED  BY <2>1, <2>2, <2>3, <2>4 DEF Entry
<1>4. held' \in [Pairs -> 0..Never]
  BY MarksAssumption DEF AgeMarks, Inv, EntriesInv, Never, Older
<1>5. \A p \in Pairs : held[p] # Never => held'[p] # Never
  BY MarksAssumption DEF AgeMarks, Inv, EntriesInv, Never, Older
<1>6. EntriesInv'
  <2>1. entries' = [id \in DOMAIN entries |-> entries'[id]]
    BY <1>2 DEF AgeMarks
  <2>. QED  BY <1>1, <1>3, <1>4, <2>1 DEF Inv, EntriesInv
<1>7. LiveInv'
  <2>1. \A id \in DOMAIN entries : \A w \in entries[id].webhooks : <<id, w>> \in Pairs
    BY DEF Inv, EntriesInv, Entry, Pairs
  <2>. QED  BY <1>1, <1>3, <1>5, <2>1 DEF Inv, LiveInv
<1>. QED  BY <1>6, <1>7 DEF Inv

-----------------------------------------------------------------------------
(* An emission.                                                            *)

\* What an emission leaves of the entries: of the old ones only the marks of
\* this message change, and those are the live ones before and what took it.
LEMMA EntriesAfter ==
  ASSUME Inv, NEW id \in Ids, NEW ok \in SUBSET Webhooks,
         MarkKnown(id, ok) \/ MarkNew(id, ok)
  PROVE  \E base :
           /\ DOMAIN base \subseteq DOMAIN entries
           /\ \A x \in DOMAIN base : base[x] = entries[x]
           /\ entries' = With(base, id, [webhooks |-> Served(id) \cup ok, age |-> 0])
<1>1. CASE MarkKnown(id, ok)
  BY <1>1 DEF MarkKnown, MarkedBefore, Served
<1>2. CASE MarkNew(id, ok)
  <2>. DEFINE base == IF Full THEN Without(entries, order[Oldest]) ELSE entries
  <2>1. DOMAIN base \subseteq DOMAIN entries /\ \A x \in DOMAIN base : base[x] = entries[x]
    BY DEF Without
  <2>2. Served(id) \cup ok = ok
    BY <1>2 DEF MarkNew, Served
  <2>3. entries' = With(base, id, [webhooks |-> Served(id) \cup ok, age |-> 0])
    BY <1>2, <2>2 DEF MarkNew
  <2>. QED  BY <2>1, <2>3
<1>. QED  BY <1>1, <1>2

\* Only webhooks that do not hold the message are tried, so a refusal never
\* falls on a mark.
LEMMA EmissionInv ==
  ASSUME Inv, NEW id \in Ids, NEW registered, NEW tried \in SUBSET (Webhooks \ Served(id)),
         NEW ok \in SUBSET tried, Emission(id, registered, tried, ok)
  PROVE  Inv'
<1>h. held' = [p \in Pairs |-> IF p \in {id} \X ok THEN 0
                               ELSE IF p \in {id} \X tried THEN Never ELSE held[p]]
  BY DEF Emission
<1>1. held' \in [Pairs -> 0..Never]
  BY <1>h, MarksAssumption DEF Inv, EntriesInv, Never
<1>2. \A x \in Ids, w \in Webhooks : x # id => held'[<<x, w>>] = held[<<x, w>>]
  BY <1>h DEF Pairs
<1>3. \A w \in Webhooks : w \in ok => held'[<<id, w>>] = 0
  BY <1>h DEF Pairs
<1>4. \A w \in Served(id) : w \in Webhooks => held'[<<id, w>>] = held[<<id, w>>]
  BY <1>h DEF Pairs
<1>s. Served(id) \subseteq Webhooks
  BY DEF Inv, EntriesInv, Entry, Served
<1>5. CASE ok = {}
  <2>1. entries' = entries
    BY <1>5 DEF Emission
  <2>2. EntriesInv'
    BY <1>1, <2>1 DEF Inv, EntriesInv
  <2>3. LiveInv'
    <3>. SUFFICES ASSUME NEW x \in DOMAIN entries, entries[x].age < TTL,
                         NEW w \in entries[x].webhooks
                  PROVE  held'[<<x, w>>] # Never
      BY <2>1 DEF LiveInv
    <3>1. x \in Ids /\ w \in Webhooks /\ held[<<x, w>>] # Never
      BY DEF Inv, EntriesInv, LiveInv, Entry
    <3>2. x = id => w \in Served(id)
      BY DEF Served
    <3>. QED  BY <1>2, <1>4, <3>1, <3>2
  <2>. QED  BY <2>2, <2>3 DEF Inv
<1>6. CASE ok # {}
  <2>. DEFINE new == [webhooks |-> Served(id) \cup ok, age |-> 0]
  <2>1. PICK base : /\ DOMAIN base \subseteq DOMAIN entries
                    /\ \A x \in DOMAIN base : base[x] = entries[x]
                    /\ entries' = With(base, id, new)
    BY <1>6, EntriesAfter DEF Emission
  <2>2. /\ DOMAIN entries' = DOMAIN base \cup {id} /\ entries'[id] = new
        /\ \A x \in DOMAIN base : x # id => entries'[x] = entries[x]
        /\ entries' = [x \in DOMAIN entries' |-> entries'[x]]
    <3>. HIDE DEF new
    <3>1. /\ DOMAIN With(base, id, new) = DOMAIN base \cup {id}
          /\ With(base, id, new)[id] = new
          /\ \A x \in DOMAIN base : x # id => With(base, id, new)[x] = base[x]
          /\ With(base, id, new) = [x \in DOMAIN base \cup {id} |-> With(base, id, new)[x]]
      BY DEF With
    <3>2. entries' = [x \in DOMAIN entries' |-> entries'[x]]
      BY <2>1, <3>1
    <3>. QED  BY <2>1, <3>1, <3>2
  <2>3. new \in Entry
    BY <1>s, MarksAssumption DEF Entry
  <2>4. EntriesInv'
    <3>1. \A x \in DOMAIN entries' : x \in Ids /\ entries'[x] \in Entry
      BY <2>1, <2>2, <2>3 DEF Inv, EntriesInv
    <3>. QED  BY <1>1, <2>2, <3>1 DEF EntriesInv
  <2>5. LiveInv'
    <3>. SUFFICES ASSUME NEW x \in DOMAIN entries', entries'[x].age < TTL,
                         NEW w \in entries'[x].webhooks
                  PROVE  held'[<<x, w>>] # Never
      BY DEF LiveInv
    <3>1. CASE x = id /\ w \in ok
      BY <1>3, <3>1, MarksAssumption DEF Never
    <3>2. CASE x = id /\ w \notin ok
      <4>1. w \in Served(id)
        BY <2>2, <3>2
      <4>. QED  BY <1>4, <1>s, <3>2, <4>1, ServedIsLive DEF ServedHoldsItem
    <3>3. CASE x # id
      <4>1. x \in DOMAIN entries /\ entries'[x] = entries[x]
        BY <2>1, <2>2, <3>3
      <4>2. x \in Ids /\ w \in Webhooks /\ held[<<x, w>>] # Never
        BY <4>1 DEF Inv, EntriesInv, LiveInv, Entry
      <4>. QED  BY <1>2, <3>3, <4>2
    <3>. QED  BY <3>1, <3>2, <3>3
  <2>. QED  BY <2>4, <2>5 DEF Inv
<1>. QED  BY <1>5, <1>6

\* What MarksNext says of an emission.
Emits(id, registered, ok) ==
  /\ id \in Ids /\ registered \in SUBSET Webhooks /\ ok \in SUBSET (registered \ Served(id))
  /\ Emission(id, registered, registered \ Served(id), ok)

LEMMA MarksCases ==
  ASSUME MarksNext
  PROVE  \/ \E id, registered, ok : Emits(id, registered, ok)
         \/ SweepMarks \/ AgeMarks \/ ForgetMarks
BY DEF MarksNext, Emits

LEMMA StepInv == Inv /\ [MarksNext]_marks => Inv'
<1>1. CASE UNCHANGED marks
  BY <1>1 DEF marks, Inv, EntriesInv, LiveInv
<1>2. ASSUME Inv, NEW id, NEW registered, NEW ok, Emits(id, registered, ok)  PROVE Inv'
  <2>1. registered \ Served(id) \in SUBSET (Webhooks \ Served(id))
    BY <1>2 DEF Emits
  <2>. QED  BY <1>2, <2>1, EmissionInv DEF Emits
<1>3. CASE MarksNext
  BY <1>2, <1>3, MarksCases, SweepInv, AgeInv, ForgetInv
<1>. QED  BY <1>1, <1>3

\* The webhooks an emission passes over are those that are served.
LEMMA MissesNobody == Inv /\ NobodyIsMissed /\ [MarksNext]_marks => NobodyIsMissed'
<1>. SUFFICES ASSUME Inv, NobodyIsMissed, [MarksNext]_marks  PROVE missed' = {}
  BY DEF NobodyIsMissed
<1>1. CASE UNCHANGED marks
  BY <1>1 DEF marks, NobodyIsMissed
<1>2. ASSUME NEW id, NEW registered, NEW ok, Emits(id, registered, ok)  PROVE missed' = {}
  <2>1. id \in Ids
    BY <1>2 DEF Emits
  <2>2. \A w \in Served(id) : held[<<id, w>>] # Never
    BY <2>1, ServedIsLive DEF ServedHoldsItem
  <2>3. \A p \in {id} \X (registered \ (registered \ Served(id))) : held[p] # Never
    BY <2>2
  <2>. QED  BY <1>2, <2>3 DEF Emits, Emission, NobodyIsMissed
<1>3. CASE SweepMarks \/ AgeMarks \/ ForgetMarks
  BY <1>3 DEF SweepMarks, AgeMarks, ForgetMarks, NobodyIsMissed
<1>. QED  BY <1>1, <1>2, <1>3, MarksCases

-----------------------------------------------------------------------------
(* The theorems.                                                           *)

\* Entries and stamps keep their types, and a live entry names only webhooks
\* that took the message (dedupe.go:43-86).
THEOREM InvCorrect == MarksSpec => []Inv
BY NoMarksInv, StepInv, PTL DEF MarksSpec

\* A webhook is marked only when it took the message the last time it was
\* offered (dedupe.go:57-67).
THEOREM ServedHoldsItemCorrect == MarksSpec => []ServedHoldsItem
BY InvCorrect, ServedIsLive, PTL

\* No registered webhook is ever passed over while it does not hold the
\* message: no refusal is hidden, whatever others took and whatever expired,
\* was revived, evicted or forgotten (dedupe.go:43-112, service.go:453-463).
THEOREM NobodyIsMissedCorrect == MarksSpec => []NobodyIsMissed
<1>1. NoMarks => NobodyIsMissed
  BY DEF NoMarks, NobodyIsMissed
<1>2. Inv /\ [MarksNext]_marks => Inv'
  BY StepInv
<1>. QED  BY <1>1, <1>2, NoMarksInv, MissesNobody, PTL DEF MarksSpec

-----------------------------------------------------------------------------
(* Induction without an operator: a set of naturals has a smallest one.    *)

LEMMA Smallest ==
  ASSUME NEW T \in SUBSET Nat, NEW n \in T  PROVE \E m \in T : \A k \in T : m <= k
<1>. DEFINE Below == {p \in Nat \X Nat : p[1] < p[2]}
<1>1. OpToRel(<, Nat) = Below
  BY DEF OpToRel
<1>2. IsWellFoundedOn(Below, Nat)
  BY <1>1, NatLessThanWellFounded, Zenon
<1>3. PICK m \in T : \A k \in T : ~(<<k, m>> \in Below)
  BY <1>2, WFMin, Zenon
<1>4. ASSUME NEW k \in T  PROVE m <= k
  <2>1. k \in Nat /\ m \in Nat /\ <<k, m>> \in Nat \X Nat
    OBVIOUS
  <2>2. ~(<<k, m>>[1] < <<k, m>>[2])
    BY <1>3, <2>1, Zenon
  <2>3. ~(k < m)
    BY <2>2
  <2>. QED  BY <2>1, <2>3
<1>. QED  BY <1>4

\* A set that has 0, and with each number below n the next, has them all.
LEMMA CountUp ==
  ASSUME NEW n \in Nat, NEW T, 0 \in T, \A k \in 0..n : k + 1 <= n /\ k \in T => k + 1 \in T
  PROVE  \A k \in 0..n : k \in T
<1>. DEFINE Bad == {k \in 0..n : k \notin T}
<1>. SUFFICES ASSUME NEW b \in Bad  PROVE FALSE
  OBVIOUS
<1>1. Bad \in SUBSET Nat
  OBVIOUS
<1>2. PICK m \in Bad : \A k \in Bad : m <= k
  BY <1>1, Smallest
<1>3. m \in 0..n /\ m \notin T /\ m # 0
  OBVIOUS
<1>4. m - 1 \in 0..n /\ (m - 1) + 1 = m
  BY <1>3
<1>5. m - 1 \notin Bad
  BY <1>2, <1>4
<1>6. m - 1 \in T
  BY <1>4, <1>5
<1>. QED  BY <1>3, <1>4, <1>6

-----------------------------------------------------------------------------
(* The elements of a sequence that are in a set.                           *)

\* The recursion that defines Only, up to n.
IsSieve(F, s, S, n) == F = [i \in 0..n |->
  IF i = 0 THEN <<>> ELSE IF s[i] \in S THEN Append(F[i - 1], s[i]) ELSE F[i - 1]]

LEMMA SieveExists == ASSUME NEW s, NEW S, NEW n \in Nat  PROVE \E F : IsSieve(F, s, S, n)
<1>. DEFINE Next1(v, i) == IF s[i] \in S THEN Append(v, s[i]) ELSE v
            Is(F, k) == F = [i \in 0..k |-> IF i = 0 THEN <<>> ELSE Next1(F[i - 1], i)]
            T == {k \in 0..n : \E F : Is(F, k)}
<1>1. 0 \in T
  <2>. DEFINE F == [i \in 0..0 |-> <<>>]
  <2>1. Is(F, 0)
    OBVIOUS
  <2>. HIDE DEF Is
  <2>. QED  BY <2>1
<1>2. ASSUME NEW k \in 0..n, k + 1 <= n, k \in T
      PROVE  k + 1 \in T
  <2>1. PICK F : Is(F, k)
    BY <1>2
  <2>. DEFINE G == [i \in 0..(k + 1) |-> IF i = k + 1 THEN Next1(F[k], i) ELSE F[i]]
  <2>. HIDE DEF Next1
  <2>2. DOMAIN F = 0..k /\ F[0] = <<>> /\ \A i \in 1..k : F[i] = Next1(F[i - 1], i)
    BY <2>1
  <2>3. ASSUME NEW i \in 0..(k + 1)
        PROVE  G[i] = IF i = 0 THEN <<>> ELSE Next1(G[i - 1], i)
    <3>1. CASE i = 0
      BY <2>2, <3>1
    <3>2. CASE i \in 1..k
      <4>1. G[i] = F[i] /\ G[i - 1] = F[i - 1] /\ i # 0
        BY <3>2
      <4>. QED  BY <2>2, <3>2, <4>1
    <3>3. CASE i = k + 1
      <4>1. G[i] = Next1(F[k], i) /\ G[i - 1] = F[k] /\ i # 0
        BY <3>3
      <4>. QED  BY <4>1
    <3>4. i = 0 \/ i \in 1..k \/ i = k + 1
      OBVIOUS
    <3>. QED  BY <3>1, <3>2, <3>3, <3>4
  <2>4. G = [i \in 0..(k + 1) |-> G[i]]
    OBVIOUS
  <2>5. Is(G, k + 1)
    BY <2>3, <2>4
  <2>. HIDE DEF G, Is
  <2>6. k + 1 \in 0..n
    BY <1>2
  <2>. QED  BY <2>5, <2>6
<1>. HIDE DEF T
<1>3. \A k \in 0..n : k \in T
  BY <1>1, <1>2, CountUp
<1>4. n \in T
  BY <1>3
<1>5. PICK F : Is(F, n)
  BY <1>4 DEF T
<1>6. IsSieve(F, s, S, n)
  BY <1>5 DEF IsSieve
<1>. QED  BY <1>6

LEMMA SieveRows ==
  ASSUME NEW T, NEW s \in Seq(T), NEW S
  PROVE  \E F : /\ Only(s, S) = F[Len(s)] /\ F[0] = <<>>
                /\ \A i \in 1..Len(s) :
                     F[i] = IF s[i] \in S THEN Append(F[i - 1], s[i]) ELSE F[i - 1]
<1>. DEFINE n == Len(s)
            F == CHOOSE G : IsSieve(G, s, S, n)
<1>0. n \in Nat
  OBVIOUS
<1>1. \E G : IsSieve(G, s, S, n)
  BY <1>0, SieveExists
<1>2. Only(s, S) = F[n]
  BY DEF Only, IsSieve
<1>3. IsSieve(F, s, S, n)
  BY <1>1
<1>. HIDE DEF F
<1>4. \A i \in 0..n :
        F[i] = IF i = 0 THEN <<>> ELSE IF s[i] \in S THEN Append(F[i - 1], s[i]) ELSE F[i - 1]
  <2>. HIDE DEF n
  <2>. QED  BY <1>3 DEF IsSieve
<1>5. F[0] = <<>> /\ \A i \in 1..n :
        F[i] = IF s[i] \in S THEN Append(F[i - 1], s[i]) ELSE F[i - 1]
  <2>1. 0 \in 0..n /\ \A i \in 1..n : i \in 0..n /\ i # 0
    BY <1>0
  <2>. HIDE DEF n
  <2>. QED  BY <1>4, <2>1
<1>. QED  BY <1>2, <1>5

\* t is what the first k elements of s leave in S: g gives each its place in s.
Picks(t, s, S, k) ==
  \E g \in [1..Len(t) -> 1..k] :
    /\ \A a \in 1..Len(t) : t[a] = s[g[a]] /\ s[g[a]] \in S
    /\ \A a, b \in 1..Len(t) : a < b => g[a] < g[b]
    /\ \A i \in 1..k : s[i] \in S => \E a \in 1..Len(t) : g[a] = i

LEMMA PicksBy ==
  ASSUME NEW t, NEW s, NEW S, NEW k, NEW n, Len(t) = n, NEW g \in [1..n -> 1..k],
         \A a \in 1..n : t[a] = s[g[a]] /\ s[g[a]] \in S,
         \A a, b \in 1..n : a < b => g[a] < g[b],
         \A i \in 1..k : s[i] \in S => \E a \in 1..n : g[a] = i
  PROVE  Picks(t, s, S, k)
BY Zenon DEF Picks

LEMMA PicksMore ==
  ASSUME NEW T, NEW t \in Seq(T), NEW s, NEW S, NEW k \in Nat, Picks(t, s, S, k), s[k + 1] \in T
  PROVE  /\ s[k + 1] \in S => Picks(Append(t, s[k + 1]), s, S, k + 1)
         /\ s[k + 1] \notin S => Picks(t, s, S, k + 1)
<1>. DEFINE m == Len(t)
<1>0. m \in Nat
  OBVIOUS
<1>1. PICK g \in [1..m -> 1..k] :
        /\ \A a \in 1..m : t[a] = s[g[a]] /\ s[g[a]] \in S
        /\ \A a, b \in 1..m : a < b => g[a] < g[b]
        /\ \A i \in 1..k : s[i] \in S => \E a \in 1..m : g[a] = i
  BY DEF Picks
<1>2. ASSUME s[k + 1] \notin S
      PROVE  Picks(t, s, S, k + 1)
  <2>. HIDE DEF m
  <2>1. g \in [1..m -> 1..(k + 1)]
    BY <1>1
  <2>2. ASSUME NEW i \in 1..(k + 1), s[i] \in S  PROVE \E a \in 1..m : g[a] = i
    <3>1. i \in 1..k
      BY <1>2, <2>2
    <3>. QED  BY <1>1, <2>2, <3>1
  <2>. QED  BY <1>1, <2>1, <2>2 DEF Picks, m
<1>3. ASSUME s[k + 1] \in S
      PROVE  Picks(Append(t, s[k + 1]), s, S, k + 1)
  <2>. DEFINE u == Append(t, s[k + 1])
              h == [a \in 1..(m + 1) |-> IF a = m + 1 THEN k + 1 ELSE g[a]]
  <2>1. /\ Len(u) = m + 1 /\ u[m + 1] = s[k + 1] /\ \A a \in 1..m : u[a] = t[a]
    OBVIOUS
  <2>. HIDE DEF m, u
  <2>2. h \in [1..(m + 1) -> 1..(k + 1)]
    BY <1>0, <1>1
  <2>3. h[m + 1] = k + 1 /\ \A a \in 1..m : h[a] = g[a] /\ g[a] \in 1..k
    BY <1>0, <1>1
  <2>. HIDE DEF h
  <2>4. \A a \in 1..(m + 1) : a = m + 1 \/ a \in 1..m
    BY <1>0
  <2>5. \A a \in 1..(m + 1) : u[a] = s[h[a]] /\ s[h[a]] \in S
    BY <1>1, <1>3, <2>1, <2>3, <2>4
  <2>6. ASSUME NEW a \in 1..(m + 1), NEW b \in 1..(m + 1), a < b
        PROVE  h[a] < h[b]
    <3>1. a \in 1..m
      BY <1>0, <2>6
    <3>2. CASE b = m + 1
      BY <2>3, <3>1, <3>2
    <3>3. CASE b \in 1..m
      BY <1>1, <2>3, <2>6, <3>1, <3>3
    <3>. QED  BY <2>4, <3>2, <3>3
  <2>7. ASSUME NEW i \in 1..(k + 1), s[i] \in S  PROVE \E a \in 1..(m + 1) : h[a] = i
    <3>1. CASE i = k + 1
      BY <1>0, <2>3, <3>1
    <3>2. CASE i # k + 1
      <4>1. PICK a \in 1..m : g[a] = i
        BY <1>1, <2>7, <3>2
      <4>2. a \in 1..(m + 1)
        BY <1>0, <4>1
      <4>3. h[a] = i
        BY <2>3, <4>1
      <4>. QED  BY <4>2, <4>3
    <3>. QED  BY <3>1, <3>2
  <2>8. Picks(u, s, S, k + 1)
    BY <2>1, <2>2, <2>5, <2>6, <2>7, PicksBy
  <2>. QED  BY <2>8 DEF u
<1>. QED  BY <1>2, <1>3

\* Only keeps the elements of s in S, and their order.
LEMMA OnlyPicks ==
  ASSUME NEW T, NEW s \in Seq(T), NEW S
  PROVE  Only(s, S) \in Seq(T) /\ Picks(Only(s, S), s, S, Len(s))
<1>. DEFINE n == Len(s)
<1>1. PICK F : /\ Only(s, S) = F[n] /\ F[0] = <<>>
               /\ \A i \in 1..n : F[i] = IF s[i] \in S THEN Append(F[i - 1], s[i]) ELSE F[i - 1]
  BY SieveRows
<1>. DEFINE G == {k \in 0..n : F[k] \in Seq(T) /\ Picks(F[k], s, S, k)}
<1>0. n \in Nat /\ \A i \in 1..n : s[i] \in T
  OBVIOUS
<1>. HIDE DEF n
<1>2. 0 \in G
  <2>1. <<>> \in Seq(T) /\ Len(<<>>) = 0
    OBVIOUS
  <2>2. Picks(<<>>, s, S, 0)
    <3>. DEFINE g == [a \in 1..0 |-> 1]
    <3>1. g \in [1..0 -> 1..0] /\ \A a \in 1..0 : FALSE
      OBVIOUS
    <3>. HIDE DEF g
    <3>. QED  BY <2>1, <3>1, PicksBy
  <2>3. 0 \in 0..n /\ F[0] \in Seq(T) /\ Picks(F[0], s, S, 0)
    BY <1>0, <1>1, <2>1, <2>2
  <2>. QED  BY <2>3
<1>3. ASSUME NEW k \in 0..n, k + 1 <= n, k \in G  PROVE k + 1 \in G
  <2>1. k + 1 \in 1..n /\ k + 1 \in 0..n /\ (k + 1) - 1 = k /\ k \in Nat
    BY <1>0, <1>3
  <2>2. F[k + 1] = IF s[k + 1] \in S THEN Append(F[k], s[k + 1]) ELSE F[k]
    BY <1>1, <2>1
  <2>3. F[k] \in Seq(T) /\ Picks(F[k], s, S, k) /\ s[k + 1] \in T
    BY <1>0, <1>3, <2>1
  <2>4. /\ s[k + 1] \in S => Picks(Append(F[k], s[k + 1]), s, S, k + 1)
        /\ s[k + 1] \notin S => Picks(F[k], s, S, k + 1)
    BY <2>1, <2>3, PicksMore
  <2>5. F[k + 1] \in Seq(T) /\ Picks(F[k + 1], s, S, k + 1)
    BY <2>2, <2>3, <2>4
  <2>. QED  BY <2>1, <2>5
<1>. HIDE DEF G
<1>4. \A k \in 0..n : k \in G
  BY <1>0, <1>2, <1>3, CountUp
<1>5. n \in G
  BY <1>0, <1>4
<1>. QED  BY <1>1, <1>5 DEF G, n

-----------------------------------------------------------------------------
(* order lists the entries.                                                *)

Listed(s) == {s[i] : i \in DOMAIN s}
Once(s) == \A i, j \in DOMAIN s : s[i] = s[j] => i = j

OrderInv ==
  /\ order \in Seq(Ids) /\ Once(order) /\ Listed(order) = DOMAIN entries
  /\ IsFiniteSet(DOMAIN entries) /\ Cardinality(DOMAIN entries) <= Capacity

\* What Only leaves of a sequence without repetition.
LEMMA OnlyListed ==
  ASSUME NEW T, NEW s \in Seq(T), Once(s), NEW S
  PROVE  /\ Only(s, S) \in Seq(T) /\ Once(Only(s, S))
         /\ Listed(Only(s, S)) = Listed(s) \cap S
<1>. DEFINE t == Only(s, S)
<1>1. t \in Seq(T) /\ Picks(t, s, S, Len(s))
  BY OnlyPicks
<1>. HIDE DEF t
<1>2. DOMAIN t = 1..Len(t) /\ DOMAIN s = 1..Len(s) /\ Len(t) \in Nat /\ Len(s) \in Nat
  BY <1>1
<1>3. PICK g \in [1..Len(t) -> 1..Len(s)] :
        /\ \A a \in 1..Len(t) : t[a] = s[g[a]] /\ s[g[a]] \in S
        /\ \A a, b \in 1..Len(t) : a < b => g[a] < g[b]
        /\ \A i \in 1..Len(s) : s[i] \in S => \E a \in 1..Len(t) : g[a] = i
  BY <1>1 DEF Picks
<1>4. ASSUME NEW a \in 1..Len(t), NEW b \in 1..Len(t), t[a] = t[b]  PROVE a = b
  <2>1. g[a] = g[b]
    BY <1>2, <1>3, <1>4 DEF Once
  <2>2. g[a] \in 1..Len(s) /\ g[b] \in 1..Len(s)
    OBVIOUS
  <2>3. (a < b => g[a] < g[b]) /\ (b < a => g[b] < g[a])
    BY <1>3
  <2>4. ~(a < b) /\ ~(b < a)
    BY ONLY <1>2, <2>1, <2>2, <2>3
  <2>. QED  BY <1>2, <2>4
<1>5. Listed(t) = Listed(s) \cap S
  <2>1. \A x \in Listed(t) : x \in Listed(s) /\ x \in S
    BY <1>2, <1>3 DEF Listed
  <2>2. ASSUME NEW x \in Listed(s), x \in S  PROVE x \in Listed(t)
    <3>1. PICK i \in 1..Len(s) : x = s[i]
      BY <1>2 DEF Listed
    <3>2. PICK a \in 1..Len(t) : g[a] = i
      BY <1>3, <2>2, <3>1
    <3>. QED  BY <1>2, <1>3, <3>1, <3>2 DEF Listed
  <2>. QED  BY <2>1, <2>2
<1>. QED  BY <1>1, <1>2, <1>4, <1>5 DEF Once, t

\* A full memory makes room at the head of order.
LEMMA OldestIsFirst ==
  ASSUME OrderInv, Full
  PROVE  /\ Oldest = 1 /\ Len(order) \in Nat \ {0} /\ order[1] \in DOMAIN entries
         /\ order[1] \in Ids
<1>1. order \in Seq(Ids) /\ Len(order) \in Nat /\ DOMAIN order = 1..Len(order)
  BY DEF OrderInv
<1>2. DOMAIN entries # {}
  BY FS_EmptySet, MarksAssumption DEF Full
<1>3. Len(order) # 0
  BY <1>1, <1>2 DEF OrderInv, Listed
<1>4. 1 \in 1..Len(order) /\ order[1] \in DOMAIN entries
  BY <1>1, <1>3 DEF OrderInv, Listed
<1>5. \A i \in DOMAIN order :
        (order[i] \in DOMAIN entries /\ \A j \in 1..(i - 1) : order[j] \notin DOMAIN entries) => i = 1
  <2>. SUFFICES ASSUME NEW i \in DOMAIN order, i # 1,
                       \A j \in 1..(i - 1) : order[j] \notin DOMAIN entries
                PROVE  FALSE
    OBVIOUS
  <2>1. 1 \in 1..(i - 1)
    BY <1>1
  <2>. QED  BY <1>4, <2>1
<1>6. \A j \in 1..(1 - 1) : FALSE
  OBVIOUS
<1>7. Oldest = 1
  BY <1>1, <1>4, <1>5, <1>6 DEF Oldest
<1>. QED  BY <1>1, <1>3, <1>4, <1>7

\* What is left when the head is dropped.
LEMMA TailListed ==
  ASSUME NEW T, NEW s \in Seq(T), Once(s), Len(s) # 0
  PROVE  LET t == SubSeq(s, 2, Len(s))
         IN /\ t \in Seq(T) /\ Once(t) /\ Listed(t) = Listed(s) \ {s[1]}
            /\ Len(t) = Len(s) - 1 /\ \A i \in 1..Len(t) : t[i] = s[i + 1]
<1>. DEFINE n == Len(s)
            t == SubSeq(s, 2, n)
<1>1. n \in Nat \ {0} /\ DOMAIN s = 1..n
  OBVIOUS
<1>2. t \in Seq(T) /\ Len(t) = n - 1 /\ \A i \in 1..(n - 1) : t[i] = s[i + 1]
  BY <1>1
<1>3. DOMAIN t = 1..(n - 1)
  BY <1>2
<1>. HIDE DEF t, n
<1>4. Once(t)
  <2>. SUFFICES ASSUME NEW i \in 1..(n - 1), NEW j \in 1..(n - 1), t[i] = t[j]
                PROVE  i = j
    BY <1>3 DEF Once
  <2>1. i + 1 \in 1..n /\ j + 1 \in 1..n /\ s[i + 1] = s[j + 1]
    BY <1>1, <1>2
  <2>2. i + 1 = j + 1
    BY <1>1, <2>1 DEF Once
  <2>. QED  BY <1>1, <2>2
<1>5. Listed(t) = Listed(s) \ {s[1]}
  <2>1. ASSUME NEW i \in 1..(n - 1)  PROVE t[i] \in Listed(s) /\ t[i] # s[1]
    <3>1. i + 1 \in 1..n /\ i + 1 # 1 /\ 1 \in 1..n /\ t[i] = s[i + 1]
      BY <1>1, <1>2
    <3>. QED  BY <1>1, <3>1 DEF Once, Listed
  <2>2. ASSUME NEW i \in 1..n, s[i] # s[1]  PROVE s[i] \in Listed(t)
    <3>1. i - 1 \in 1..(n - 1) /\ (i - 1) + 1 = i
      BY <1>1, <2>2
    <3>2. t[i - 1] = s[i]
      BY <1>2, <3>1
    <3>. QED  BY <1>3, <3>1, <3>2 DEF Listed
  <2>. QED  BY <1>1, <1>3, <2>1, <2>2 DEF Listed
<1>. QED  BY <1>1, <1>2, <1>4, <1>5 DEF t, n

LEMMA AppendListed ==
  ASSUME NEW T, NEW s \in Seq(T), Once(s), NEW x \in T, x \notin Listed(s)
  PROVE  /\ Append(s, x) \in Seq(T) /\ Once(Append(s, x))
         /\ Listed(Append(s, x)) = Listed(s) \cup {x}
<1>. DEFINE n == Len(s)
            t == Append(s, x)
<1>1. n \in Nat /\ DOMAIN s = 1..n
  OBVIOUS
<1>2. t \in Seq(T) /\ DOMAIN t = 1..(n + 1) /\ t[n + 1] = x /\ \A i \in 1..n : t[i] = s[i]
  OBVIOUS
<1>. HIDE DEF t, n
<1>3. \A i \in 1..(n + 1) : i = n + 1 \/ i \in 1..n
  BY <1>1
<1>4. Once(t)
  <2>. SUFFICES ASSUME NEW i \in 1..(n + 1), NEW j \in 1..(n + 1), t[i] = t[j]
                PROVE  i = j
    BY <1>2 DEF Once
  <2>1. CASE i \in 1..n /\ j \in 1..n
    BY <1>1, <1>2, <2>1 DEF Once
  <2>2. CASE i \in 1..n /\ j = n + 1
    BY <1>1, <1>2, <2>2 DEF Listed
  <2>3. CASE i = n + 1 /\ j \in 1..n
    BY <1>1, <1>2, <2>3 DEF Listed
  <2>. QED  BY <1>3, <2>1, <2>2, <2>3
<1>5. Listed(t) = Listed(s) \cup {x}
  <2>1. \A i \in 1..(n + 1) : t[i] \in Listed(s) \cup {x}
    BY <1>1, <1>2, <1>3 DEF Listed
  <2>2. \A i \in 1..n : i \in 1..(n + 1)
    BY <1>1
  <2>3. n + 1 \in 1..(n + 1)
    BY <1>1
  <2>. QED  BY <1>1, <1>2, <2>1, <2>2, <2>3 DEF Listed
<1>. QED  BY <1>2, <1>4, <1>5 DEF t

LEMMA OrderEmission ==
  ASSUME OrderInv, NEW id \in Ids, NEW ok, MarkKnown(id, ok) \/ MarkNew(id, ok)
  PROVE  OrderInv'
<1>1. CASE MarkKnown(id, ok)
  <2>1. order' = order /\ DOMAIN entries' = DOMAIN entries
    BY <1>1 DEF MarkKnown, With
  <2>. QED  BY <2>1 DEF OrderInv, Once, Listed
<1>2. CASE MarkNew(id, ok) /\ ~Full
  <2>1. order' = Append(order, id) /\ DOMAIN entries' = DOMAIN entries \cup {id}
        /\ id \notin DOMAIN entries
    BY <1>2 DEF MarkNew, With
  <2>2. /\ order' \in Seq(Ids) /\ Once(order')
        /\ Listed(order') = DOMAIN entries'
    BY <2>1, AppendListed DEF OrderInv
  <2>3. IsFiniteSet(DOMAIN entries') /\ Cardinality(DOMAIN entries') = Cardinality(DOMAIN entries) + 1
    BY <2>1, FS_AddElement DEF OrderInv
  <2>4. Cardinality(DOMAIN entries) \in Nat /\ ~(Cardinality(DOMAIN entries) >= Capacity)
    BY <1>2, FS_CardinalityType DEF OrderInv, Full
  <2>5. Cardinality(DOMAIN entries') <= Capacity
    BY <2>3, <2>4, MarksAssumption
  <2>. QED  BY <2>2, <2>3, <2>5 DEF OrderInv, Once, Listed
<1>3. CASE MarkNew(id, ok) /\ Full
  <2>. DEFINE old == order[1]
              rest == SubSeq(order, 2, Len(order))
  <2>1. Oldest = 1 /\ Len(order) # 0 /\ old \in DOMAIN entries
    BY <1>3, OldestIsFirst
  <2>2. order' = Append(rest, id) /\ DOMAIN entries' = (DOMAIN entries \ {old}) \cup {id}
        /\ id \notin DOMAIN entries
    BY <1>3, <2>1 DEF MarkNew, With, Without
  <2>3. rest \in Seq(Ids) /\ Once(rest) /\ Listed(rest) = DOMAIN entries \ {old}
    BY <2>1, TailListed DEF OrderInv
  <2>. HIDE DEF rest, old
  <2>4. /\ order' \in Seq(Ids) /\ Once(order')
        /\ Listed(order') = DOMAIN entries'
    BY <2>2, <2>3, AppendListed
  <2>5. /\ IsFiniteSet(DOMAIN entries \ {old})
        /\ Cardinality(DOMAIN entries \ {old}) = Cardinality(DOMAIN entries) - 1
    BY <2>1, FS_RemoveElement DEF OrderInv
  <2>6. /\ IsFiniteSet(DOMAIN entries')
        /\ Cardinality(DOMAIN entries') = Cardinality(DOMAIN entries \ {old}) + 1
    BY <2>2, <2>5, FS_AddElement
  <2>7. Cardinality(DOMAIN entries) \in Nat
    BY FS_CardinalityType DEF OrderInv
  <2>8. Cardinality(DOMAIN entries') = Cardinality(DOMAIN entries)
    BY <2>5, <2>6, <2>7
  <2>. QED  BY <2>4, <2>6, <2>8 DEF OrderInv, Once, Listed
<1>. QED  BY <1>1, <1>2, <1>3

LEMMA OrderStep == OrderInv /\ [MarksNext]_marks => OrderInv'
<1>. SUFFICES ASSUME OrderInv, [MarksNext]_marks  PROVE OrderInv'
  OBVIOUS
<1>1. CASE order' = order /\ DOMAIN entries' = DOMAIN entries
  BY <1>1 DEF OrderInv, Once, Listed
<1>2. ASSUME NEW id \in Ids, NEW registered, NEW tried, NEW ok,
             Emission(id, registered, tried, ok)
      PROVE  OrderInv'
  BY <1>1, <1>2, OrderEmission DEF Emission
<1>3. CASE SweepMarks
  <2>1. order' = Only(order, Unexpired) /\ DOMAIN entries' = Unexpired
    BY <1>3 DEF SweepMarks
  <2>2. Unexpired \subseteq DOMAIN entries
    BY DEF Unexpired
  <2>3. order' \in Seq(Ids) /\ Once(order') /\ Listed(order') = DOMAIN entries'
    <3>1. order \in Seq(Ids) /\ Once(order) /\ Listed(order) = DOMAIN entries
      BY DEF OrderInv
    <3>2. /\ Only(order, Unexpired) \in Seq(Ids) /\ Once(Only(order, Unexpired))
          /\ Listed(Only(order, Unexpired)) = Listed(order) \cap Unexpired
      BY <3>1, OnlyListed
    <3>3. Listed(order) \cap Unexpired = Unexpired
      BY <2>2, <3>1
    <3>. QED  BY <2>1, <3>2, <3>3
  <2>4. /\ IsFiniteSet(DOMAIN entries')
        /\ Cardinality(DOMAIN entries') <= Cardinality(DOMAIN entries)
    BY <2>1, <2>2, FS_Subset DEF OrderInv
  <2>5. Cardinality(DOMAIN entries') \in Nat /\ Cardinality(DOMAIN entries) \in Nat
    BY <2>4, FS_CardinalityType DEF OrderInv
  <2>6. Cardinality(DOMAIN entries') <= Capacity
    BY <2>4, <2>5, MarksAssumption DEF OrderInv
  <2>. QED  BY <2>3, <2>4, <2>6 DEF OrderInv, Once, Listed
<1>4. CASE AgeMarks
  BY <1>1, <1>4 DEF AgeMarks
<1>5. CASE ForgetMarks
  <2>1. order' = <<>> /\ DOMAIN entries' = {}
    BY <1>5 DEF ForgetMarks
  <2>2. IsFiniteSet({}) /\ Cardinality({}) = 0
    BY FS_EmptySet
  <2>. QED  BY <2>1, <2>2, MarksAssumption DEF OrderInv, Once, Listed
<1>6. CASE UNCHANGED marks
  BY <1>1, <1>6 DEF marks
<1>. QED  BY <1>2, <1>3, <1>4, <1>5, <1>6 DEF MarksNext

LEMMA NoMarksOrder == NoMarks => OrderInv
<1>. SUFFICES ASSUME NoMarks  PROVE OrderInv
  OBVIOUS
<1>1. order = <<>> /\ DOMAIN entries = {}
  BY DEF NoMarks
<1>2. IsFiniteSet({}) /\ Cardinality({}) = 0
  BY FS_EmptySet
<1>. QED  BY <1>1, <1>2, MarksAssumption DEF OrderInv, Once, Listed

\* order lists exactly the ids with an entry, each once, and there are never
\* more than Capacity, whatever is marked, evicted and swept (dedupe.go:62-125).
THEOREM OrderMatchesEntriesCorrect == MarksSpec => []OrderMatchesEntries
<1>1. OrderInv => OrderMatchesEntries
  BY DEF OrderInv, OrderMatchesEntries, Once, Listed
<1>. QED  BY <1>1, NoMarksOrder, OrderStep, PTL DEF MarksSpec

-----------------------------------------------------------------------------
(* The crowd behind a message.                                             *)

\* A webhook that took a message within TTL is among its marks, they are no
\* older than that, and all that is behind the message is in its crowd.
Remembered(id, w) ==
  /\ id \in DOMAIN entries /\ w \in entries[id].webhooks
  /\ entries[id].age <= held[<<id, w>>]
  /\ Behind(id) \subseteq crowd[<<id, w>>]

CrowdInv ==
  /\ crowd \in [Pairs -> SUBSET Ids] /\ \A p \in Pairs : IsFiniteSet(crowd[p])
  /\ \A id \in Ids, w \in Webhooks :
       held[<<id, w>>] < TTL => Remembered(id, w) \/ Cardinality(crowd[<<id, w>>]) >= Capacity

\* What comes after x in s.
After(s, x) == {s[j] : j \in {j \in DOMAIN s : \E i \in 1..(j - 1) : s[i] = x}}

LEMMA AfterOnly ==
  ASSUME NEW T, NEW s \in Seq(T), NEW S, NEW x
  PROVE  After(Only(s, S), x) \subseteq After(s, x)
<1>. DEFINE t == Only(s, S)
<1>1. t \in Seq(T) /\ Picks(t, s, S, Len(s))
  BY OnlyPicks
<1>. HIDE DEF t
<1>2. DOMAIN t = 1..Len(t) /\ DOMAIN s = 1..Len(s) /\ Len(t) \in Nat /\ Len(s) \in Nat
  BY <1>1
<1>3. PICK g \in [1..Len(t) -> 1..Len(s)] :
        /\ \A a \in 1..Len(t) : t[a] = s[g[a]] /\ s[g[a]] \in S
        /\ \A a, b \in 1..Len(t) : a < b => g[a] < g[b]
  BY <1>1 DEF Picks
<1>4. ASSUME NEW b \in 1..Len(t), NEW a \in 1..(b - 1), t[a] = x  PROVE t[b] \in After(s, x)
  <2>1. a \in 1..Len(t) /\ a < b
    BY <1>2
  <2>2. PICK i \in 1..Len(s), j \in 1..Len(s) : i = g[a] /\ j = g[b]
    BY <1>3, <2>1
  <2>3. t[b] = s[j] /\ s[i] = x /\ i < j
    BY <1>3, <1>4, <2>1, <2>2
  <2>4. i \in 1..(j - 1)
    BY <1>2, <2>3
  <2>. QED  BY <1>2, <2>3, <2>4 DEF After
<1>. QED  BY <1>2, <1>4 DEF After, t

LEMMA AfterAppend ==
  ASSUME NEW T, NEW s \in Seq(T), NEW x, NEW y \in T
  PROVE  /\ After(Append(s, y), x) \subseteq After(s, x) \cup {y}
         /\ x \notin Listed(s) => After(Append(s, y), x) = {}
<1>. DEFINE n == Len(s)
            t == Append(s, y)
<1>1. n \in Nat /\ DOMAIN s = 1..n
  OBVIOUS
<1>2. t \in Seq(T) /\ DOMAIN t = 1..(n + 1) /\ t[n + 1] = y /\ \A i \in 1..n : t[i] = s[i]
  OBVIOUS
<1>. HIDE DEF t, n
<1>3. ASSUME NEW j \in 1..(n + 1), NEW i \in 1..(j - 1), t[i] = x
      PROVE  t[j] \in After(s, x) \cup {y} /\ x \in Listed(s)
  <2>1. i \in 1..n /\ s[i] = x
    BY <1>1, <1>2, <1>3
  <2>2. CASE j = n + 1
    BY <1>1, <1>2, <2>1, <2>2 DEF Listed
  <2>3. CASE j # n + 1
    <3>1. j \in 1..n /\ t[j] = s[j]
      BY <1>1, <1>2, <2>3
    <3>. QED  BY <1>1, <2>1, <3>1 DEF After, Listed
  <2>. QED  BY <2>2, <2>3
<1>. QED  BY <1>2, <1>3 DEF After, t

LEMMA AfterTail ==
  ASSUME NEW T, NEW s \in Seq(T), Len(s) # 0, NEW x
  PROVE  After(SubSeq(s, 2, Len(s)), x) \subseteq After(s, x)
<1>. DEFINE n == Len(s)
            t == SubSeq(s, 2, n)
<1>1. n \in Nat \ {0} /\ DOMAIN s = 1..n
  OBVIOUS
<1>2. t \in Seq(T) /\ Len(t) = n - 1 /\ \A i \in 1..(n - 1) : t[i] = s[i + 1]
  BY <1>1
<1>3. DOMAIN t = 1..(n - 1)
  BY <1>2
<1>. HIDE DEF t, n
<1>4. ASSUME NEW j \in 1..(n - 1), NEW i \in 1..(j - 1), t[i] = x  PROVE t[j] \in After(s, x)
  <2>1. i \in 1..(n - 1) /\ i + 1 \in 1..((j + 1) - 1) /\ j + 1 \in 1..n
    BY <1>1
  <2>2. s[i + 1] = x /\ t[j] = s[j + 1]
    BY <1>2, <1>4, <2>1
  <2>. QED  BY <1>1, <2>1, <2>2 DEF After
<1>. QED  BY <1>3, <1>4 DEF After, t

\* Behind the first id are all the others.
LEMMA AfterFirst ==
  ASSUME NEW T, NEW s \in Seq(T), Len(s) # 0
  PROVE  Listed(s) \ {s[1]} \subseteq After(s, s[1])
<1>1. DOMAIN s = 1..Len(s) /\ Len(s) \in Nat
  OBVIOUS
<1>2. ASSUME NEW j \in 1..Len(s), s[j] # s[1]  PROVE s[j] \in After(s, s[1])
  <2>1. 1 \in 1..(j - 1)
    BY <1>1, <1>2
  <2>. QED  BY <1>1, <2>1 DEF After
<1>. QED  BY <1>1, <1>2 DEF Listed

LEMMA AfterListed ==
  ASSUME NEW s, NEW x  PROVE After(s, x) \subseteq Listed(s)
BY DEF After, Listed

LEMMA BehindIsAfter == \A id : Behind(id) = After(order, id)
BY DEF Behind, After

\* A crowd that grows keeps its size.
LEMMA CrowdGrows ==
  ASSUME NEW c, NEW d, IsFiniteSet(d), c \subseteq d, Cardinality(c) >= Capacity
  PROVE  Cardinality(d) >= Capacity
<1>1. IsFiniteSet(c) /\ Cardinality(c) <= Cardinality(d)
  BY FS_Subset
<1>2. Cardinality(c) \in Nat /\ Cardinality(d) \in Nat
  BY <1>1, FS_CardinalityType
<1>. QED  BY <1>1, <1>2, MarksAssumption

\* The id that makes room had all the others behind it, and the new one comes
\* behind it too.
LEMMA EvictedHasCrowd ==
  ASSUME OrderInv, Full, NEW id, id \notin DOMAIN entries,
         NEW c, IsFiniteSet(c), Behind(order[1]) \subseteq c
  PROVE  Cardinality(c \cup {id}) >= Capacity
<1>. DEFINE others == DOMAIN entries \ {order[1]}
<1>1. Len(order) # 0 /\ order[1] \in DOMAIN entries
  BY OldestIsFirst
<1>2. IsFiniteSet(others) /\ Cardinality(others) = Cardinality(DOMAIN entries) - 1
  BY <1>1, FS_RemoveElement DEF OrderInv
<1>3. id \notin others
  OBVIOUS
<1>4. IsFiniteSet(others \cup {id}) /\ Cardinality(others \cup {id}) = Cardinality(others) + 1
  BY <1>2, <1>3, FS_AddElement
<1>5. Cardinality(DOMAIN entries) \in Nat /\ Cardinality(DOMAIN entries) >= Capacity
  BY FS_CardinalityType DEF OrderInv, Full
<1>6. Cardinality(others \cup {id}) >= Capacity
  BY <1>2, <1>4, <1>5, MarksAssumption
<1>7. others \subseteq c
  <2>1. Listed(order) \ {order[1]} \subseteq After(order, order[1])
    BY <1>1, AfterFirst DEF OrderInv
  <2>. QED  BY <2>1, BehindIsAfter DEF OrderInv
<1>8. IsFiniteSet(c \cup {id})
  BY FS_AddElement
<1>. HIDE DEF others
<1>. QED  BY <1>6, <1>7, <1>8, CrowdGrows

LEMMA HeldAfter ==
  ASSUME NEW id \in Ids, NEW tried \in SUBSET Webhooks, NEW ok \in SUBSET tried,
         NEW registered, Emission(id, registered, tried, ok), NEW x \in Ids, NEW w \in Webhooks
  PROVE  /\ x # id \/ w \notin tried => held'[<<x, w>>] = held[<<x, w>>]
         /\ x = id /\ w \in ok => held'[<<x, w>>] = 0
         /\ x = id /\ w \in tried \ ok => held'[<<x, w>>] = Never
<1>1. held' = [p \in Pairs |-> IF p \in {id} \X ok THEN 0
                               ELSE IF p \in {id} \X tried THEN Never ELSE held[p]]
  BY DEF Emission
<1>. QED  BY <1>1 DEF Pairs

\* Every crowd is finite.
LEMMA CrowdFinite ==
  ASSUME OrderInv, CrowdInv, NEW id \in Ids, NEW tried \in SUBSET Webhooks, NEW ok \in SUBSET tried,
         NEW registered, Emission(id, registered, tried, ok)
  PROVE  crowd' \in [Pairs -> SUBSET Ids] /\ \A p \in Pairs : IsFiniteSet(crowd'[p])
<1>1. IsFiniteSet(Behind(id)) /\ Behind(id) \subseteq Ids
  <2>1. Behind(id) \subseteq Listed(order) /\ Listed(order) \subseteq Ids
    BY BehindIsAfter, AfterListed DEF OrderInv, Listed
  <2>. QED  BY <2>1, FS_Subset DEF OrderInv
<1>2. \A p \in Pairs : IsFiniteSet(crowd[p] \cup ({id} \ {p[1]}))
  <2>. SUFFICES ASSUME NEW p \in Pairs  PROVE IsFiniteSet(crowd[p] \cup ({id} \ {p[1]}))
    OBVIOUS
  <2>1. IsFiniteSet(crowd[p]) /\ IsFiniteSet({id})
    BY FS_Singleton DEF CrowdInv
  <2>2. IsFiniteSet({id} \ {p[1]})
    BY <2>1, FS_Subset
  <2>. QED  BY <2>1, <2>2, FS_Union
<1>3. IsFiniteSet({})
  BY FS_EmptySet
<1>4. CASE ok = {}
  BY <1>4 DEF Emission, CrowdInv
<1>5. CASE MarkKnown(id, ok)
  <2>1. crowd' = [p \in Pairs |-> IF p \in {id} \X ok THEN Behind(id) ELSE crowd[p]]
    BY <1>5 DEF MarkKnown
  <2>2. \A p \in Pairs : crowd'[p] = Behind(id) \/ crowd'[p] = crowd[p]
    BY <2>1
  <2>. QED  BY <1>1, <2>1, <2>2 DEF CrowdInv
<1>6. CASE MarkNew(id, ok)
  <2>1. crowd' = [p \in Pairs |-> IF p \in {id} \X ok THEN {} ELSE crowd[p] \cup ({id} \ {p[1]})]
    BY <1>6 DEF MarkNew
  <2>2. \A p \in Pairs : crowd'[p] = {} \/ crowd'[p] = crowd[p] \cup ({id} \ {p[1]})
    BY <2>1
  <2>. QED  BY <1>2, <1>3, <2>1, <2>2 DEF CrowdInv
<1>. QED  BY <1>4, <1>5, <1>6 DEF Emission

\* The marks of a message that has an entry, when webhooks take it again.
LEMMA CrowdKnown ==
  ASSUME Inv, OrderInv, CrowdInv, NEW id \in Ids, NEW tried \in SUBSET Webhooks,
         NEW ok \in SUBSET tried, NEW registered, Emission(id, registered, tried, ok),
         MarkKnown(id, ok),
         NEW x \in Ids, NEW w \in Webhooks, held'[<<x, w>>] < TTL
  PROVE  Remembered(x, w)' \/ Cardinality(crowd'[<<x, w>>]) >= Capacity
<1>. DEFINE p == <<x, w>>
<1>1. /\ id \in DOMAIN entries /\ DOMAIN entries' = DOMAIN entries
      /\ entries'[id] = [webhooks |-> MarkedBefore(id) \cup ok, age |-> 0]
      /\ \A y \in DOMAIN entries : y # id => entries'[y] = entries[y]
  BY DEF MarkKnown, With
<1>2. /\ crowd' = [q \in Pairs |-> IF q \in {id} \X ok THEN Behind(id) ELSE crowd[q]]
      /\ order' = order
  BY DEF MarkKnown
<1>3. p \in Pairs /\ (p \in {id} \X ok <=> x = id /\ w \in ok)
  BY DEF Pairs
<1>4. Behind(x)' = Behind(x)
  BY <1>2 DEF Behind
<1>5. held[p] \in 0..Never /\ TTL \in Nat /\ Never = TTL + 1
  BY <1>3, MarksAssumption DEF Inv, EntriesInv, Never
<1>6. CASE x = id /\ w \in ok
  <2>1. crowd'[p] = Behind(id) /\ held'[p] = 0
    BY <1>2, <1>3, <1>6, HeldAfter
  <2>2. Remembered(x, w)'
    BY <1>1, <1>4, <1>6, <2>1 DEF Remembered
  <2>. QED  BY <2>2
<1>7. CASE ~(x = id /\ w \in ok)
  <2>1. crowd'[p] = crowd[p]
    BY <1>2, <1>3, <1>7
  <2>2. held'[p] = held[p] /\ held[p] < TTL
    <3>1. ~(Never < TTL)
      BY MarksAssumption DEF Never
    <3>2. held'[p] # Never
      BY <3>1
    <3>. QED  BY <1>7, <3>2, HeldAfter
  <2>3. CASE Cardinality(crowd[p]) >= Capacity
    BY <2>1, <2>3
  <2>4. CASE Remembered(x, w) /\ x # id
    <3>1. Remembered(x, w)'
      BY <1>1, <1>4, <2>1, <2>2, <2>4 DEF Remembered
    <3>. QED  BY <3>1
  <2>5. CASE Remembered(x, w) /\ x = id
    <3>1. entries[x].age \in Nat /\ entries[x].age <= held[p]
      BY <2>5 DEF Remembered, Inv, EntriesInv, Entry
    <3>2. entries[x].age < TTL
      BY <1>5, <2>2, <3>1
    <3>3. w \in MarkedBefore(id)
      BY <1>1, <2>5, <3>2 DEF MarkedBefore, Remembered
    <3>4. Remembered(x, w)'
      BY <1>1, <1>4, <1>5, <2>1, <2>2, <2>5, <3>3 DEF Remembered
    <3>. QED  BY <3>4
  <2>. QED  BY <2>2, <2>3, <2>4, <2>5 DEF CrowdInv
<1>. QED  BY <1>6, <1>7

\* A new message comes behind all others, and may push the first one out.
LEMMA CrowdNew ==
  ASSUME Inv, OrderInv, CrowdInv, NEW id \in Ids, NEW tried \in SUBSET Webhooks,
         NEW ok \in SUBSET tried, NEW registered, Emission(id, registered, tried, ok),
         MarkNew(id, ok),
         NEW x \in Ids, NEW w \in Webhooks, held'[<<x, w>>] < TTL
  PROVE  Remembered(x, w)' \/ Cardinality(crowd'[<<x, w>>]) >= Capacity
<1>. DEFINE p == <<x, w>>
            old == order[1]
            base == IF Full THEN Without(entries, old) ELSE entries
            rest == IF Full THEN SubSeq(order, 2, Len(order)) ELSE order
<1>1. Full => Oldest = 1 /\ Len(order) # 0
  BY OldestIsFirst
<1>2. /\ id \notin DOMAIN entries
      /\ entries' = With(base, id, [webhooks |-> ok, age |-> 0])
      /\ order' = Append(rest, id)
      /\ crowd' = [q \in Pairs |-> IF q \in {id} \X ok THEN {} ELSE crowd[q] \cup ({id} \ {q[1]})]
  BY <1>1 DEF MarkNew
<1>3. p \in Pairs /\ (p \in {id} \X ok <=> x = id /\ w \in ok) /\ p[1] = x
  BY DEF Pairs
<1>4. /\ DOMAIN base = IF Full THEN DOMAIN entries \ {old} ELSE DOMAIN entries
      /\ \A y \in DOMAIN base : base[y] = entries[y]
  BY DEF Without
<1>5. /\ rest \in Seq(Ids) /\ Listed(rest) \subseteq DOMAIN entries
      /\ After(rest, x) \subseteq After(order, x)
  BY <1>1, TailListed, AfterTail DEF OrderInv
<1>. HIDE DEF base, rest, old
<1>6. /\ DOMAIN entries' = DOMAIN base \cup {id}
      /\ entries'[id] = [webhooks |-> ok, age |-> 0]
      /\ \A y \in DOMAIN base : y # id => entries'[y] = base[y]
  BY <1>2 DEF With
<1>7. Behind(x)' = After(Append(rest, id), x)
  BY <1>2 DEF Behind, After
<1>8. held[p] \in 0..Never
  BY <1>3 DEF Inv, EntriesInv
<1>9. IsFiniteSet(crowd[p]) /\ IsFiniteSet(crowd'[p])
  BY <1>3, CrowdFinite DEF CrowdInv
<1>10. CASE x = id
  <2>1. Behind(x)' = {}
    BY <1>2, <1>5, <1>7, <1>10, AfterAppend
  <2>2. CASE w \in ok
    <3>1. held'[p] = 0
      BY <1>10, <2>2, HeldAfter
    <3>2. Remembered(x, w)'
      BY <1>6, <1>10, <2>1, <2>2, <3>1 DEF Remembered
    <3>. QED  BY <3>2
  <2>3. CASE w \notin ok
    <3>1. held'[p] = held[p] /\ held[p] < TTL
      <4>1. ~(Never < TTL)
        BY MarksAssumption DEF Never
      <4>2. held'[p] # Never
        BY <4>1
      <4>. QED  BY <1>10, <2>3, <4>2, HeldAfter
    <3>2. crowd'[p] = crowd[p]
      BY <1>2, <1>3, <1>10, <2>3
    <3>3. ~Remembered(x, w)
      BY <1>2, <1>10 DEF Remembered
    <3>. QED  BY <3>1, <3>2, <3>3 DEF CrowdInv
  <2>. QED  BY <2>2, <2>3
<1>11. CASE x # id
  <2>1. crowd'[p] = crowd[p] \cup {id}
    BY <1>2, <1>3, <1>11
  <2>2. held'[p] = held[p] /\ held[p] < TTL
    BY <1>11, HeldAfter
  <2>3. CASE Cardinality(crowd[p]) >= Capacity
    BY <1>9, <2>1, <2>3, CrowdGrows
  <2>4. CASE Remembered(x, w) /\ x \in DOMAIN base
    <3>1. entries'[x] = entries[x]
      BY <1>4, <1>6, <1>11, <2>4
    <3>2. Behind(x)' \subseteq crowd'[p]
      <4>1. After(Append(rest, id), x) \subseteq After(rest, x) \cup {id}
        BY <1>5, AfterAppend
      <4>2. After(order, x) \subseteq crowd[p]
        BY <2>4, BehindIsAfter DEF Remembered
      <4>. QED  BY <1>5, <1>7, <2>1, <4>1, <4>2
    <3>3. Remembered(x, w)'
      BY <1>6, <2>2, <2>4, <3>1, <3>2 DEF Remembered
    <3>. QED  BY <3>3
  <2>5. CASE Remembered(x, w) /\ x \notin DOMAIN base
    <3>1. Full /\ x = old
      BY <1>4, <2>5 DEF Remembered
    <3>2. Behind(order[1]) \subseteq crowd[p]
      BY <2>5, <3>1 DEF Remembered, old
    <3>3. Cardinality(crowd[p] \cup {id}) >= Capacity
      BY <1>2, <1>9, <3>1, <3>2, EvictedHasCrowd
    <3>. QED  BY <2>1, <3>3
  <2>. QED  BY <2>2, <2>3, <2>4, <2>5 DEF CrowdInv
<1>. QED  BY <1>10, <1>11

LEMMA CrowdEmission ==
  ASSUME Inv, OrderInv, CrowdInv, NEW id \in Ids, NEW registered,
         NEW tried \in SUBSET (Webhooks \ Served(id)),
         NEW ok \in SUBSET tried, Emission(id, registered, tried, ok)
  PROVE  CrowdInv'
<1>1. tried \in SUBSET Webhooks
  OBVIOUS
<1>2. crowd' \in [Pairs -> SUBSET Ids] /\ \A p \in Pairs : IsFiniteSet(crowd'[p])
  BY <1>1, CrowdFinite
<1>3. ASSUME NEW x \in Ids, NEW w \in Webhooks, held'[<<x, w>>] < TTL
      PROVE  Remembered(x, w)' \/ Cardinality(crowd'[<<x, w>>]) >= Capacity
  <2>1. CASE ok = {}
    <3>1. UNCHANGED <<entries, order, crowd>>
      BY <2>1 DEF Emission
    <3>2. held'[<<x, w>>] = held[<<x, w>>]
      BY <1>1, <1>3, <2>1, HeldAfter, MarksAssumption DEF Never
    <3>3. Remembered(x, w) => Remembered(x, w)'
      BY <3>1, <3>2 DEF Remembered, Behind
    <3>. QED  BY <1>3, <3>1, <3>2, <3>3 DEF CrowdInv
  <2>2. CASE MarkKnown(id, ok)
    BY <1>1, <1>3, <2>2, CrowdKnown
  <2>3. CASE MarkNew(id, ok)
    BY <1>1, <1>3, <2>3, CrowdNew
  <2>. QED  BY <2>1, <2>2, <2>3 DEF Emission
<1>. QED  BY <1>2, <1>3 DEF CrowdInv

LEMMA CrowdSweep == ASSUME Inv, OrderInv, CrowdInv, SweepMarks  PROVE CrowdInv'
<1>1. /\ entries' = [id \in Unexpired |-> entries[id]] /\ order' = Only(order, Unexpired)
      /\ UNCHANGED <<held, crowd>>
  BY DEF SweepMarks
<1>2. ASSUME NEW x \in Ids, NEW w \in Webhooks, held[<<x, w>>] < TTL, Remembered(x, w)
      PROVE  Remembered(x, w)'
  <2>1. /\ entries[x].age \in Nat /\ held[<<x, w>>] \in Nat /\ TTL \in Nat
        /\ entries[x].age <= held[<<x, w>>]
    BY <1>2, MarksAssumption DEF Remembered, Inv, EntriesInv, Entry, Pairs, Never
  <2>2. x \in Unexpired
    BY <1>2, <2>1 DEF Remembered, Unexpired
  <2>3. x \in DOMAIN entries' /\ entries'[x] = entries[x]
    BY <1>1, <2>2
  <2>4. Behind(x)' \subseteq Behind(x)
    <3>1. Behind(x)' = After(Only(order, Unexpired), x)
      BY <1>1 DEF Behind, After
    <3>. QED  BY <3>1, AfterOnly, BehindIsAfter DEF OrderInv
  <2>. QED  BY <1>1, <1>2, <2>3, <2>4 DEF Remembered
<1>3. crowd' \in [Pairs -> SUBSET Ids] /\ \A p \in Pairs : IsFiniteSet(crowd'[p])
  BY <1>1 DEF CrowdInv
<1>4. ASSUME NEW x \in Ids, NEW w \in Webhooks, held'[<<x, w>>] < TTL
      PROVE  Remembered(x, w)' \/ Cardinality(crowd'[<<x, w>>]) >= Capacity
  BY <1>1, <1>2, <1>4 DEF CrowdInv
<1>. QED  BY <1>3, <1>4 DEF CrowdInv

LEMMA CrowdAge == ASSUME Inv, CrowdInv, AgeMarks  PROVE CrowdInv'
<1>1. /\ entries' = [id \in DOMAIN entries |->
                       [entries[id] EXCEPT !.age = Older(entries[id].age, TTL)]]
      /\ held' = [p \in Pairs |-> IF held[p] = Never THEN Never ELSE Older(held[p], TTL)]
      /\ UNCHANGED <<order, crowd>>
  BY DEF AgeMarks
<1>2. crowd' \in [Pairs -> SUBSET Ids] /\ \A p \in Pairs : IsFiniteSet(crowd'[p])
  BY <1>1 DEF CrowdInv
<1>3. ASSUME NEW x \in Ids, NEW w \in Webhooks, held'[<<x, w>>] < TTL
      PROVE  Remembered(x, w)' \/ Cardinality(crowd'[<<x, w>>]) >= Capacity
  <2>1. PICK h \in 0..Never : held[<<x, w>>] = h
    BY DEF Inv, EntriesInv, Pairs
  <2>2. held'[<<x, w>>] = IF h = Never THEN Never ELSE Older(h, TTL)
    BY <1>1, <2>1 DEF Pairs
  <2>3. h < TTL /\ held'[<<x, w>>] = h + 1
    <3>1. PICK k : held'[<<x, w>>] = k
      OBVIOUS
    <3>2. k = (IF h = Never THEN Never ELSE Older(h, TTL)) /\ k < TTL
      BY <1>3, <2>2, <3>1
    <3>3. h < TTL /\ k = h + 1
      BY <3>2, MarksAssumption DEF Older, Never
    <3>. QED  BY <3>1, <3>3
  <2>4. CASE Remembered(x, w)
    <3>1. PICK e \in Entry : entries[x] = e
      BY <2>4 DEF Remembered, Inv, EntriesInv
    <3>2. e.age \in Nat /\ e.age <= h
      BY <2>1, <2>4, <3>1 DEF Remembered, Entry
    <3>3. entries'[x] = [webhooks |-> e.webhooks, age |-> Older(e.age, TTL)]
      BY <1>1, <2>4, <3>1 DEF Remembered, Entry
    <3>4. Older(e.age, TTL) <= h + 1
      BY <2>3, <3>2, MarksAssumption DEF Older
    <3>5. Behind(x)' = Behind(x)
      BY <1>1 DEF Behind
    <3>6. entries'[x].webhooks = entries[x].webhooks /\ entries'[x].age <= held'[<<x, w>>]
      BY <2>3, <3>1, <3>3, <3>4
    <3>7. Remembered(x, w)'
      BY <1>1, <2>4, <3>5, <3>6 DEF Remembered
    <3>. QED  BY <3>7
  <2>. QED  BY <1>1, <2>1, <2>3, <2>4 DEF CrowdInv
<1>. QED  BY <1>2, <1>3 DEF CrowdInv

LEMMA NobodyHolds ==
  /\ NoMarks => CrowdInv
  /\ ForgetMarks => CrowdInv'
<1>1. IsFiniteSet({})
  BY FS_EmptySet
<1>2. \A x \in Ids, w \in Webhooks : <<x, w>> \in Pairs
  BY DEF Pairs
<1>3. ~(Never < TTL)
  BY MarksAssumption DEF Never
<1>4. ASSUME NoMarks  PROVE CrowdInv
  <2>1. held = [p \in Pairs |-> Never] /\ crowd = [p \in Pairs |-> {}]
    BY <1>4 DEF NoMarks
  <2>. QED  BY <1>1, <1>2, <1>3, <2>1 DEF CrowdInv
<1>5. ASSUME ForgetMarks  PROVE CrowdInv'
  <2>1. held' = [p \in Pairs |-> Never] /\ crowd' = [p \in Pairs |-> {}]
    BY <1>5 DEF ForgetMarks
  <2>. QED  BY <1>1, <1>2, <1>3, <2>1 DEF CrowdInv
<1>. QED  BY <1>4, <1>5

LEMMA CrowdStep == Inv /\ OrderInv /\ CrowdInv /\ [MarksNext]_marks => CrowdInv'
<1>. SUFFICES ASSUME Inv, OrderInv, CrowdInv, [MarksNext]_marks  PROVE CrowdInv'
  OBVIOUS
<1>1. CASE UNCHANGED marks
  BY <1>1 DEF marks, CrowdInv, Remembered, Behind
<1>2. ASSUME NEW id, NEW registered, NEW ok, Emits(id, registered, ok)  PROVE CrowdInv'
  <2>1. registered \ Served(id) \in SUBSET (Webhooks \ Served(id))
    BY <1>2 DEF Emits
  <2>. QED  BY <1>2, <2>1, CrowdEmission DEF Emits
<1>. QED
  BY <1>1, <1>2, MarksCases, CrowdSweep, CrowdAge, NobodyHolds

\* A webhook that took a message is passed over for TTL, unless Capacity
\* messages came behind it (dedupe.go:62-69, :103-112).
THEOREM HeldIsRememberedCorrect == MarksSpec => []HeldIsRemembered
<1>1. ASSUME Inv, CrowdInv  PROVE HeldIsRemembered
  <2>. SUFFICES ASSUME NEW id \in Ids, NEW w \in Webhooks, held[<<id, w>>] < TTL,
                       Remembered(id, w)
                PROVE  w \in Served(id)
    BY <1>1 DEF CrowdInv, HeldIsRemembered
  <2>1. /\ entries[id].age \in Nat /\ held[<<id, w>>] \in Nat /\ TTL \in Nat
        /\ entries[id].age <= held[<<id, w>>]
    BY <1>1, MarksAssumption DEF Remembered, Inv, EntriesInv, Entry, Pairs, Never
  <2>. QED  BY <2>1 DEF Served, Remembered
<1>2. Inv /\ [MarksNext]_marks => Inv'
  BY StepInv
<1>. QED
  BY <1>1, <1>2, NoMarksInv, NoMarksOrder, NobodyHolds, OrderStep, CrowdStep, PTL DEF MarksSpec

\* The types: an entry's age never passes TTL, and nothing but known messages
\* is marked, listed or counted (dedupe.go:12-29).
THEOREM MarksTypeCorrect == MarksSpec => []MarksType
<1>1. Inv /\ OrderInv /\ CrowdInv /\ NobodyIsMissed => MarksType
  BY DEF Inv, EntriesInv, OrderInv, CrowdInv, NobodyIsMissed, MarksType
<1>2. NoMarks => Inv /\ OrderInv /\ CrowdInv
  BY NoMarksInv, NoMarksOrder, NobodyHolds
<1>3. Inv /\ OrderInv /\ CrowdInv /\ [MarksNext]_marks => (Inv /\ OrderInv /\ CrowdInv)'
  BY StepInv, OrderStep, CrowdStep
<1>. QED  BY <1>1, <1>2, <1>3, NobodyIsMissedCorrect, PTL DEF MarksSpec

-----------------------------------------------------------------------------
(* The groups, the parts that were used, and what is in hand.              *)

\* A group holds parts of its own key and size, each at its own number, and
\* none without concatenation.
GroupOf(k, g) ==
  /\ g = [segments |-> g.segments, firstAt |-> g.firstAt, parts |-> g.parts]
  /\ g.segments \in Nat /\ g.firstAt \in Nat
  /\ \A i \in DOMAIN g.parts :
       /\ g.parts[i] \in Parts
       /\ KeyOf(g.parts[i][1]) = k /\ ~Single(g.parts[i][1])
       /\ Segments[g.parts[i][1]] = g.segments
       /\ g.parts[i][2] = i

GroupsInv ==
  /\ IsFiniteSet(DOMAIN groups) /\ Cardinality(DOMAIN groups) <= MaxGroups
  /\ \A k \in DOMAIN groups : GroupOf(k, groups[k])

UsedInv == used \subseteq Parts /\ BufferedIsUnused

HandInv ==
  /\ hand = [stage |-> hand.stage, body |-> hand.body] /\ hand.body \in Seq(Parts)
  /\ hand.stage = "idle" <=> hand.body = <<>>
  /\ WholeBodies

IbInv == clock \in Nat /\ GroupsInv /\ UsedInv /\ HandInv

LEMMA PartTyped ==
  ASSUME NEW p \in Parts
  PROVE  p[1] \in Msgs /\ p[2] \in Nat /\ Segments[p[1]] \in Nat
BY InboxAssumption DEF Msgs

-----------------------------------------------------------------------------
(* The groups that are left when a new one is made.                        *)

LEMMA SweptKeeps ==
  ASSUME GroupsInv
  PROVE  /\ DOMAIN Swept = {k \in DOMAIN groups : ~Expired(k)}
         /\ \A k \in DOMAIN Swept : Swept[k] = groups[k]
         /\ IsFiniteSet(DOMAIN Swept) /\ Cardinality(DOMAIN Swept) <= MaxGroups
         /\ Cardinality(DOMAIN Swept) \in Nat
         /\ FullOf(Swept) => DOMAIN Swept = DOMAIN groups /\ FullOf(groups)
<1>1. /\ DOMAIN Swept = {k \in DOMAIN groups : ~Expired(k)}
      /\ \A k \in DOMAIN Swept : Swept[k] = groups[k]
  BY DEF Swept
<1>2. DOMAIN Swept \in SUBSET DOMAIN groups
  BY <1>1
<1>3. /\ IsFiniteSet(DOMAIN Swept)
      /\ Cardinality(DOMAIN Swept) <= Cardinality(DOMAIN groups)
      /\ Cardinality(DOMAIN groups) = Cardinality(DOMAIN Swept) => DOMAIN groups = DOMAIN Swept
  BY <1>2, FS_Subset DEF GroupsInv
<1>4. Cardinality(DOMAIN Swept) \in Nat /\ Cardinality(DOMAIN groups) \in Nat
  BY <1>3, FS_CardinalityType DEF GroupsInv
<1>. QED  BY <1>1, <1>3, <1>4, InboxAssumption DEF GroupsInv, FullOf

\* Making room, at most the expired groups go, or one of the oldest when all
\* are alive; there is room afterwards.
Pushed(k, g) ==
  /\ FullOf(groups)
  /\ \A j \in DOMAIN groups : ~Expired(j) /\ groups[k].firstAt <= groups[j].firstAt
  /\ DOMAIN groups \ DOMAIN g \subseteq {k}

LEMMA RoomKeeps ==
  ASSUME GroupsInv, NEW g \in WithRoom
  PROVE  /\ DOMAIN g \subseteq DOMAIN groups
         /\ \A k \in DOMAIN g : g[k] = groups[k]
         /\ IsFiniteSet(DOMAIN g) /\ Cardinality(DOMAIN g) \in Nat
         /\ Cardinality(DOMAIN g) < MaxGroups
         /\ \A k \in DOMAIN groups \ DOMAIN g : Expired(k) \/ Pushed(k, g)
<1>1. CASE ~FullOf(groups)
  <2>1. g = groups
    BY <1>1 DEF WithRoom
  <2>2. Cardinality(DOMAIN groups) \in Nat
    BY FS_CardinalityType DEF GroupsInv
  <2>. QED  BY <1>1, <2>1, <2>2, InboxAssumption DEF GroupsInv, FullOf
<1>2. CASE FullOf(groups) /\ ~FullOf(Swept)
  <2>1. g = Swept
    BY <1>2 DEF WithRoom
  <2>. QED  BY <1>2, <2>1, SweptKeeps, InboxAssumption DEF FullOf
<1>3. CASE FullOf(groups) /\ FullOf(Swept)
  <2>1. PICK old \in OldestIn(Swept) : g = Without(Swept, old)
    BY <1>3 DEF WithRoom
  <2>2. /\ old \in DOMAIN groups
        /\ \A j \in DOMAIN groups : ~Expired(j) /\ groups[old].firstAt <= groups[j].firstAt
    BY <1>3, SweptKeeps DEF OldestIn
  <2>3. DOMAIN g = DOMAIN groups \ {old} /\ \A k \in DOMAIN g : g[k] = groups[k]
    BY <1>3, <2>1, SweptKeeps DEF Without
  <2>4. IsFiniteSet(DOMAIN g) /\ Cardinality(DOMAIN g) = Cardinality(DOMAIN groups) - 1
    BY <2>2, <2>3, FS_RemoveElement DEF GroupsInv
  <2>5. Cardinality(DOMAIN groups) \in Nat /\ Cardinality(DOMAIN g) \in Nat
    BY <2>4, FS_CardinalityType DEF GroupsInv
  <2>6. \A k \in DOMAIN groups \ DOMAIN g : Pushed(k, g)
    BY <1>3, <2>2, <2>3 DEF Pushed
  <2>. QED  BY <2>3, <2>4, <2>5, <2>6, InboxAssumption DEF GroupsInv
<1>. QED  BY <1>1, <1>2, <1>3

-----------------------------------------------------------------------------
(* A part enters a group.                                                  *)

\* The group with the part in it.
Joined(p, group) == [group EXCEPT !.parts = With(group.parts, p[2], p)]

LEMMA JoinedIsGroup ==
  ASSUME NEW p \in Parts, ~Single(p[1]), NEW group, GroupOf(KeyOf(p[1]), group),
         group.segments = Segments[p[1]]
  PROVE  /\ GroupOf(KeyOf(p[1]), Joined(p, group))
         /\ Joined(p, group).segments = group.segments
         /\ Joined(p, group).firstAt = group.firstAt
         /\ Joined(p, group).parts = With(group.parts, p[2], p)
<1>1. Joined(p, group) = [segments |-> group.segments, firstAt |-> group.firstAt,
                          parts |-> With(group.parts, p[2], p)]
  BY DEF Joined, GroupOf
<1>2. \A i \in DOMAIN With(group.parts, p[2], p) :
        With(group.parts, p[2], p)[i] = IF i = p[2] THEN p ELSE group.parts[i]
  BY DEF With
<1>3. \A i \in DOMAIN With(group.parts, p[2], p) : i = p[2] \/ i \in DOMAIN group.parts
  BY DEF With
<1>. QED  BY <1>1, <1>2, <1>3 DEF GroupOf

\* What a complete group holds is a whole message.
LEMMA BodyIsWhole ==
  ASSUME NEW k, NEW g, GroupOf(k, g), Whole(g), NEW m \in Msgs,
         KeyOf(m) = k, Segments[m] = g.segments
  PROVE  LET b == BodyOf(g) IN
           /\ b \in Seq(Parts) /\ DOMAIN b = 1..Needed(g.segments) /\ b # <<>>
           /\ Len(b) = Needed(g.segments) /\ 1 \in DOMAIN b
           /\ \A i \in DOMAIN b : b[i] = g.parts[i] /\ b[i] \in Parts /\ b[i][2] = i
           /\ \A i \in DOMAIN b : KeyOf(b[i][1]) = k /\ Segments[b[i][1]] = g.segments
<1>. DEFINE b == BodyOf(g)
            n == Needed(g.segments)
<1>n. n \in Nat /\ n >= 1
  BY DEF GroupOf, Needed
<1>. HIDE DEF n
<1>w. \A i \in 1..n : i \in DOMAIN g.parts
  BY DEF Whole, n
<1>1. b = [i \in 1..n |-> g.parts[i]]
  BY <1>w DEF BodyOf, n
<1>2. \A i \in 1..n : g.parts[i] \in Parts
  BY <1>w DEF GroupOf
<1>3. b \in Seq(Parts) /\ Len(b) = n /\ DOMAIN b = 1..n
  BY <1>1, <1>2, <1>n
<1>4. b # <<>> /\ 1 \in DOMAIN b
  BY <1>3, <1>n
<1>5. \A i \in DOMAIN b : b[i] = g.parts[i] /\ i \in DOMAIN g.parts
  BY <1>1, <1>3, <1>w
<1>. QED  BY <1>3, <1>4, <1>5 DEF GroupOf, n

LEMMA EnterKeeps ==
  ASSUME IbInv, NEW p \in Parts, ~Single(p[1]), Ready,
         NEW g, DOMAIN g \subseteq DOMAIN groups, \A k \in DOMAIN g : g[k] = groups[k],
         IsFiniteSet(DOMAIN g), Cardinality(DOMAIN g) \in Nat,
         \/ KeyOf(p[1]) \in DOMAIN g /\ Cardinality(DOMAIN g) <= MaxGroups
         \/ Cardinality(DOMAIN g) < MaxGroups,
         NEW group, GroupOf(KeyOf(p[1]), group), group.segments = Segments[p[1]],
         \A i \in DOMAIN group.parts : group.parts[i] \notin used,
         Enter(p, g, group)
  PROVE  /\ GroupsInv' /\ UsedInv' /\ HandInv'
         /\ DOMAIN groups' \ {KeyOf(p[1])} = DOMAIN g \ {KeyOf(p[1])}
         /\ \A k \in DOMAIN g \ {KeyOf(p[1])} : groups'[k] = groups[k]
         /\ \/ Completes(KeyOf(p[1]))
            \/ /\ KeyOf(p[1]) \in DOMAIN groups'
               /\ groups'[KeyOf(p[1])] = Joined(p, group)
<1>. DEFINE k == KeyOf(p[1])
            new == Joined(p, group)
<1>n. /\ GroupOf(k, new) /\ new.segments = Segments[p[1]]
      /\ new.parts = With(group.parts, p[2], p)
  BY JoinedIsGroup
<1>m. p[1] \in Msgs
  BY PartTyped
<1>o. \A x \in DOMAIN groups : GroupOf(x, groups[x])
  BY DEF IbInv, GroupsInv
<1>1. CASE Whole(new)
  <2>1. /\ groups' = Without(g, k)
        /\ hand' = Holding(BodyOf(new))
        /\ used' = used \cup {new.parts[i] : i \in DOMAIN new.parts}
    BY <1>1 DEF Enter, Joined, Completed
  <2>. DEFINE b == BodyOf(new)
  <2>2. /\ b \in Seq(Parts) /\ b # <<>> /\ Len(b) = Needed(new.segments) /\ 1 \in DOMAIN b
        /\ \A i \in DOMAIN b : b[i] \in Parts /\ b[i][2] = i
        /\ \A i \in DOMAIN b : KeyOf(b[i][1]) = k /\ Segments[b[i][1]] = new.segments
    BY <1>1, <1>n, <1>m, BodyIsWhole
  <2>3. hand'.body = b /\ hand'.stage = "store" /\ hand' = [stage |-> "store", body |-> b]
    BY <2>1 DEF Holding
  <2>4. 1 \in DOMAIN b
    BY <2>2
  <2>5. WholeBodies'
    <3>1. IsWhole(b)
      BY <2>2, <2>4 DEF IsWhole, Single, KeyOf
    <3>. QED  BY <2>3, <3>1 DEF WholeBodies, IsWhole, Single, Needed
  <2>6. HandInv'
    BY <2>2, <2>3, <2>5 DEF HandInv
  <2>7. Completes(k)
    BY <2>2, <2>3, <2>4 DEF Completes, IbInv, HandInv, Ready
  <2>8. /\ DOMAIN groups' = DOMAIN g \ {k}
        /\ \A x \in DOMAIN groups' : groups'[x] = groups[x]
    BY <2>1 DEF Without
  <2>9. GroupsInv'
    <3>1. IsFiniteSet(DOMAIN groups') /\ Cardinality(DOMAIN groups') <= Cardinality(DOMAIN g)
      BY <2>8, FS_Subset
    <3>2. Cardinality(DOMAIN groups') \in Nat
      BY <3>1, FS_CardinalityType
    <3>. QED  BY <1>o, <2>8, <3>1, <3>2, InboxAssumption DEF GroupsInv
  <2>10. UsedInv'
    <3>1. used' \subseteq Parts
      BY <2>1, <1>n DEF IbInv, UsedInv, GroupOf
    <3>2. ASSUME NEW x \in DOMAIN groups', NEW i \in DOMAIN groups'[x].parts
          PROVE  groups'[x].parts[i] \notin used'
      <4>1. groups[x].parts[i] \notin used
        BY <2>8, <3>2 DEF IbInv, UsedInv, BufferedIsUnused
      <4>2. KeyOf(groups[x].parts[i][1]) = x /\ x # k
        BY <1>o, <2>8, <3>2 DEF GroupOf
      <4>3. \A j \in DOMAIN new.parts : KeyOf(new.parts[j][1]) = k
        BY <1>n DEF GroupOf
      <4>. QED  BY <2>1, <2>8, <4>1, <4>2, <4>3
    <3>. QED  BY <3>1, <3>2 DEF UsedInv, BufferedIsUnused
  <2>. QED  BY <2>6, <2>7, <2>8, <2>9, <2>10
<1>2. CASE ~Whole(new)
  <2>1. groups' = With(g, k, new) /\ used' = used \ {p} /\ hand' = hand
    BY <1>2 DEF Enter, Joined
  <2>2. /\ DOMAIN groups' = DOMAIN g \cup {k}
        /\ groups'[k] = new
        /\ \A x \in DOMAIN g \ {k} : groups'[x] = groups[x]
    BY <2>1 DEF With
  <2>3. GroupsInv'
    <3>1. /\ IsFiniteSet(DOMAIN groups')
          /\ Cardinality(DOMAIN groups') =
               IF k \in DOMAIN g THEN Cardinality(DOMAIN g) ELSE Cardinality(DOMAIN g) + 1
      BY <2>2, FS_AddElement
    <3>2. Cardinality(DOMAIN groups') <= MaxGroups
      BY <3>1, InboxAssumption
    <3>3. \A x \in DOMAIN groups' : GroupOf(x, groups'[x])
      BY <1>n, <1>o, <2>2
    <3>. QED  BY <3>1, <3>2, <3>3 DEF GroupsInv
  <2>4. UsedInv'
    <3>1. ASSUME NEW x \in DOMAIN groups', NEW i \in DOMAIN groups'[x].parts
          PROVE  groups'[x].parts[i] \notin used'
      <4>1. CASE x = k
        <5>1. groups'[x].parts[i] = p \/ (i \in DOMAIN group.parts /\ groups'[x].parts[i] = group.parts[i])
          BY <1>n, <2>2, <3>1, <4>1 DEF With
        <5>. QED  BY <2>1, <5>1
      <4>2. CASE x # k
        BY <2>1, <2>2, <3>1, <4>2 DEF IbInv, UsedInv, BufferedIsUnused
      <4>. QED  BY <4>1, <4>2
    <3>. QED  BY <2>1, <3>1 DEF IbInv, UsedInv, BufferedIsUnused
  <2>5. HandInv'
    BY <2>1 DEF IbInv, HandInv, WholeBodies, IsWhole, Single, Needed
  <2>. QED  BY <2>2, <2>3, <2>4, <2>5
<1>. QED  BY <1>1, <1>2

-----------------------------------------------------------------------------
(* The invariant, and why a part leaves a group, action by action.         *)

\* PartsLeaveForReason of one step.
Leaves ==
  \A k \in DOMAIN groups : \A i \in DOMAIN groups[k].parts :
    Stays(k, i) \/ Completes(k) \/ Expired(k) \/ Resized(k) \/ Crowded(k)

LEMMA InitIb == Init => IbInv
<1>. SUFFICES ASSUME Init  PROVE IbInv
  OBVIOUS
<1>1. DOMAIN groups = {} /\ Cardinality(DOMAIN groups) = 0 /\ IsFiniteSet(DOMAIN groups)
  BY FS_EmptySet DEF Init
<1>2. hand = [stage |-> "idle", body |-> <<>>]
  BY DEF Init, Resting
<1>3. WholeBodies
  BY <1>2 DEF WholeBodies, IsWhole, Single, Needed
<1>. QED
  BY <1>1, <1>2, <1>3, InboxAssumption
  DEF Init, IbInv, GroupsInv, UsedInv, BufferedIsUnused, HandInv

LEMMA TakeSingleKeeps ==
  ASSUME IbInv, NEW p \in Parts, TakeSingle(p)
  PROVE  IbInv' /\ Leaves
<1>1. hand' = [stage |-> "store", body |-> <<p>>] /\ UNCHANGED <<clock, groups, used>>
  BY DEF TakeSingle, Holding
<1>2. WholeBodies'
  <2>1. hand'.body = <<p>> /\ Single(p[1])
    BY <1>1 DEF TakeSingle
  <2>. QED  BY <2>1 DEF WholeBodies, IsWhole, Single, Needed
<1>3. HandInv'
  BY <1>1, <1>2 DEF HandInv
<1>4. GroupsInv' /\ UsedInv'
  BY <1>1 DEF IbInv, GroupsInv, UsedInv, BufferedIsUnused, GroupOf, KeyOf, Single
<1>. QED  BY <1>1, <1>3, <1>4 DEF IbInv, Leaves, Stays

LEMMA TakeKnownKeeps ==
  ASSUME IbInv, NEW p \in Parts, TakeKnown(p)
  PROVE  IbInv' /\ Leaves
<1>. DEFINE k == KeyOf(p[1])
<1>1. /\ Ready /\ ~Single(p[1]) /\ k \in DOMAIN groups
      /\ groups[k].segments = Segments[p[1]]
      /\ Enter(p, groups, groups[k]) /\ UNCHANGED clock
  BY DEF TakeKnown, Joins
<1>2. GroupOf(k, groups[k]) /\ \A i \in DOMAIN groups[k].parts : groups[k].parts[i] \notin used
  BY <1>1 DEF IbInv, GroupsInv, UsedInv, BufferedIsUnused
<1>3. IsFiniteSet(DOMAIN groups) /\ Cardinality(DOMAIN groups) \in Nat
        /\ Cardinality(DOMAIN groups) <= MaxGroups
  BY FS_CardinalityType DEF IbInv, GroupsInv
<1>4. /\ GroupsInv' /\ UsedInv' /\ HandInv'
      /\ DOMAIN groups' \ {k} = DOMAIN groups \ {k}
      /\ \A x \in DOMAIN groups \ {k} : groups'[x] = groups[x]
      /\ \/ Completes(k)
         \/ k \in DOMAIN groups' /\ groups'[k] = Joined(p, groups[k])
  BY <1>1, <1>2, <1>3, EnterKeeps
<1>5. Leaves
  <2>. SUFFICES ASSUME NEW x \in DOMAIN groups, NEW i \in DOMAIN groups[x].parts
                PROVE  Stays(x, i) \/ Completes(x)
    BY DEF Leaves
  <2>1. CASE x # k
    BY <1>4, <2>1 DEF Stays
  <2>2. CASE x = k /\ groups'[k] = Joined(p, groups[k]) /\ k \in DOMAIN groups'
    <3>1. /\ Joined(p, groups[k]).firstAt = groups[k].firstAt
          /\ Joined(p, groups[k]).parts = With(groups[k].parts, p[2], p)
      BY <1>1, <1>2, JoinedIsGroup
    <3>2. i \in DOMAIN With(groups[k].parts, p[2], p)
      BY <2>2 DEF With
    <3>. QED  BY <2>2, <3>1, <3>2 DEF Stays
  <2>. QED  BY <1>4, <2>1, <2>2
<1>. QED  BY <1>1, <1>4, <1>5 DEF IbInv

LEMMA TakeNewKeeps ==
  ASSUME IbInv, NEW p \in Parts, TakeNew(p)
  PROVE  IbInv' /\ Leaves
<1>. DEFINE k == KeyOf(p[1])
            fresh == NewGroup(p[1])
<1>1. PICK g \in WithRoom : Enter(p, g, fresh)
  BY DEF TakeNew
<1>2. Ready /\ ~Single(p[1]) /\ ~Joins(p[1]) /\ UNCHANGED clock
  BY DEF TakeNew
<1>3. /\ fresh.segments = Segments[p[1]] /\ DOMAIN fresh.parts = {}
      /\ fresh = [segments |-> fresh.segments, firstAt |-> fresh.firstAt, parts |-> fresh.parts]
      /\ fresh.firstAt = clock
  BY DEF NewGroup
<1>4. GroupOf(k, fresh)
  BY <1>2, <1>3, PartTyped DEF GroupOf, IbInv
<1>5. /\ DOMAIN g \subseteq DOMAIN groups /\ \A x \in DOMAIN g : g[x] = groups[x]
      /\ IsFiniteSet(DOMAIN g) /\ Cardinality(DOMAIN g) \in Nat
      /\ Cardinality(DOMAIN g) < MaxGroups
      /\ \A x \in DOMAIN groups \ DOMAIN g : Expired(x) \/ Pushed(x, g)
  BY RoomKeeps DEF IbInv
<1>6. /\ GroupsInv' /\ UsedInv' /\ HandInv'
      /\ DOMAIN groups' \ {k} = DOMAIN g \ {k}
      /\ \A x \in DOMAIN g \ {k} : groups'[x] = groups[x]
      /\ \/ Completes(k)
         \/ k \in DOMAIN groups' /\ groups'[k] = Joined(p, fresh)
  BY <1>1, <1>2, <1>3, <1>4, <1>5, EnterKeeps
<1>7. Leaves
  <2>. SUFFICES ASSUME NEW x \in DOMAIN groups, NEW i \in DOMAIN groups[x].parts
                PROVE  Stays(x, i) \/ Completes(x) \/ Expired(x) \/ Resized(x) \/ Crowded(x)
    BY DEF Leaves
  <2>1. CASE x = k
    <3>1. CASE k \in DOMAIN groups' /\ groups'[k] = Joined(p, fresh)
      <4>1. groups'[k].segments = Segments[p[1]]
        BY <1>2, <1>3, <1>4, <3>1, JoinedIsGroup
      <4>2. groups[k].segments # Segments[p[1]]
        BY <1>2, <2>1 DEF Joins
      <4>. QED  BY <2>1, <3>1, <4>1, <4>2 DEF Resized
    <3>. QED  BY <1>6, <2>1, <3>1
  <2>2. CASE x # k /\ x \in DOMAIN g
    BY <1>6, <2>2 DEF Stays
  <2>3. CASE x # k /\ x \notin DOMAIN g /\ ~Expired(x)
    <3>1. Pushed(x, g)
      BY <1>5, <2>3
    <3>2. \A j \in DOMAIN groups \ DOMAIN groups' : j = x \/ j = k
      BY <1>6, <3>1 DEF Pushed
    <3>3. k \in DOMAIN groups \ DOMAIN groups' => Completes(k)
      BY <1>6
    <3>4. \A j \in DOMAIN groups \ DOMAIN groups' : j = x \/ Completes(j)
      BY <3>2, <3>3
    <3>. QED  BY <3>1, <3>4 DEF Pushed, Crowded
  <2>. QED  BY <2>1, <2>2, <2>3
<1>. QED  BY <1>2, <1>6, <1>7 DEF IbInv

\* The actions that leave the groups as they are.
LEMMA StillKeeps ==
  ASSUME IbInv, UNCHANGED <<groups, used>>, clock' \in Nat, HandInv'
  PROVE  IbInv' /\ Leaves
<1>1. GroupsInv' /\ UsedInv'
  BY DEF IbInv, GroupsInv, UsedInv, BufferedIsUnused, GroupOf, KeyOf, Single
<1>. QED  BY <1>1 DEF IbInv, Leaves, Stays

LEMMA EmitInbound ==
  ASSUME IbInv, Persist \/ PersistFails \/ Emit \/ Cleanup \/ Tick \/ UNCHANGED vars
  PROVE  IbInv' /\ Leaves
<1>1. CASE Persist \/ PersistFails
  <2>1. hand' = [hand EXCEPT !.stage = hand'.stage]
    BY <1>1 DEF Persist, PersistFails, IbInv, HandInv
  <2>2. /\ hand' = [stage |-> hand'.stage, body |-> hand.body]
        /\ hand'.stage # "idle" /\ hand.stage = "store"
        /\ UNCHANGED <<groups, used, clock>>
    BY <1>1 DEF Persist, PersistFails, IbInv, HandInv
  <2>3. HandInv'
    BY <2>2 DEF IbInv, HandInv, WholeBodies, IsWhole, Single, Needed
  <2>. QED  BY <2>2, <2>3, StillKeeps DEF IbInv
<1>2. CASE Emit
  <2>1. hand' = [stage |-> "idle", body |-> <<>>] /\ UNCHANGED <<groups, used, clock>>
    BY <1>2 DEF Emit, Resting
  <2>2. HandInv'
    BY <2>1 DEF HandInv, WholeBodies, IsWhole, Single, Needed
  <2>. QED  BY <2>1, <2>2, StillKeeps DEF IbInv
<1>3. CASE Cleanup
  <2>1. UNCHANGED <<groups, used, clock, hand>>
    BY <1>3 DEF Cleanup
  <2>2. HandInv'
    BY <2>1 DEF IbInv, HandInv, WholeBodies, IsWhole, Single, Needed
  <2>. QED  BY <2>1, <2>2, StillKeeps DEF IbInv
<1>4. CASE Tick \/ UNCHANGED vars
  <2>1. UNCHANGED <<groups, used, hand>> /\ clock' \in Nat
    BY <1>4 DEF Tick, vars, IbInv
  <2>2. HandInv'
    BY <2>1 DEF IbInv, HandInv, WholeBodies, IsWhole, Single, Needed
  <2>. QED  BY <2>1, <2>2, StillKeeps
<1>. QED  BY <1>1, <1>2, <1>3, <1>4

LEMMA SweepKeeps ==
  ASSUME IbInv, Sweep
  PROVE  IbInv' /\ Leaves
<1>1. groups' = Swept /\ UNCHANGED <<clock, hand, used>>
  BY DEF Sweep
<1>2. /\ DOMAIN groups' = {k \in DOMAIN groups : ~Expired(k)}
      /\ \A k \in DOMAIN groups' : groups'[k] = groups[k]
      /\ IsFiniteSet(DOMAIN groups') /\ Cardinality(DOMAIN groups') <= MaxGroups
  BY <1>1, SweptKeeps DEF IbInv
<1>3. GroupsInv'
  BY <1>2 DEF IbInv, GroupsInv, GroupOf, KeyOf, Single
<1>4. UsedInv' /\ HandInv'
  BY <1>1, <1>2 DEF IbInv, UsedInv, BufferedIsUnused, HandInv, WholeBodies, IsWhole, Single, Needed
<1>5. Leaves
  BY <1>2 DEF Leaves, Stays
<1>. QED  BY <1>1, <1>3, <1>4, <1>5 DEF IbInv

LEMMA RestartKeeps == ASSUME IbInv, Restart  PROVE IbInv'
<1>1. /\ DOMAIN groups' = {} /\ used' = {} /\ UNCHANGED clock
      /\ hand' = [stage |-> "idle", body |-> <<>>]
  BY DEF Restart, Resting
<1>2. GroupsInv'
  BY <1>1, FS_EmptySet, InboxAssumption DEF GroupsInv
<1>3. UsedInv' /\ HandInv'
  BY <1>1 DEF UsedInv, BufferedIsUnused, HandInv, WholeBodies, IsWhole, Single, Needed
<1>. QED  BY <1>1, <1>2, <1>3 DEF IbInv

LEMMA StepIb == IbInv /\ [Next]_vars => IbInv' /\ (Restart \/ Leaves)
BY TakeSingleKeeps, TakeKnownKeeps, TakeNewKeeps, EmitInbound, SweepKeeps, RestartKeeps
DEF Next

-----------------------------------------------------------------------------
(* The marks.                                                              *)

\* Ids has an identity for every message that can be put together.
IdsComplete == \A b \in Seq(Parts) : b # <<>> /\ IsWhole(b) => IdOf(b) \in Ids

LEMMA EmitUsesMarks ==
  ASSUME IdsComplete, IbInv, Emit
  PROVE  MarksNext
<1>1. PICK registered \in SUBSET Webhooks :
        \E ok \in SUBSET Offered(IdOf(hand.body), registered) :
          Emission(IdOf(hand.body), registered, Offered(IdOf(hand.body), registered), ok)
  BY DEF Emit
<1>2. IdOf(hand.body) \in Ids
  BY DEF IdsComplete, Emit, MayOffer, IbInv, HandInv, WholeBodies, IsWhole, Single, Needed
<1>3. Offered(IdOf(hand.body), registered) = registered \ Served(IdOf(hand.body))
  BY DEF Offered
<1>. QED  BY <1>1, <1>2, <1>3 DEF MarksNext

LEMMA MarksStep == IdsComplete /\ IbInv /\ [Next]_vars => [MarksNext]_marks
<1>. SUFFICES ASSUME IdsComplete, IbInv, [Next]_vars
              PROVE  MarksNext \/ UNCHANGED marks
  OBVIOUS
<1>1. CASE \E p \in Parts : TakeSingle(p) \/ TakeKnown(p) \/ TakeNew(p)
  BY <1>1 DEF TakeSingle, TakeKnown, TakeNew, MarksNext
<1>2. CASE Persist \/ PersistFails
  BY <1>2 DEF Persist, PersistFails
<1>3. CASE Emit
  BY <1>3, EmitUsesMarks
<1>4. CASE Sweep \/ Tick \/ Restart
  BY <1>4 DEF Sweep, Tick, Restart, MarksNext
<1>5. CASE Cleanup
  BY <1>5 DEF Cleanup
<1>6. CASE UNCHANGED vars
  BY <1>6 DEF vars, marks
<1>. QED  BY <1>1, <1>2, <1>3, <1>4, <1>5, <1>6 DEF Next

-----------------------------------------------------------------------------
(* The theorems.                                                           *)

\* The inductive invariant: a group holds parts of one key and size, each at
\* its number and none that already went into a message, and there are never
\* more than MaxGroups groups (service.go:296-398).
THEOREM IbInvCorrect == Spec => []IbInv
BY InitIb, StepIb, PTL DEF Spec

\* No partial or mixed message is ever emitted, whatever sizes, widths and
\* sequence numbers the headers announce (service.go:337-352, types.go:42-49).
THEOREM WholeBodiesCorrect == Spec => []WholeBodies
<1>1. IbInv => WholeBodies
  BY DEF IbInv, HandInv
<1>. QED  BY <1>1, IbInvCorrect, PTL

\* No hand-off serves two messages (service.go:330-352).
THEOREM BufferedIsUnusedCorrect == Spec => []BufferedIsUnused
<1>1. IbInv => BufferedIsUnused
  BY DEF IbInv, UsedInv
<1>. QED  BY <1>1, IbInvCorrect, PTL

\* A buffered part goes only with its message, at the end of its window, when
\* its reference is used again with another size, or when its group is the
\* oldest of MaxGroups live ones (service.go:315-398).
THEOREM PartsLeaveForReasonCorrect == Spec => PartsLeaveForReason
<1>1. IbInv /\ [Next]_vars =>
        [\/ Restart
         \/ \A k \in DOMAIN groups : \A i \in DOMAIN groups[k].parts :
              Stays(k, i) \/ Completes(k) \/ Expired(k) \/ Resized(k) \/ Crowded(k)]_vars
  BY StepIb DEF Leaves
<1>. QED  BY <1>1, IbInvCorrect, PTL DEF Spec, PartsLeaveForReason

\* The inbox uses the marks as EmissionMarks says (service.go:454-529)...
THEOREM ImplementsMarksCorrect == ASSUME IdsComplete  PROVE Spec => ImplementsMarks
<1>1. Init => NoMarks
  BY DEF Init
<1>2. IdsComplete
  OBVIOUS
<1>3. IbInv /\ [Next]_vars => [MarksNext]_marks
  BY <1>2, MarksStep
<1>. QED  BY <1>1, <1>3, IbInvCorrect, PTL DEF Spec, MarksSpec, ImplementsMarks

\* ... so that in the inbox, too, no webhook that does not hold a message is
\* ever passed over.
THEOREM InboxMissesNobody == ASSUME IdsComplete  PROVE Spec => []NobodyIsMissed
<1>1. Spec => MarksSpec
  BY ImplementsMarksCorrect DEF ImplementsMarks
<1>. QED  BY <1>1, NobodyIsMissedCorrect, PTL

\* Nor is a webhook that took a message offered it again within TTL, unless
\* Capacity messages came behind it (dedupe.go:62-112).
THEOREM InboxRemembersDeliveries ==
  ASSUME IdsComplete  PROVE Spec => [](HeldIsRemembered /\ OrderMatchesEntries)
<1>1. Spec => MarksSpec
  BY ImplementsMarksCorrect DEF ImplementsMarks
<1>. QED  BY <1>1, HeldIsRememberedCorrect, OrderMatchesEntriesCorrect, PTL

-----------------------------------------------------------------------------
(* The table of rows.                                                      *)

\* The messages that can be emitted, and their rows.
Bodies == {b \in Seq(Parts) : b # <<>> /\ IsWhole(b)}
Stored == {[id |-> IdOf(b), at |-> t, type |-> TypeOf(b)] : b \in Bodies, t \in Nat}

\* One row for each identity.  What is owed, and what is about to be offered
\* as stored, has one.
RowsInv ==
  /\ rows \in Seq(Stored)
  /\ \A i, j \in DOMAIN rows : rows[i].id = rows[j].id => i = j
  /\ owed \subseteq RowIds
  /\ hand.stage = "offer" => IdOf(hand.body) \in RowIds

LEMMA InitRows == Init => RowsInv
<1>. SUFFICES ASSUME Init  PROVE RowsInv
  OBVIOUS
<1>1. rows = <<>> /\ owed = {} /\ hand.stage = "idle"
  BY DEF Init, Resting
<1>. QED  BY <1>1 DEF RowsInv

\* The actions that leave the table as it is.
LEMMA RowsStay ==
  ASSUME RowsInv, UNCHANGED <<rows, owed>>,
         hand'.stage # "offer" \/ UNCHANGED hand
  PROVE  RowsInv'
<1>1. RowIds' = RowIds
  BY DEF RowIds
<1>2. CASE hand'.stage # "offer"
  BY <1>1, <1>2 DEF RowsInv
<1>3. CASE UNCHANGED hand
  <2>1. hand.stage = "offer" => IdOf(hand'.body) = IdOf(hand.body)
    BY <1>3
  <2>. QED  BY <1>1, <1>3, <2>1 DEF RowsInv
<1>. QED  BY <1>2, <1>3

LEMMA PartsLeaveRows ==
  ASSUME RowsInv, NEW p \in Parts, TakeSingle(p) \/ TakeKnown(p) \/ TakeNew(p)
  PROVE  RowsInv'
<1>1. UNCHANGED <<rows, owed>>
  BY DEF TakeSingle, TakeKnown, TakeNew
<1>2. TakeSingle(p) => hand'.stage = "store"
  BY DEF TakeSingle, Holding
<1>3. ASSUME NEW g, NEW group, Enter(p, g, group)
      PROVE  hand'.stage = "store" \/ UNCHANGED hand
  BY <1>3 DEF Enter, Holding
<1>4. hand'.stage # "offer" \/ UNCHANGED hand
  BY <1>2, <1>3 DEF TakeKnown, TakeNew
<1>. QED  BY <1>1, <1>4, RowsStay

LEMMA RowOfBody ==
  ASSUME IbInv, hand.stage # "idle"
  PROVE  hand.body \in Bodies /\ Row(hand.body) \in Stored
<1>1. hand.body \in Bodies
  BY DEF IbInv, HandInv, WholeBodies, Bodies
<1>2. hand.body[1] \in Parts
  BY <1>1 DEF Bodies
<1>3. hand.body[1][1] \in Msgs
  BY <1>2, PartTyped
<1>4. ReceivedAt(hand.body[1][1]) \in Nat
  BY <1>3, InboxAssumption DEF ReceivedAt, IbInv
<1>. QED  BY <1>1, <1>4 DEF Row, Stored

LEMMA PersistRows == ASSUME IbInv, RowsInv, Persist  PROVE RowsInv'
<1>. DEFINE r == Row(hand.body)
<1>1. r \in Stored /\ r.id = IdOf(hand.body)
  BY RowOfBody DEF Persist, Row
<1>2. hand'.stage = "offer" /\ hand'.body = hand.body /\ owed' = owed
  BY DEF Persist, IbInv, HandInv
<1>3. rows' = IF r.id \in RowIds THEN rows ELSE Append(rows, r)
  BY DEF Persist, Insert
<1>. HIDE DEF r
<1>4. CASE r.id \in RowIds
  <2>1. RowIds' = RowIds /\ rows' = rows
    BY <1>3, <1>4 DEF RowIds
  <2>. QED  BY <1>1, <1>2, <1>4, <2>1 DEF RowsInv
<1>5. CASE r.id \notin RowIds
  <2>. DEFINE n == Len(rows)
  <2>1. rows \in Seq(Stored) /\ n \in Nat /\ DOMAIN rows = 1..n
    BY DEF RowsInv
  <2>2. /\ rows' \in Seq(Stored) /\ DOMAIN rows' = 1..(n + 1) /\ rows'[n + 1] = r
        /\ \A i \in 1..n : rows'[i] = rows[i]
    BY <1>1, <1>3, <1>5, <2>1
  <2>. HIDE DEF n
  <2>3. \A i \in 1..(n + 1) : i \in 1..n \/ i = n + 1
    BY <2>1
  <2>4. 1..n \subseteq 1..(n + 1) /\ n + 1 \in 1..(n + 1)
    BY <2>1
  <2>5. \A i \in 1..n : rows[i].id \in RowIds
    BY <2>1 DEF RowIds
  <2>6. \A i, j \in DOMAIN rows' : rows'[i].id = rows'[j].id => i = j
    BY <1>5, <2>1, <2>2, <2>3, <2>5 DEF RowsInv
  <2>7. RowIds \subseteq RowIds' /\ r.id \in RowIds'
    BY <2>1, <2>2, <2>4 DEF RowIds
  <2>. QED  BY <1>1, <1>2, <2>2, <2>6, <2>7 DEF RowsInv
<1>. QED  BY <1>4, <1>5

LEMMA EmitRows == ASSUME IbInv, RowsInv, Emit  PROVE RowsInv'
<1>1. hand'.stage = "idle" /\ rows' = rows /\ RowIds' = RowIds
  BY DEF Emit, Resting, RowIds
<1>2. owed' = owed \/ (hand.stage # "offer unstored" /\ owed' = owed \cup {IdOf(hand.body)})
  BY DEF Emit
<1>3. hand.stage # "offer unstored" => hand.stage = "offer"
  BY DEF Emit, MayOffer
<1>4. owed' \subseteq RowIds
  BY <1>2, <1>3 DEF RowsInv
<1>. QED  BY <1>1, <1>4 DEF RowsInv

\* The rows that are left keep their identities, and none that is still owed
\* goes.
LEMMA CleanupRows == ASSUME IbInv, RowsInv, Cleanup  PROVE RowsInv'
<1>. DEFINE t == Only(rows, Fresh)
<1>1. rows' = t /\ owed' = owed \ {rows[i].id : i \in TooOld} /\ hand' = hand /\ hand.stage = "idle"
  BY DEF Cleanup, Ready
<1>2. t \in Seq(Stored) /\ Picks(t, rows, Fresh, Len(rows)) /\ rows \in Seq(Stored)
  BY OnlyPicks DEF RowsInv
<1>. HIDE DEF t
<1>3. DOMAIN t = 1..Len(t) /\ DOMAIN rows = 1..Len(rows) /\ Len(t) \in Nat /\ Len(rows) \in Nat
  BY <1>2
<1>4. PICK g \in [1..Len(t) -> 1..Len(rows)] :
        /\ \A a \in 1..Len(t) : t[a] = rows[g[a]] /\ rows[g[a]] \in Fresh
        /\ \A a, b \in 1..Len(t) : a < b => g[a] < g[b]
        /\ \A i \in 1..Len(rows) : rows[i] \in Fresh => \E a \in 1..Len(t) : g[a] = i
  BY <1>2 DEF Picks
<1>5. ASSUME NEW a \in DOMAIN t, NEW b \in DOMAIN t, t[a].id = t[b].id  PROVE a = b
  <2>1. g[a] = g[b]
    BY <1>3, <1>4, <1>5 DEF RowsInv
  <2>2. a \in Nat /\ b \in Nat /\ g[a] \in Nat /\ g[b] \in Nat
    BY <1>3, <1>4
  <2>3. ~(a < b) /\ ~(b < a)
    <3>1. a < b => g[a] < g[b]
      BY <1>3, <1>4
    <3>2. b < a => g[b] < g[a]
      BY <1>3, <1>4
    <3>. QED  BY <2>1, <2>2, <3>1, <3>2
  <2>. QED  BY <2>2, <2>3
<1>6. ASSUME NEW id \in owed'  PROVE id \in RowIds'
  <2>1. PICK i \in DOMAIN rows : rows[i].id = id
    BY <1>1 DEF RowsInv, RowIds
  <2>2. i \notin TooOld
    BY <1>1, <2>1
  <2>3. rows[i].at \in Nat /\ clock \in Nat /\ Retention \in Nat
    <3>1. rows[i] \in Stored
      BY <1>2
    <3>. QED  BY <3>1, InboxAssumption DEF Stored, IbInv
  <2>4. ~(clock > rows[i].at + Retention)
    BY <2>2 DEF TooOld
  <2>5. rows[i].at >= clock - Retention
    <3>1. PICK at \in Nat : at = rows[i].at
      BY <2>3
    <3>2. at >= clock - Retention
      BY <2>3, <2>4, <3>1
    <3>. QED  BY <3>1, <3>2
  <2>6. rows[i] \in Fresh
    BY <2>1, <2>5 DEF Fresh, RowSet, Kept
  <2>7. PICK a \in 1..Len(t) : g[a] = i
    BY <1>3, <1>4, <2>6
  <2>. QED  BY <1>1, <1>3, <1>4, <2>1, <2>7 DEF RowIds
<1>. QED  BY <1>1, <1>2, <1>5, <1>6 DEF RowsInv

LEMMA StepRows == IbInv /\ RowsInv /\ [Next]_vars => RowsInv'
<1>. SUFFICES ASSUME IbInv, RowsInv, [Next]_vars  PROVE RowsInv'
  OBVIOUS
<1>1. CASE PersistFails
  <2>1. UNCHANGED <<rows, owed>> /\ hand'.stage = "offer unstored"
    BY <1>1 DEF PersistFails, IbInv, HandInv
  <2>. QED  BY <2>1, RowsStay
<1>2. CASE Sweep \/ Tick \/ UNCHANGED vars
  <2>1. UNCHANGED <<rows, owed, hand>>
    BY <1>2 DEF Sweep, Tick, vars
  <2>. QED  BY <2>1, RowsStay
<1>3. CASE Restart
  <2>1. UNCHANGED <<rows, owed>> /\ hand'.stage = "idle"
    BY <1>3 DEF Restart, Resting
  <2>. QED  BY <2>1, RowsStay
<1>. QED
  BY <1>1, <1>2, <1>3, PartsLeaveRows, PersistRows, EmitRows, CleanupRows DEF Next

\* A message a webhook took is stored in exactly one row until it is older
\* than Retention, unless its insert failed, however often it is received and
\* the process restarts (service.go:458-460, repository.go:35-40, :96-111).
THEOREM AnnouncedIsStoredCorrect == Spec => []AnnouncedIsStored
<1>1. ASSUME RowsInv  PROVE AnnouncedIsStored
  <2>. SUFFICES ASSUME NEW id \in owed
                PROVE  Cardinality({i \in DOMAIN rows : rows[i].id = id}) = 1
    BY DEF AnnouncedIsStored
  <2>1. PICK i \in DOMAIN rows : rows[i].id = id
    BY <1>1 DEF RowsInv, RowIds
  <2>2. {j \in DOMAIN rows : rows[j].id = id} = {i}
    BY <1>1, <2>1 DEF RowsInv
  <2>. QED  BY <2>2, FS_Singleton
<1>2. IbInv /\ [Next]_vars => IbInv'
  BY StepIb
<1>. QED  BY <1>1, <1>2, InitIb, InitRows, StepRows, PTL DEF Spec

-----------------------------------------------------------------------------
(* The clock and the groups' keys.                                         *)

\* Groups have keys of messages and were not made in the future.
BoundsInv ==
  /\ clock <= MaxClock
  /\ \A k \in DOMAIN groups : k \in Keys /\ groups[k].firstAt <= clock
  /\ hand.stage \in {"idle", "store", "offer", "offer unstored"}

LEMMA EnterBounds ==
  ASSUME IbInv, BoundsInv, UNCHANGED clock, Ready, NEW p \in Parts, ~Single(p[1]),
         NEW g, DOMAIN g \subseteq DOMAIN groups, \A k \in DOMAIN g : g[k] = groups[k],
         NEW group, GroupOf(KeyOf(p[1]), group), group.segments = Segments[p[1]],
         group.firstAt <= clock, Enter(p, g, group)
  PROVE  BoundsInv'
<1>. DEFINE k == KeyOf(p[1])
<1>1. k \in Keys
  BY PartTyped DEF Keys
<1>2. Joined(p, group).firstAt = group.firstAt
  BY JoinedIsGroup
<1>3. \A x \in DOMAIN groups' : \/ x = k /\ groups'[x] = Joined(p, group)
                                \/ x \in DOMAIN g /\ groups'[x] = g[x]
  BY DEF Enter, Joined, Completed, Without, With
<1>4. hand'.stage \in {"idle", "store"}
  BY DEF Enter, Holding, Ready
<1>5. \A x \in DOMAIN groups' : x \in Keys /\ groups'[x].firstAt <= clock
  BY <1>1, <1>2, <1>3 DEF BoundsInv
<1>. QED  BY <1>4, <1>5 DEF BoundsInv

LEMMA TakeKnownBounds ==
  ASSUME IbInv, BoundsInv, NEW p \in Parts, TakeKnown(p)
  PROVE  BoundsInv'
<1>. DEFINE k == KeyOf(p[1])
<1>1. k \in DOMAIN groups /\ Enter(p, groups, groups[k]) /\ groups[k].segments = Segments[p[1]]
  BY DEF TakeKnown, Joins
<1>2. GroupOf(k, groups[k]) /\ groups[k].firstAt <= clock
  BY <1>1 DEF IbInv, GroupsInv, BoundsInv
<1>3. UNCHANGED clock /\ Ready /\ ~Single(p[1])
  BY DEF TakeKnown
<1>. QED  BY <1>1, <1>2, <1>3, EnterBounds

LEMMA TakeNewBounds ==
  ASSUME IbInv, BoundsInv, NEW p \in Parts, TakeNew(p)
  PROVE  BoundsInv'
<1>. DEFINE fresh == NewGroup(p[1])
<1>1. PICK g \in WithRoom : Enter(p, g, fresh)
  BY DEF TakeNew
<1>2. DOMAIN g \subseteq DOMAIN groups /\ \A k \in DOMAIN g : g[k] = groups[k]
  BY RoomKeeps DEF IbInv
<1>3. /\ fresh.segments = Segments[p[1]] /\ DOMAIN fresh.parts = {}
      /\ fresh = [segments |-> fresh.segments, firstAt |-> fresh.firstAt, parts |-> fresh.parts]
      /\ fresh.firstAt = clock /\ clock \in Nat
  BY DEF NewGroup, IbInv
<1>4. UNCHANGED clock /\ Ready /\ ~Single(p[1])
  BY DEF TakeNew
<1>5. GroupOf(KeyOf(p[1]), fresh)
  BY <1>3, <1>4, PartTyped DEF GroupOf
<1>6. fresh.firstAt <= clock
  BY <1>3
<1>. HIDE DEF fresh
<1>. QED  BY <1>1, <1>2, <1>3, <1>4, <1>5, <1>6, EnterBounds

LEMMA StepBounds == IbInv /\ BoundsInv /\ [Next]_vars => BoundsInv'
<1>. SUFFICES ASSUME IbInv, BoundsInv, [Next]_vars  PROVE BoundsInv'
  OBVIOUS
<1>0. \A k \in DOMAIN groups : groups[k].firstAt \in Nat
  BY DEF IbInv, GroupsInv, GroupOf
<1>1. CASE \E p \in Parts : TakeSingle(p)
  <2>1. hand'.stage = "store" /\ UNCHANGED <<clock, groups>>
    BY <1>1 DEF TakeSingle, Holding
  <2>. QED  BY <2>1 DEF BoundsInv
<1>2. CASE Persist \/ PersistFails
  BY <1>2 DEF Persist, PersistFails, BoundsInv, IbInv, HandInv
<1>3. CASE Emit
  BY <1>3 DEF Emit, Resting, BoundsInv
<1>4. CASE Sweep
  <2>1. groups' = Swept /\ UNCHANGED <<clock, hand>>
    BY <1>4 DEF Sweep
  <2>2. \A k \in DOMAIN groups' : k \in DOMAIN groups /\ groups'[k] = groups[k]
    BY <2>1 DEF Swept
  <2>. QED  BY <2>1, <2>2 DEF BoundsInv
<1>5. CASE Cleanup \/ UNCHANGED vars
  BY <1>5 DEF Cleanup, vars, BoundsInv
<1>6. CASE Tick
  <2>1. clock' = clock + 1 /\ clock < MaxClock /\ UNCHANGED <<groups, hand>>
    BY <1>6 DEF Tick
  <2>2. clock \in Nat /\ MaxClock \in Nat
    BY InboxAssumption DEF IbInv
  <2>3. ASSUME NEW k \in DOMAIN groups  PROVE groups[k].firstAt <= clock + 1
    <3>1. PICK at \in Nat : at = groups[k].firstAt
      BY <1>0, <2>3
    <3>2. at <= clock
      BY <2>3, <3>1 DEF BoundsInv
    <3>3. at <= clock + 1
      BY <2>2, <3>2
    <3>. QED  BY <3>1, <3>3
  <2>4. clock + 1 <= MaxClock
    BY <2>1, <2>2
  <2>. QED  BY <2>1, <2>3, <2>4 DEF BoundsInv
<1>7. CASE Restart
  BY <1>7 DEF Restart, Resting, BoundsInv
<1>. QED
  BY <1>1, <1>2, <1>3, <1>4, <1>5, <1>6, <1>7, TakeKnownBounds, TakeNewBounds DEF Next

\* Every variable of the inbox and of its marks keeps its type; there are
\* never more than MaxGroups groups, and none was made in the future
\* (service.go:56-96, :296-398).
THEOREM InboxTypeCorrect == ASSUME IdsComplete  PROVE Spec => []InboxType
<1>1. Spec => []MarksType
  <2>1. Spec => MarksSpec
    BY ImplementsMarksCorrect DEF ImplementsMarks
  <2>. QED  BY <2>1, MarksTypeCorrect, PTL
<1>2. Init => BoundsInv
  BY InboxAssumption DEF Init, Resting, BoundsInv
<1>3. ASSUME IbInv, BoundsInv, MarksType  PROVE InboxType
  <2>1. clock \in 0..MaxClock
    <3>1. clock \in Nat /\ MaxClock \in Nat /\ clock <= MaxClock
      BY <1>3, InboxAssumption DEF IbInv, BoundsInv
    <3>. QED  BY <3>1
  <2>2. ASSUME NEW k \in DOMAIN groups
        PROVE  groups[k].firstAt \in 0..clock /\ \A i \in DOMAIN groups[k].parts : groups[k].parts[i] \in Parts
    <3>1. groups[k].firstAt \in Nat /\ clock \in Nat /\ groups[k].firstAt <= clock
      BY <1>3, <2>2 DEF IbInv, GroupsInv, GroupOf, BoundsInv
    <3>2. \A i \in DOMAIN groups[k].parts : groups[k].parts[i] \in Parts
      BY <1>3, <2>2 DEF IbInv, GroupsInv, GroupOf
    <3>. QED  BY <3>1, <3>2
  <2>. QED
    BY <1>3, <2>1, <2>2 DEF InboxType, IbInv, GroupsInv, UsedInv, BoundsInv
<1>4. IbInv /\ [Next]_vars => IbInv'
  BY StepIb
<1>. QED  BY <1>1, <1>2, <1>3, <1>4, InitIb, StepBounds, PTL DEF Spec

-----------------------------------------------------------------------------
(* The finite strict orders that the listings are sorted by.  An order is  *)
(* the set of its pairs.                                                   *)

StrictOrder(L, S) ==
  /\ \A i \in S : <<i, i>> \notin L
  /\ \A i, j, k \in S : <<i, j>> \in L /\ <<j, k>> \in L => <<i, k>> \in L
  /\ \A i, j \in S : i # j => <<i, j>> \in L \/ <<j, i>> \in L

Preceding(L, S, i) == {j \in S : <<j, i>> \in L}

Sorted(L, S) ==
  [n \in 1..Cardinality(S) |-> CHOOSE i \in S : Cardinality(Preceding(L, S, i)) = n - 1]

\* t goes through all of S in the order L.
Walks(t, n, L, S) ==
  /\ n \in Nat /\ t \in [1..n -> S]
  /\ \A i \in S : \E a \in 1..n : t[a] = i
  /\ \A a, b \in 1..n : a < b => <<t[a], t[b]>> \in L

LEMMA RankGrows ==
  ASSUME NEW L, NEW S, IsFiniteSet(S), StrictOrder(L, S), NEW i \in S
  PROVE  /\ Cardinality(Preceding(L, S, i)) \in 0..(Cardinality(S) - 1)
         /\ \A j \in S : <<i, j>> \in L =>
              Cardinality(Preceding(L, S, i)) < Cardinality(Preceding(L, S, j))
<1>. DEFINE P(j) == Preceding(L, S, j)
<1>1. \A j \in S : P(j) \in SUBSET S /\ j \notin P(j)
  BY DEF Preceding, StrictOrder
<1>2. \A j \in S : IsFiniteSet(P(j)) /\ Cardinality(P(j)) \in Nat
  BY <1>1, FS_Subset, FS_CardinalityType
<1>3. Cardinality(S) \in Nat
  BY FS_CardinalityType
<1>. HIDE DEF P
<1>4. Cardinality(P(i)) <= Cardinality(S) /\ Cardinality(P(i)) # Cardinality(S)
  <2>1. P(i) \in SUBSET S /\ P(i) # S
    BY <1>1
  <2>. QED  BY <1>2, <1>3, <2>1, FS_Subset
<1>5. ASSUME NEW j \in S, <<i, j>> \in L  PROVE Cardinality(P(i)) < Cardinality(P(j))
  <2>1. P(i) \in SUBSET P(j)
    BY <1>5 DEF P, Preceding, StrictOrder
  <2>2. i \in P(j) /\ i \notin P(i)
    BY <1>1, <1>5 DEF P, Preceding
  <2>3. P(i) # P(j)
    BY <2>2
  <2>4. /\ Cardinality(P(i)) <= Cardinality(P(j))
        /\ Cardinality(P(j)) = Cardinality(P(i)) => P(j) = P(i)
    BY <1>2, <2>1, FS_Subset
  <2>5. Cardinality(P(i)) \in Nat /\ Cardinality(P(j)) \in Nat
    BY <1>2
  <2>. QED  BY <2>3, <2>4, <2>5
<1>6. Cardinality(P(i)) \in 0..(Cardinality(S) - 1)
  <2>1. PICK c \in Nat : c = Cardinality(P(i))
    BY <1>2
  <2>2. PICK n \in Nat : n = Cardinality(S)
    BY <1>3
  <2>3. c <= n /\ c # n
    BY <1>4, <2>1, <2>2
  <2>4. c \in 0..(n - 1)
    BY <2>3
  <2>. QED  BY <2>1, <2>2, <2>4
<1>. QED  BY <1>5, <1>6 DEF P

\* Each place has exactly one element.
LEMMA RankOnto ==
  ASSUME NEW L, NEW S, IsFiniteSet(S), StrictOrder(L, S), NEW n \in 1..Cardinality(S)
  PROVE  \E i \in S : Cardinality(Preceding(L, S, i)) = n - 1
<1>. DEFINE c == Cardinality(S)
            f == [i \in S |-> Cardinality(Preceding(L, S, i)) + 1]
<1>1. c \in Nat /\ IsFiniteSet(1..c) /\ Cardinality(1..c) = c
  BY FS_CardinalityType, FS_Interval
<1>2. \A i \in S : Cardinality(Preceding(L, S, i)) \in 0..(c - 1)
  BY RankGrows
<1>3. \A i \in S : f[i] \in 1..c
  <2>. SUFFICES ASSUME NEW i \in S  PROVE f[i] \in 1..c
    OBVIOUS
  <2>1. PICK k \in 0..(c - 1) : k = Cardinality(Preceding(L, S, i))
    BY <1>2
  <2>2. k + 1 \in 1..c
    BY <1>1
  <2>. QED  BY <2>1, <2>2
<1>4. f \in [S -> 1..c]
  BY <1>3
<1>5. \A i, j \in S : f[i] = f[j] => i = j
  <2>. SUFFICES ASSUME NEW i \in S, NEW j \in S, i # j  PROVE f[i] # f[j]
    OBVIOUS
  <2>1. PICK x \in 0..(c - 1) : x = Cardinality(Preceding(L, S, i))
    BY <1>2
  <2>2. PICK y \in 0..(c - 1) : y = Cardinality(Preceding(L, S, j))
    BY <1>2
  <2>3. x < y \/ y < x
    BY <2>1, <2>2, RankGrows DEF StrictOrder
  <2>4. x + 1 # y + 1
    BY <2>3
  <2>. QED  BY <2>1, <2>2, <2>4
<1>. HIDE DEF f
<1>6. f \in Injection(S, 1..c)
  BY <1>4, <1>5 DEF Injection, IsInjective
<1>7. f \in Surjection(S, 1..c)
  BY <1>1, <1>6, FS_Injection
<1>8. PICK i \in S : f[i] = n
  BY <1>7 DEF Surjection
<1>9. PICK k \in 0..(c - 1) : k = Cardinality(Preceding(L, S, i))
  BY <1>2
<1>10. k + 1 = n
  BY <1>8, <1>9 DEF f
<1>11. k = n - 1
  BY <1>10
<1>. QED  BY <1>9, <1>11

LEMMA SortedWalks ==
  ASSUME NEW L, NEW S, IsFiniteSet(S), StrictOrder(L, S)
  PROVE  Walks(Sorted(L, S), Cardinality(S), L, S)
<1>. DEFINE c == Cardinality(S)
            t == Sorted(L, S)
            R(i) == Cardinality(Preceding(L, S, i))
<1>1. c \in Nat
  BY FS_CardinalityType
<1>2. \A n \in 1..c : t[n] \in S /\ R(t[n]) = n - 1
  BY RankOnto DEF Sorted
<1>3. \A i \in S : R(i) \in 0..(c - 1)
  BY RankGrows
<1>4. \A i, j \in S : R(i) < R(j) \/ R(j) < R(i) \/ i = j
  BY RankGrows DEF StrictOrder
<1>5. \A i, j \in S : i # j => <<i, j>> \in L \/ R(j) < R(i)
  BY RankGrows DEF StrictOrder
<1>6. t = [n \in 1..c |-> t[n]]
  BY DEF Sorted
<1>. HIDE DEF c, t, R
<1>7. t \in [1..c -> S]
  BY <1>2, <1>6
<1>8. ASSUME NEW i \in S  PROVE \E a \in 1..c : t[a] = i
  <2>1. PICK k \in 0..(c - 1) : k = R(i)
    BY <1>3
  <2>2. k + 1 \in 1..c /\ (k + 1) - 1 = k
    BY <1>1
  <2>3. t[k + 1] \in S /\ R(t[k + 1]) = k
    BY <1>2, <2>2
  <2>4. ~(k < k)
    OBVIOUS
  <2>5. t[k + 1] = i
    BY <1>4, <2>1, <2>3, <2>4
  <2>. QED  BY <2>2, <2>5
<1>9. ASSUME NEW a \in 1..c, NEW b \in 1..c, a < b  PROVE <<t[a], t[b]>> \in L
  <2>1. R(t[a]) = a - 1 /\ R(t[b]) = b - 1 /\ t[a] \in S /\ t[b] \in S
    BY <1>2
  <2>2. a - 1 < b - 1 /\ a - 1 # b - 1 /\ ~(b - 1 < a - 1)
    BY <1>1, <1>9
  <2>. QED  BY <1>5, <2>1, <2>2
<1>. QED  BY <1>1, <1>7, <1>8, <1>9 DEF Walks, c, t

\* There is only one such walk.
LEMMA WalkIsSorted ==
  ASSUME NEW L, NEW S, IsFiniteSet(S), StrictOrder(L, S), NEW t, NEW n, Walks(t, n, L, S)
  PROVE  n = Cardinality(S) /\ t = Sorted(L, S)
<1>. DEFINE R(i) == Cardinality(Preceding(L, S, i))
<1>0. n \in Nat /\ t \in [1..n -> S] /\ \A i \in S : \E a \in 1..n : t[a] = i
  BY DEF Walks
<1>1. ASSUME NEW a \in 1..n, NEW b \in 1..n
      PROVE  <<t[a], t[b]>> \in L <=> a < b
  <2>1. CASE a < b
    BY <2>1 DEF Walks
  <2>2. CASE b < a
    <3>1. <<t[b], t[a]>> \in L
      BY <2>2 DEF Walks
    <3>2. <<t[a], t[b]>> \in L => <<t[a], t[a]>> \in L
      BY <1>0, <3>1 DEF StrictOrder
    <3>. QED  BY <1>0, <2>2, <3>2 DEF StrictOrder
  <2>3. CASE a = b
    BY <1>0, <2>3 DEF StrictOrder
  <2>. QED  BY <1>0, <2>1, <2>2, <2>3
<1>2. \A a, b \in 1..n : t[a] = t[b] => a = b
  <2>. SUFFICES ASSUME NEW a \in 1..n, NEW b \in 1..n, t[a] = t[b]  PROVE a = b
    OBVIOUS
  <2>1. ~(a < b) /\ ~(b < a)
    BY <1>0, <1>1 DEF StrictOrder
  <2>. QED  BY <1>0, <2>1
<1>3. \A m \in 0..n : ExistsBijection(1..m, {t[b] : b \in 1..m})
  <2>. SUFFICES ASSUME NEW m \in 0..n  PROVE ExistsBijection(1..m, {t[b] : b \in 1..m})
    OBVIOUS
  <2>. DEFINE g == [b \in 1..m |-> t[b]]
  <2>1. 1..m \subseteq 1..n
    BY <1>0
  <2>2. g \in Bijection(1..m, {t[b] : b \in 1..m})
    BY <1>2, <2>1 DEF Bijection, Injection, Surjection, IsInjective
  <2>. QED  BY <2>2 DEF ExistsBijection
<1>4. \A m \in 0..n : Cardinality({t[b] : b \in 1..m}) = m
  <2>. SUFFICES ASSUME NEW m \in 0..n  PROVE Cardinality({t[b] : b \in 1..m}) = m
    OBVIOUS
  <2>. DEFINE T == {t[b] : b \in 1..m}
  <2>1. m \in Nat /\ ExistsBijection(1..m, T)
    BY <1>0, <1>3
  <2>. HIDE DEF T
  <2>2. Cardinality(T) = m
    BY <2>1, FS_CountingElements
  <2>. QED  BY <2>2 DEF T
<1>5. {t[b] : b \in 1..n} = S
  BY <1>0
<1>6. n = Cardinality(S)
  BY <1>0, <1>4, <1>5
<1>7. ASSUME NEW a \in 1..n  PROVE R(t[a]) = a - 1
  <2>1. a - 1 \in 0..n
    BY <1>0
  <2>2. \A b \in 1..n : b < a <=> b \in 1..(a - 1)
    BY <1>0
  <2>3. 1..(a - 1) \subseteq 1..n
    BY <1>0
  <2>4. Preceding(L, S, t[a]) = {t[b] : b \in 1..(a - 1)}
    BY <1>0, <1>1, <2>2, <2>3 DEF Preceding
  <2>. QED  BY <1>4, <2>1, <2>4
<1>8. ASSUME NEW a \in 1..n  PROVE t[a] = CHOOSE i \in S : R(i) = a - 1
  <2>1. t[a] \in S /\ R(t[a]) = a - 1
    BY <1>0, <1>7
  <2>2. ASSUME NEW i \in S, R(i) = a - 1  PROVE i = t[a]
    <3>1. PICK b \in 1..n : t[b] = i
      BY <1>0
    <3>2. b - 1 = a - 1
      BY <1>7, <2>2, <3>1
    <3>3. b = a
      BY <1>0, <3>2
    <3>. QED  BY <3>1, <3>3
  <2>. HIDE DEF R
  <2>. QED  BY <2>1, <2>2
<1>9. t = [a \in 1..n |-> CHOOSE i \in S : R(i) = a - 1]
  BY <1>0, <1>8
<1>. QED  BY <1>6, <1>9 DEF Sorted

-----------------------------------------------------------------------------
(* Listing and replay.                                                     *)

\* A walk read backwards goes through S in the opposite order.
LEMMA WalkBack ==
  ASSUME NEW L, NEW M, NEW S, NEW t, NEW n, Walks(t, n, L, S),
         \A i, j \in S : <<i, j>> \in L => <<j, i>> \in M
  PROVE  Walks([a \in 1..n |-> t[n + 1 - a]], n, M, S)
<1>. DEFINE u == [a \in 1..n |-> t[n + 1 - a]]
<1>1. n \in Nat /\ t \in [1..n -> S]
  BY DEF Walks
<1>2. \A a \in 1..n : n + 1 - a \in 1..n /\ u[a] = t[n + 1 - a] /\ n + 1 - (n + 1 - a) = a
  BY <1>1
<1>3. u \in [1..n -> S]
  BY <1>1, <1>2
<1>. HIDE DEF u
<1>4. ASSUME NEW i \in S  PROVE \E a \in 1..n : u[a] = i
  <2>1. PICK b \in 1..n : t[b] = i
    BY DEF Walks
  <2>2. n + 1 - b \in 1..n /\ u[n + 1 - b] = t[b]
    BY <1>2
  <2>. QED  BY <2>1, <2>2
<1>5. ASSUME NEW a \in 1..n, NEW b \in 1..n, a < b  PROVE <<u[a], u[b]>> \in M
  <2>1. PICK x \in 1..n : x = n + 1 - a
    BY <1>2
  <2>2. PICK y \in 1..n : y = n + 1 - b
    BY <1>2
  <2>3. y < x
    BY <1>1, <1>5, <2>1, <2>2
  <2>4. <<t[y], t[x]>> \in L
    BY <2>3 DEF Walks
  <2>5. t[x] \in S /\ t[y] \in S
    BY <1>1
  <2>. QED  BY <1>2, <2>1, <2>2, <2>4, <2>5
<1>. QED  BY <1>1, <1>3, <1>4, <1>5 DEF Walks, u

\* The order of the replay, and that of the listing.
Upward(S) == {p \in S \X S : Earlier(p[1], p[2])}
Downward(S) == {p \in S \X S : Earlier(p[2], p[1])}

LEMMA AtTyped == ASSUME RowsInv, NEW i \in DOMAIN rows  PROVE i \in Nat /\ rows[i].at \in Nat
<1>1. rows \in Seq(Stored)
  BY DEF RowsInv
<1>2. rows[i] \in Stored /\ i \in Nat
  BY <1>1
<1>. QED  BY <1>2 DEF Stored

\* By the stamp, and by the rowid among equal stamps.
LEMMA EarlierOrders ==
  ASSUME RowsInv, NEW i \in DOMAIN rows, NEW j \in DOMAIN rows
  PROVE  /\ ~Earlier(i, i)
         /\ i # j => Earlier(i, j) \/ Earlier(j, i)
         /\ \A k \in DOMAIN rows : Earlier(i, j) /\ Earlier(j, k) => Earlier(i, k)
         /\ Earlier(i, j) => i # j /\ rows[j].at >= rows[i].at
<1>1. PICK x \in Nat : x = rows[i].at
  BY AtTyped
<1>2. PICK y \in Nat : y = rows[j].at
  BY AtTyped
<1>3. i \in Nat /\ j \in Nat
  BY AtTyped
<1>4. ~(x < x) /\ ~(i < i)
  BY <1>3
<1>5. i # j => (x < y \/ (x = y /\ i < j)) \/ (y < x \/ (y = x /\ j < i))
  BY <1>3
<1>6. (x < y \/ (x = y /\ i < j)) => i # j /\ y >= x
  <2>1. x < y => y >= x /\ x # y
    OBVIOUS
  <2>2. i < j => i # j
    BY <1>3
  <2>3. x = y => y >= x
    OBVIOUS
  <2>4. i = j => x = y
    BY <1>1, <1>2
  <2>. QED  BY <2>1, <2>2, <2>3, <2>4
<1>7. ASSUME NEW k \in DOMAIN rows, Earlier(i, j), Earlier(j, k)  PROVE Earlier(i, k)
  <2>1. PICK z \in Nat : z = rows[k].at
    BY AtTyped
  <2>2. k \in Nat
    BY AtTyped
  <2>3. (x < y \/ (x = y /\ i < j)) /\ (y < z \/ (y = z /\ j < k))
    BY <1>1, <1>2, <1>7, <2>1 DEF Earlier
  <2>4. x < z \/ (x = z /\ i < k)
    BY <1>3, <2>2, <2>3
  <2>. QED  BY <1>1, <2>1, <2>4 DEF Earlier
<1>8. ~Earlier(i, i)
  BY <1>1, <1>4 DEF Earlier
<1>9. i # j => Earlier(i, j) \/ Earlier(j, i)
  BY <1>1, <1>2, <1>5 DEF Earlier
<1>10. Earlier(i, j) => i # j /\ rows[j].at >= rows[i].at
  BY <1>1, <1>2, <1>6 DEF Earlier
<1>. QED  BY <1>7, <1>8, <1>9, <1>10

\* A place determines its element, however it is chosen.
LEMMA SortedBy ==
  ASSUME NEW L, NEW S, IsFiniteSet(S), StrictOrder(L, S),
         NEW t, t = [k \in 1..Cardinality(S) |-> t[k]],
         \A k \in 1..Cardinality(S) :
           t[k] \in S /\ Cardinality(Preceding(L, S, t[k])) = k - 1
  PROVE  t = Sorted(L, S)
<1>. DEFINE R(i) == Cardinality(Preceding(L, S, i))
            c == Cardinality(S)
            u == Sorted(L, S)
<1>1. \A i \in S : R(i) \in 0..(c - 1)
  BY RankGrows
<1>2. \A i, j \in S : i # j => R(i) < R(j) \/ R(j) < R(i)
  BY RankGrows DEF StrictOrder
<1>3. \A k \in 1..c : u[k] \in S /\ R(u[k]) = k - 1
  BY RankOnto DEF Sorted
<1>4. u = [k \in 1..c |-> u[k]]
  BY DEF Sorted
<1>5. \A k \in 1..c : t[k] \in S /\ R(t[k]) = k - 1
  OBVIOUS
<1>. HIDE DEF R, c, u
<1>6. ASSUME NEW k \in 1..c  PROVE t[k] = u[k]
  <2>1. R(t[k]) = k - 1 /\ R(u[k]) = k - 1 /\ t[k] \in S /\ u[k] \in S
    BY <1>3, <1>5
  <2>2. ~(k - 1 < k - 1)
    OBVIOUS
  <2>. QED  BY <1>2, <2>1, <2>2
<1>7. t = [k \in 1..c |-> t[k]]
  BY DEF c
<1>. QED  BY <1>4, <1>6, <1>7 DEF u

LEMMA ListOrder ==
  ASSUME RowsInv, NEW S \in SUBSET DOMAIN rows
  PROVE  /\ IsFiniteSet(S) /\ Cardinality(S) \in 0..Len(rows) /\ Len(rows) \in Nat
         /\ StrictOrder(Upward(S), S) /\ OldestFirst(S) = Sorted(Upward(S), S)
         /\ StrictOrder(Downward(S), S) /\ NewestFirst(S) = Sorted(Downward(S), S)
<1>1. DOMAIN rows = 1..Len(rows) /\ Len(rows) \in Nat
  <2>1. rows \in Seq(Stored)
    BY DEF RowsInv
  <2>. QED  BY <2>1
<1>2. PICK n \in Nat : n = Len(rows)
  BY <1>1, Zenon
<1>3. IsFiniteSet(1..n) /\ Cardinality(1..n) = n
  BY FS_Interval
<1>4. S \in SUBSET (1..n)
  BY <1>1, <1>2
<1>5. IsFiniteSet(S) /\ Cardinality(S) <= n /\ Cardinality(S) \in Nat
  BY <1>3, <1>4, FS_Subset, FS_CardinalityType
<1>6. StrictOrder(Upward(S), S)
  BY EarlierOrders DEF StrictOrder, Upward
<1>7. StrictOrder(Downward(S), S)
  BY EarlierOrders DEF StrictOrder, Downward
<1>8. \A i \in S : {j \in S : Earlier(j, i)} = Preceding(Upward(S), S, i)
  BY DEF Preceding, Upward
<1>9. \A i \in S : {j \in S : Earlier(i, j)} = Preceding(Downward(S), S, i)
  BY DEF Preceding, Downward
<1>10. OldestFirst(S) = Sorted(Upward(S), S)
  <2>2. OldestFirst(S) = [k \in 1..Cardinality(S) |-> OldestFirst(S)[k]]
    <3>. DEFINE E(k) == CHOOSE i \in S : Cardinality({j \in S : Earlier(j, i)}) = k - 1
    <3>1. OldestFirst(S) = [k \in 1..Cardinality(S) |-> E(k)]
      BY DEF OldestFirst
    <3>. HIDE DEF E
    <3>. QED  BY <3>1
  <2>3. ASSUME NEW k \in 1..Cardinality(S)
        PROVE  OldestFirst(S)[k] \in S /\ Cardinality(Preceding(Upward(S), S, OldestFirst(S)[k])) = k - 1
    <3>. DEFINE Has(i) == Cardinality({j \in S : Earlier(j, i)}) = k - 1
    <3>1. PICK i \in S : Cardinality(Preceding(Upward(S), S, i)) = k - 1
      BY <1>5, <1>6, RankOnto
    <3>2. Has(i)
      BY <3>1, <1>8
    <3>3. OldestFirst(S)[k] = CHOOSE x \in S : Has(x)
      BY DEF OldestFirst
    <3>. HIDE DEF Has
    <3>4. OldestFirst(S)[k] \in S /\ Has(OldestFirst(S)[k])
      BY <3>2, <3>3
    <3>5. PICK x \in S : x = OldestFirst(S)[k]
      BY <3>4
    <3>6. Cardinality({j \in S : Earlier(j, x)}) = k - 1
      BY <3>4, <3>5 DEF Has
    <3>7. {j \in S : Earlier(j, x)} = Preceding(Upward(S), S, x)
      BY <1>8
    <3>8. Cardinality(Preceding(Upward(S), S, x)) = k - 1
      BY <3>6, <3>7
    <3>. QED  BY <3>5, <3>8
  <2>. QED  BY <1>5, <1>6, <2>2, <2>3, SortedBy
<1>11. NewestFirst(S) = Sorted(Downward(S), S)
  <2>2. NewestFirst(S) = [k \in 1..Cardinality(S) |-> NewestFirst(S)[k]]
    <3>. DEFINE E(k) == CHOOSE i \in S : Cardinality({j \in S : Earlier(i, j)}) = k - 1
    <3>1. NewestFirst(S) = [k \in 1..Cardinality(S) |-> E(k)]
      BY DEF NewestFirst
    <3>. HIDE DEF E
    <3>. QED  BY <3>1
  <2>3. ASSUME NEW k \in 1..Cardinality(S)
        PROVE  NewestFirst(S)[k] \in S /\ Cardinality(Preceding(Downward(S), S, NewestFirst(S)[k])) = k - 1
    <3>. DEFINE Has(i) == Cardinality({j \in S : Earlier(i, j)}) = k - 1
    <3>1. PICK i \in S : Cardinality(Preceding(Downward(S), S, i)) = k - 1
      BY <1>5, <1>7, RankOnto
    <3>2. Has(i)
      BY <3>1, <1>9
    <3>3. NewestFirst(S)[k] = CHOOSE x \in S : Has(x)
      BY DEF NewestFirst
    <3>. HIDE DEF Has
    <3>4. NewestFirst(S)[k] \in S /\ Has(NewestFirst(S)[k])
      BY <3>2, <3>3
    <3>5. PICK x \in S : x = NewestFirst(S)[k]
      BY <3>4
    <3>6. Cardinality({j \in S : Earlier(x, j)}) = k - 1
      BY <3>4, <3>5 DEF Has
    <3>7. {j \in S : Earlier(x, j)} = Preceding(Downward(S), S, x)
      BY <1>9
    <3>8. Cardinality(Preceding(Downward(S), S, x)) = k - 1
      BY <3>6, <3>7
    <3>. QED  BY <3>5, <3>8
  <2>. QED  BY <1>5, <1>7, <2>2, <2>3, SortedBy
<1>. QED  BY <1>2, <1>5, <1>6, <1>7, <1>10, <1>11

LEMMA NewestWalks ==
  ASSUME RowsInv, NEW S \in SUBSET DOMAIN rows
  PROVE  /\ Walks(NewestFirst(S), Cardinality(S), Downward(S), S)
         /\ DOMAIN NewestFirst(S) = 1..Cardinality(S)
         /\ DOMAIN OldestFirst(S) = 1..Cardinality(S)
         /\ \A a \in 1..Cardinality(S) :
              OldestFirst(S)[a] = NewestFirst(S)[Cardinality(S) + 1 - a]
<1>. DEFINE c == Cardinality(S)
<1>1. Walks(NewestFirst(S), c, Downward(S), S)
  BY ListOrder, SortedWalks
<1>2. \A i, j \in S : <<i, j>> \in Downward(S) => <<j, i>> \in Upward(S)
  BY DEF Upward, Downward
<1>3. Walks([a \in 1..c |-> NewestFirst(S)[c + 1 - a]], c, Upward(S), S)
  BY <1>1, <1>2, WalkBack
<1>4. OldestFirst(S) = [a \in 1..c |-> NewestFirst(S)[c + 1 - a]]
  BY <1>3, ListOrder, WalkIsSorted
<1>5. DOMAIN NewestFirst(S) = 1..c
  BY DEF NewestFirst
<1>. QED  BY <1>1, <1>4, <1>5

\* A filter that is not refused.
Asked(f) ==
  /\ f = [device |-> f.device, types |-> f.types, from |-> f.from, to |-> f.to]
  /\ f.from \in Nat \cup {NoTime} /\ f.to \in Nat \cup {NoTime}
  /\ ~Invalid(f)

LEMMA QuotientAndRest ==
  ASSUME NEW n \in Nat, NEW d \in Nat \ {0}
  PROVE  n \div d \in Nat /\ n % d \in 0..(d - 1) /\ n = d * (n \div d) + (n % d)
OBVIOUS

\* The listing before it is cut into pages.
LEMMA DescendingRows ==
  ASSUME RowsInv, NEW f
  PROVE  LET S == Matching(f) c == Cardinality(S) D == Descending(f) IN
           /\ S \in SUBSET DOMAIN rows /\ c \in 0..Len(rows) /\ Len(rows) \in Nat
           /\ D \in Seq(RowSet) /\ DOMAIN D = 1..c /\ Len(D) = c
           /\ \A a \in 1..c : NewestFirst(S)[a] \in S /\ D[a] = rows[NewestFirst(S)[a]]
<1>. DEFINE S == Matching(f)
            c == Cardinality(S)
            t == NewestFirst(S)
            D == Descending(f)
<1>1. S \in SUBSET DOMAIN rows
  BY DEF Matching
<1>2. c \in 0..Len(rows) /\ Len(rows) \in Nat
  BY <1>1, ListOrder
<1>3. DOMAIN t = 1..c /\ t \in [1..c -> S]
  BY <1>1, NewestWalks DEF Walks
<1>4. D = [a \in 1..c |-> rows[t[a]]]
  BY <1>3 DEF Descending, RowsAt
<1>5. \A a \in 1..c : t[a] \in S /\ rows[t[a]] \in RowSet
  BY <1>1, <1>3 DEF RowSet
<1>. HIDE DEF S, t, D, c
<1>6. c \in Nat
  BY <1>2
<1>7. D \in Seq(RowSet) /\ DOMAIN D = 1..c /\ Len(D) = c
  BY <1>4, <1>5, <1>6
<1>8. \A a \in 1..c : D[a] = rows[t[a]]
  BY <1>4
<1>. QED  BY <1>1, <1>2, <1>5, <1>7, <1>8 DEF S, c, t, D

\* The i-th row of the listing stands in its page.
LEMMA PageRow ==
  ASSUME NEW T, NEW s \in Seq(T), NEW limit \in Nat \ {0}, NEW i \in 1..Len(s)
  PROVE  Page(s, limit, limit * ((i - 1) \div limit))[((i - 1) % limit) + 1] = s[i]
<1>1. i - 1 \in Nat /\ Len(s) \in Nat
  OBVIOUS
<1>2. PICK q \in Nat : q = (i - 1) \div limit
  BY <1>1, QuotientAndRest
<1>3. PICK r \in 0..(limit - 1) : r = (i - 1) % limit
  BY <1>1, QuotientAndRest
<1>4. limit * q \in Nat /\ i - 1 = limit * q + r
  BY <1>1, <1>2, <1>3, QuotientAndRest
<1>5. PICK o \in Nat : o = limit * q
  BY <1>4
<1>6. PICK n \in Nat : n = Len(s)
  BY <1>1
<1>7. PICK e \in Nat : e = IF o + limit < n THEN o + limit ELSE n
  OBVIOUS
<1>8. Page(s, limit, o) = SubSeq(s, o + 1, e)
  BY <1>6, <1>7 DEF Page
<1>9. o + 1 + r = i /\ i <= e /\ e <= n /\ r + 1 \in 1..(e - o)
  BY <1>4, <1>5, <1>6, <1>7
<1>10. SubSeq(s, o + 1, e) = [k \in 1..(e - o) |-> s[k + o]]
  BY <1>6, <1>9
<1>11. SubSeq(s, o + 1, e)[r + 1] = s[i]
  <2>1. (r + 1) + o = i
    BY <1>9
  <2>. QED  BY <1>9, <1>10, <2>1
<1>. QED  BY <1>2, <1>3, <1>5, <1>8, <1>11

LEMMA PagesCover ==
  ASSUME RowsInv, NEW f, Asked(f), NEW limit \in Nat \ {0}
  PROVE  Paged(f, limit)
<1>. DEFINE S == Matching(f)
            c == Cardinality(S)
            t == NewestFirst(S)
            D == Descending(f)
            total == Listing(f, limit, 0).total
            walk == [i \in 1..total |->
                       Listing(f, limit, limit * ((i - 1) \div limit)).rows[((i - 1) % limit) + 1]]
            Wanted == {r \in RowSet : (f.types = {} \/ r.type \in f.types) /\ InRange(r, f)}
<1>1. /\ S \in SUBSET DOMAIN rows /\ c \in Nat
      /\ D \in Seq(RowSet) /\ DOMAIN D = 1..c /\ Len(D) = c
      /\ \A a \in 1..c : t[a] \in S /\ D[a] = rows[t[a]]
  BY DescendingRows
<1>2. \A offset : /\ Listing(f, limit, offset).rows = Page(D, limit, offset)
                  /\ Listing(f, limit, offset).total = c
  BY <1>1 DEF Listing, Asked
<1>3. total = c
  BY <1>2
<1>4. \A i \in 1..c : walk[i] = D[i]
  <2>. SUFFICES ASSUME NEW i \in 1..c  PROVE walk[i] = D[i]
    OBVIOUS
  <2>. DEFINE o == limit * ((i - 1) \div limit)
              r == ((i - 1) % limit) + 1
  <2>1. walk[i] = Listing(f, limit, o).rows[r]
    BY <1>3
  <2>2. Page(D, limit, o)[r] = D[i]
    <3>1. D \in Seq(RowSet) /\ i \in 1..Len(D)
      BY <1>1
    <3>. HIDE DEF D
    <3>. QED  BY <3>1, PageRow, Zenon
  <2>3. Listing(f, limit, o).rows = Page(D, limit, o)
    BY <1>2
  <2>. HIDE DEF o, r, D, walk
  <2>. QED  BY <2>1, <2>2, <2>3
<1>5. Walks(t, c, Downward(S), S)
  BY <1>1, NewestWalks
<1>6. Listing(f, limit, total).rows = <<>>
  <2>1. Page(D, limit, c) = SubSeq(D, c + 1, c)
    <3>1. PICK n \in Nat : n = c
      BY <1>1
    <3>2. ~(n + limit < n)
      OBVIOUS
    <3>. QED  BY <1>1, <3>1, <3>2 DEF Page
  <2>2. SubSeq(D, c + 1, c) = <<>>
    BY <1>1
  <2>. QED  BY <1>2, <1>3, <2>1, <2>2
<1>7. ASSUME NEW i \in 1..c, NEW j \in 1..c, i < j
      PROVE  D[i] # D[j] /\ D[i].at >= D[j].at
  <2>1. <<t[i], t[j]>> \in Downward(S)
    BY <1>5, <1>7 DEF Walks
  <2>2. Earlier(t[j], t[i]) /\ t[i] \in DOMAIN rows /\ t[j] \in DOMAIN rows
    BY <1>1, <2>1 DEF Downward
  <2>3. t[j] # t[i] /\ rows[t[i]].at >= rows[t[j]].at
    BY <2>2, EarlierOrders
  <2>4. rows[t[i]].id # rows[t[j]].id
    BY <2>2, <2>3 DEF RowsInv
  <2>. QED  BY <1>1, <2>3, <2>4
<1>8. ASSUME NEW k \in DOMAIN rows
      PROVE  k \in S <=> (f.types = {} \/ rows[k].type \in f.types) /\ InRange(rows[k], f)
  <2>1. PICK at \in Nat : at = rows[k].at
    BY AtTyped
  <2>2. f.to = NoTime \/ (at < f.to <=> ~(f.to <= at))
    BY DEF Asked
  <2>3. f.from = NoTime \/ (at >= f.from <=> f.from <= at)
    BY DEF Asked
  <2>. QED  BY <2>1, <2>2, <2>3 DEF Matching, Matches, InRange
<1>9. {D[i] : i \in 1..c} = Wanted
  <2>1. ASSUME NEW i \in 1..c  PROVE D[i] \in Wanted
    BY <1>1, <1>8 DEF RowSet
  <2>2. ASSUME NEW r \in Wanted  PROVE \E i \in 1..c : D[i] = r
    <3>1. PICK k \in DOMAIN rows : rows[k] = r
      BY DEF RowSet
    <3>2. k \in S
      BY <1>8, <3>1
    <3>3. PICK a \in 1..c : t[a] = k
      BY <1>5, <3>2 DEF Walks
    <3>. QED  BY <1>1, <3>1, <3>3
  <2>. QED  BY <2>1, <2>2
<1>. HIDE DEF D, t, S, c, Wanted
<1>10. {walk[i] : i \in 1..total} = Wanted
  BY <1>3, <1>4, <1>9
<1>11. \A i, j \in 1..total : i < j => walk[i] # walk[j] /\ walk[i].at >= walk[j].at
  <2>. SUFFICES ASSUME NEW i \in 1..c, NEW j \in 1..c, i < j
                PROVE  walk[i] # walk[j] /\ walk[i].at >= walk[j].at
    BY <1>3
  <2>1. D[i] # D[j] /\ D[i].at >= D[j].at
    BY <1>7
  <2>2. walk[i] = D[i] /\ walk[j] = D[j]
    BY <1>4
  <2>. HIDE DEF walk
  <2>. QED  BY <2>1, <2>2
<1>. QED  BY <1>6, <1>10, <1>11 DEF Paged, Wanted

\* What is sent when a type is asked for: the listing of that filter, read
\* backwards.
LEMMA SentBackwards ==
  ASSUME RowsInv, NEW f
  PROVE  LET D == Descending(f) IN
           Ascending(f) = [i \in 1..Len(D) |-> D[Len(D) + 1 - i]]
<1>. DEFINE S == Matching(f)
            c == Cardinality(S)
            t == NewestFirst(S)
            u == OldestFirst(S)
            D == Descending(f)
<1>1. /\ S \in SUBSET DOMAIN rows /\ c \in Nat /\ Len(D) = c
      /\ \A a \in 1..c : D[a] = rows[t[a]]
  BY DescendingRows
<1>2. DOMAIN u = 1..c /\ \A a \in 1..c : u[a] = t[c + 1 - a]
  BY <1>1, NewestWalks
<1>3. Ascending(f) = [a \in 1..c |-> rows[u[a]]]
  BY <1>2 DEF Ascending, RowsAt
<1>. HIDE DEF S, c, t, u, D
<1>4. ASSUME NEW a \in 1..c  PROVE rows[u[a]] = D[c + 1 - a]
  <2>1. c + 1 - a \in 1..c
    BY <1>1
  <2>. QED  BY <1>1, <1>2, <2>1
<1>5. Ascending(f) = [a \in 1..c |-> D[c + 1 - a]]
  BY <1>3, <1>4
<1>. QED  BY <1>1, <1>5 DEF D

\* The text messages of a listing of every type are the listing of the text
\* messages.
LEMMA OnlyText ==
  ASSUME RowsInv, NEW f, NEW h, Asked(f), f.types = {}, h = [f EXCEPT !.types = {"SMS"}]
  PROVE  Only(Descending(f), {r \in RowSet : r.type = "SMS"}) = Descending(h)
<1>. DEFINE S == Matching(f)
            c == Cardinality(S)
            t == NewestFirst(S)
            D == Descending(f)
            T == Matching(h)
            SMS == {r \in RowSet : r.type = "SMS"}
            seen == Only(D, SMS)
            n == Len(seen)
<1>1. /\ S \in SUBSET DOMAIN rows /\ c \in Nat
      /\ D \in Seq(RowSet) /\ DOMAIN D = 1..c /\ Len(D) = c
      /\ \A a \in 1..c : t[a] \in S /\ D[a] = rows[t[a]]
  BY DescendingRows
<1>2. Walks(t, c, Downward(S), S)
  BY <1>1, NewestWalks
<1>3. seen \in Seq(RowSet) /\ Picks(seen, D, SMS, c)
  BY <1>1, OnlyPicks
<1>4. n \in Nat /\ DOMAIN seen = 1..n
  BY <1>3
<1>5. PICK g \in [1..n -> 1..c] :
        /\ \A a \in 1..n : seen[a] = D[g[a]] /\ D[g[a]] \in SMS
        /\ \A a, b \in 1..n : a < b => g[a] < g[b]
        /\ \A i \in 1..c : D[i] \in SMS => \E a \in 1..n : g[a] = i
  BY <1>3 DEF Picks
<1>6. \A i \in DOMAIN rows : i \in T <=> i \in S /\ rows[i].type = "SMS"
  <2>1. h.types = {"SMS"} /\ h.from = f.from /\ h.to = f.to
    BY DEF Asked
  <2>. QED  BY <2>1 DEF Matching, Matches
<1>7. T \in SUBSET DOMAIN rows
  BY DEF Matching
<1>. DEFINE v == [a \in 1..n |-> t[g[a]]]
<1>. HIDE DEF S, T, t, c, D, n, seen
<1>8. ASSUME NEW a \in 1..n  PROVE v[a] \in T /\ seen[a] = rows[v[a]]
  <2>1. g[a] \in 1..c /\ v[a] = t[g[a]]
    OBVIOUS
  <2>2. v[a] \in S /\ D[g[a]] = rows[v[a]] /\ seen[a] = D[g[a]] /\ D[g[a]] \in SMS
    BY <1>1, <1>5, <2>1
  <2>. QED  BY <1>1, <1>6, <2>2
<1>9. Walks(v, n, Downward(T), T)
  <2>1. v \in [1..n -> T]
    BY <1>8
  <2>2. ASSUME NEW i \in T  PROVE \E a \in 1..n : v[a] = i
    <3>1. i \in S /\ rows[i].type = "SMS" /\ i \in DOMAIN rows
      BY <1>6, <1>7
    <3>2. PICK b \in 1..c : t[b] = i
      BY <1>2, <3>1 DEF Walks
    <3>3. D[b] \in SMS
      BY <1>1, <3>1, <3>2 DEF RowSet
    <3>4. PICK a \in 1..n : g[a] = b
      BY <1>5, <3>3
    <3>. QED  BY <3>2, <3>4
  <2>3. ASSUME NEW a \in 1..n, NEW b \in 1..n, a < b  PROVE <<v[a], v[b]>> \in Downward(T)
    <3>1. g[a] < g[b] /\ g[a] \in 1..c /\ g[b] \in 1..c
      BY <1>5, <2>3
    <3>2. <<t[g[a]], t[g[b]]>> \in Downward(S)
      BY <1>2, <3>1 DEF Walks
    <3>3. Earlier(v[b], v[a])
      BY <3>2 DEF Downward
    <3>4. v[a] \in T /\ v[b] \in T
      BY <1>8
    <3>. QED  BY <3>3, <3>4 DEF Downward
  <2>. QED  BY <1>4, <2>1, <2>2, <2>3 DEF Walks
<1>10. v = NewestFirst(T) /\ n = Cardinality(T)
  BY <1>7, <1>9, ListOrder, WalkIsSorted
<1>11. Descending(h) = [a \in 1..n |-> rows[v[a]]]
  <2>1. DOMAIN NewestFirst(T) = 1..n
    BY <1>7, <1>10, NewestWalks
  <2>. QED  BY <1>10, <2>1 DEF Descending, RowsAt, T
<1>12. seen = [a \in 1..n |-> seen[a]]
  BY <1>3, <1>4
<1>. HIDE DEF v
<1>13. seen = Descending(h)
  BY <1>8, <1>11, <1>12
<1>. QED  BY <1>13 DEF seen, D

LEMMA ReplayMirrors ==
  ASSUME RowsInv, NEW f, Asked(f)
  PROVE  Mirrored(f)
<1>. DEFINE h == [f EXCEPT !.types = IF f.types = {} THEN {"SMS"} ELSE f.types]
            all == Listing(f, Len(rows) + 1, 0).rows
            D == Descending(f)
<1>1. Replay(f, "Individual") = Ascending(h)
  BY DEF Replay, Asked
<1>2. all = D
  <2>1. /\ D \in Seq(RowSet) /\ Len(D) \in 0..Len(rows) /\ Len(rows) \in Nat
    BY DescendingRows
  <2>2. all = Page(D, Len(rows) + 1, 0)
    BY DEF Listing, Asked
  <2>3. ~(0 + (Len(rows) + 1) < Len(D)) /\ 0 + 1 = 1
    BY <2>1
  <2>4. Page(D, Len(rows) + 1, 0) = SubSeq(D, 1, Len(D))
    BY <2>3 DEF Page
  <2>. HIDE DEF D
  <2>5. SubSeq(D, 1, Len(D)) = D
    BY <2>1
  <2>. QED  BY <2>2, <2>4, <2>5
<1>3. CASE f.types = {}
  <2>1. h = [f EXCEPT !.types = {"SMS"}]
    BY <1>3
  <2>2. Only(all, {r \in RowSet : r.type = "SMS"}) = Descending(h)
    BY <1>2, <1>3, <2>1, OnlyText
  <2>. DEFINE seen == Only(all, {r \in RowSet : r.type = "SMS"})
  <2>3. Ascending(h) = [i \in 1..Len(seen) |-> seen[Len(seen) + 1 - i]]
    <3>. HIDE DEF h, all, seen
    <3>1. seen = Descending(h)
      BY <2>2 DEF seen
    <3>. QED  BY <3>1, SentBackwards
  <2>4. Replay(f, "Individual") = [i \in 1..Len(seen) |-> seen[Len(seen) + 1 - i]]
    BY <1>1, <2>3, Zenon
  <2>5. seen = IF f.types = {} THEN Only(all, {r \in RowSet : r.type = "SMS"}) ELSE all
    BY <1>3, Zenon
  <2>. HIDE DEF seen
  <2>6. \A s : s = seen => Replay(f, "Individual") = [i \in 1..Len(s) |-> s[Len(s) + 1 - i]]
    BY <2>4, Zenon
  <2>. QED  BY <2>5, <2>6, Zenon DEF Mirrored
<1>4. CASE f.types # {}
  <2>1. h = f
    BY <1>4 DEF Asked
  <2>. HIDE DEF h, all
  <2>. QED  BY <1>1, <1>2, <1>4, <2>1, SentBackwards DEF Mirrored, all
<1>. QED  BY <1>3, <1>4

\* The pages of a listing, of any size, hold every matching row once and in
\* order, and a replay sends them in the opposite order, for every table and
\* every filter that is not refused (service.go:146-273).
THEOREM EveryListingAgrees ==
  Spec => [](\A f : Asked(f) => /\ \A limit \in Nat \ {0} : Paged(f, limit)
                                /\ Mirrored(f))
<1>1. RowsInv => \A f : Asked(f) => /\ \A limit \in Nat \ {0} : Paged(f, limit)
                                    /\ Mirrored(f)
  BY PagesCover, ReplayMirrors
<1>2. IbInv /\ [Next]_vars => IbInv'
  BY StepIb
<1>. QED  BY <1>1, <1>2, InitIb, InitRows, StepRows, PTL DEF Spec

\* The property of the runs, of which that is the general form.
THEOREM ListingsAgreeCorrect == Spec => []ListingsAgree
<1>1. ASSUME NEW types, NEW f \in Filters(types)
      PROVE  Asked(f)
  <2>1. /\ f = [device |-> f.device, types |-> f.types, from |-> f.from, to |-> f.to]
        /\ f.device = "" /\ f.from \in {NoTime, 1} /\ f.to \in {NoTime, 1}
    BY DEF Filters
  <2>2. f.from # NoTime /\ f.to # NoTime => ~(f.from > f.to)
    <3>1. f.from # NoTime /\ f.to # NoTime => f.from = 1 /\ f.to = 1
      BY <2>1
    <3>2. ~(1 > 1)
      OBVIOUS
    <3>. QED  BY <3>1, <3>2
  <2>3. f.device \in {"", "local"}
    BY <2>1
  <2>4. ~Invalid(f)
    BY <2>2, <2>3 DEF Invalid
  <2>5. {NoTime, 1} \subseteq Nat \cup {NoTime}
    OBVIOUS
  <2>6. f.from \in Nat \cup {NoTime} /\ f.to \in Nat \cup {NoTime}
    BY <2>1, <2>5
  <2>. QED  BY <2>1, <2>4, <2>6 DEF Asked
<1>2. RowsInv => ListingsAgree
  BY <1>1, PagesCover, ReplayMirrors
  DEF ListingsAgree, PagesCoverListing, RefreshMirrorsListing
<1>3. IbInv /\ [Next]_vars => IbInv'
  BY StepIb
<1>. QED  BY <1>2, <1>3, InitIb, InitRows, StepRows, PTL DEF Spec

-----------------------------------------------------------------------------
(* Where a part is, for the way of an SMS through the whole gateway.       *)

IsBuffered(q) ==
  \E k \in DOMAIN groups : \E i \in DOMAIN groups[k].parts : groups[k].parts[i] = q

IsInHand(q) == hand.stage = "store" /\ \E i \in DOMAIN hand.body : hand.body[i] = q

\* A buffered part may go when p is taken.
GoesFor(p, k, i) ==
  \/ Expired(k)
  \/ ~Joins(p[1]) /\ Crowded(k)
  \/ Resized(k)
  \/ Completes(k) /\ Segments[hand'.body[1][1]] # groups[k].segments
  \/ KeyOf(p[1]) = k /\ p[2] = i
  \/ Completes(k) /\ i \notin 1..Needed(groups[k].segments)

\* What taking p does to every part: p comes into a group or into hand, the
\* others stay buffered, come into hand, or go for a reason.
Moves(p) ==
  /\ IsBuffered(p)' \/ IsInHand(p)'
  /\ \A q \in Parts :
       /\ ~IsInHand(q)
       /\ IsBuffered(q)' \/ IsInHand(q)' => IsBuffered(q) \/ q = p
       /\ ~(IsBuffered(q)' /\ IsInHand(q)')
  /\ \A q \in Parts, k \in DOMAIN groups : \A i \in DOMAIN groups[k].parts :
       groups[k].parts[i] = q => IsBuffered(q)' \/ IsInHand(q)' \/ GoesFor(p, k, i)

LEMMA SingleMoves ==
  ASSUME IbInv, Incomplete, NEW p \in Parts, TakeSingle(p)
  PROVE  Incomplete' /\ Moves(p)
<1>1. hand' = [stage |-> "store", body |-> <<p>>] /\ UNCHANGED groups /\ hand.stage = "idle"
  BY DEF TakeSingle, Holding, Ready
<1>2. \A q : IsInHand(q)' <=> q = p
  BY <1>1 DEF IsInHand
<1>3. \A q : (IsBuffered(q)' <=> IsBuffered(q)) /\ ~IsInHand(q)
  BY <1>1 DEF IsBuffered, IsInHand
<1>4. ~IsBuffered(p)
  BY DEF IsBuffered, IbInv, GroupsInv, GroupOf, TakeSingle
<1>5. Incomplete'
  BY <1>1 DEF Incomplete, Whole, Needed
<1>6. \A q : IsBuffered(q)' \/ IsInHand(q)' => IsBuffered(q) \/ q = p
  BY <1>2, <1>3
<1>7. \A q : ~(IsBuffered(q)' /\ IsInHand(q)')
  BY <1>2, <1>3, <1>4
<1>8. ASSUME NEW q, NEW k \in DOMAIN groups, NEW i \in DOMAIN groups[k].parts,
             groups[k].parts[i] = q
      PROVE  IsBuffered(q)'
  BY <1>3, <1>8 DEF IsBuffered
<1>. QED  BY <1>2, <1>3, <1>5, <1>6, <1>7, <1>8 DEF Moves

\* The part enters a group that is not complete.
LEMMA EnterMoves ==
  ASSUME IbInv, Incomplete, NEW p \in Parts, ~Single(p[1]), Ready,
         NEW g, DOMAIN g \subseteq DOMAIN groups, \A k \in DOMAIN g : g[k] = groups[k],
         NEW group, GroupOf(KeyOf(p[1]), group), group.segments = Segments[p[1]], ~Whole(group),
         Enter(p, g, group)
  PROVE  LET k0 == KeyOf(p[1]) IN
    /\ Incomplete'
    /\ DOMAIN groups' \ {k0} = DOMAIN g \ {k0}
    /\ \A k \in DOMAIN g \ {k0} : groups'[k] = groups[k]
    /\ IsBuffered(p)' \/ IsInHand(p)'
    /\ \A q : IsBuffered(q)' \/ IsInHand(q)' =>
         \/ q = p
         \/ \E i \in DOMAIN group.parts : q = group.parts[i]
         \/ \E k \in DOMAIN g \ {k0} : \E i \in DOMAIN groups[k].parts : q = groups[k].parts[i]
    /\ \A q : ~(IsBuffered(q)' /\ IsInHand(q)')
    /\ \A i \in DOMAIN group.parts :
         \/ IsBuffered(group.parts[i])' \/ IsInHand(group.parts[i])'
         \/ p[2] = i
         \/ Completes(k0) /\ i \notin 1..Needed(group.segments)
    /\ \/ Completes(k0) /\ Segments[hand'.body[1][1]] = group.segments
       \/ k0 \in DOMAIN groups' /\ groups'[k0].segments = group.segments /\ hand' = hand
<1>. DEFINE k0 == KeyOf(p[1])
            new == Joined(p, group)
            n == Needed(group.segments)
<1>1. /\ GroupOf(k0, new) /\ new.segments = group.segments
      /\ new.parts = With(group.parts, p[2], p)
  BY JoinedIsGroup
<1>2. /\ DOMAIN new.parts = DOMAIN group.parts \cup {p[2]} /\ new.parts[p[2]] = p
      /\ \A i \in DOMAIN group.parts : i # p[2] => new.parts[i] = group.parts[i]
  BY <1>1 DEF With
<1>3. p[1] \in Msgs
  BY PartTyped
<1>4. hand.stage = "idle" /\ hand.body = <<>>
  BY DEF Ready, IbInv, HandInv
<1>5. \A k \in DOMAIN groups : GroupOf(k, groups[k])
  BY DEF IbInv, GroupsInv
<1>6. CASE Whole(new)
  <2>1. groups' = Without(g, k0) /\ hand' = Holding(BodyOf(new))
    BY <1>6 DEF Enter, Joined, Completed
  <2>2. DOMAIN groups' = DOMAIN g \ {k0} /\ \A k \in DOMAIN groups' : groups'[k] = groups[k]
    BY <2>1 DEF Without
  <2>. DEFINE b == BodyOf(new)
  <2>3. /\ DOMAIN b = 1..n /\ b # <<>> /\ 1 \in DOMAIN b
        /\ \A i \in DOMAIN b : b[i] = new.parts[i] /\ KeyOf(b[i][1]) = k0
        /\ \A i \in DOMAIN b : Segments[b[i][1]] = group.segments
    BY <1>1, <1>3, <1>6, BodyIsWhole
  <2>4. hand'.stage = "store" /\ hand'.body = b
    BY <2>1 DEF Holding
  <2>5. 1 \in DOMAIN b
    BY <2>3
  <2>6. Completes(k0) /\ Segments[hand'.body[1][1]] = group.segments
    BY <1>4, <2>3, <2>4, <2>5 DEF Completes
  <2>7. p[2] \in 1..n
    <3>1. PICK i \in 1..n : i \notin DOMAIN group.parts
      BY DEF Whole
    <3>2. i \in DOMAIN new.parts
      BY <1>1, <1>6 DEF Whole
    <3>. QED  BY <1>2, <3>1, <3>2
  <2>8. \A i \in 1..n : i \in DOMAIN new.parts
    BY <1>1, <1>6 DEF Whole
  <2>9. \A q : IsInHand(q)' <=> \E i \in 1..n : new.parts[i] = q
    BY <2>3, <2>4 DEF IsInHand
  <2>10. \A q : IsBuffered(q)' <=>
           \E k \in DOMAIN g \ {k0} : \E i \in DOMAIN groups[k].parts : groups[k].parts[i] = q
    BY <2>2 DEF IsBuffered
  <2>11. IsInHand(p)'
    BY <1>2, <2>7, <2>9
  <2>12. \A q : IsInHand(q)' => q = p \/ \E i \in DOMAIN group.parts : q = group.parts[i]
    BY <1>2, <2>8, <2>9
  <2>13. \A q : ~(IsBuffered(q)' /\ IsInHand(q)')
    <3>. SUFFICES ASSUME NEW q, IsBuffered(q)', IsInHand(q)'  PROVE FALSE
      OBVIOUS
    <3>1. KeyOf(q[1]) # k0
      BY <1>5, <2>10 DEF GroupOf
    <3>2. KeyOf(q[1]) = k0
      BY <1>1, <2>8, <2>9 DEF GroupOf
    <3>. QED  BY <3>1, <3>2
  <2>14. ASSUME NEW i \in DOMAIN group.parts, i # p[2], i \in 1..n
         PROVE  IsInHand(group.parts[i])'
    BY <1>2, <2>9, <2>14
  <2>15. Incomplete'
    <3>1. \A k \in DOMAIN groups' : ~Whole(groups'[k])
      BY <2>2 DEF Incomplete
    <3>. QED  BY <3>1 DEF Incomplete, Whole, Needed
  <2>16. \A k \in DOMAIN g \ {k0} : groups'[k] = groups[k]
    BY <2>2
  <2>. HIDE DEF b, new, k0, n
  <2>. QED  BY <2>2, <2>6, <2>10, <2>11, <2>12, <2>13, <2>14, <2>15, <2>16 DEF k0, n
<1>7. CASE ~Whole(new)
  <2>1. groups' = With(g, k0, new) /\ hand' = hand
    BY <1>7 DEF Enter, Joined
  <2>2. /\ DOMAIN groups' = DOMAIN g \cup {k0} /\ groups'[k0] = new
        /\ \A k \in DOMAIN g \ {k0} : groups'[k] = groups[k]
    BY <2>1 DEF With
  <2>3. \A q : ~IsInHand(q)'
    BY <1>4, <2>1 DEF IsInHand
  <2>4. \A q : IsBuffered(q)' <=>
          \/ \E i \in DOMAIN new.parts : new.parts[i] = q
          \/ \E k \in DOMAIN g \ {k0} : \E i \in DOMAIN groups[k].parts : groups[k].parts[i] = q
    BY <2>2 DEF IsBuffered
  <2>5. IsBuffered(p)'
    BY <1>2, <2>4
  <2>6. \A i \in DOMAIN group.parts : i # p[2] => IsBuffered(group.parts[i])'
    BY <1>2, <2>4
  <2>7. Incomplete'
    <3>1. \A k \in DOMAIN groups' : ~Whole(groups'[k])
      BY <1>7, <2>2 DEF Incomplete
    <3>. QED  BY <3>1 DEF Incomplete, Whole, Needed
  <2>8. k0 \in DOMAIN groups' /\ groups'[k0].segments = group.segments /\ hand' = hand
    BY <1>1, <2>1, <2>2
  <2>9. \A q : (\E i \in DOMAIN new.parts : new.parts[i] = q) =>
                 q = p \/ \E i \in DOMAIN group.parts : q = group.parts[i]
    BY <1>2
  <2>10. DOMAIN groups' \ {k0} = DOMAIN g \ {k0}
    BY <2>2
  <2>11. \A k \in DOMAIN g \ {k0} : groups'[k] = groups[k]
    BY <2>2
  <2>. HIDE DEF new, k0
  <2>. QED  BY <2>3, <2>4, <2>5, <2>6, <2>7, <2>8, <2>9, <2>10, <2>11 DEF k0
<1>. QED  BY <1>6, <1>7

LEMMA KnownMoves ==
  ASSUME IbInv, Incomplete, NEW p \in Parts, TakeKnown(p)
  PROVE  Incomplete' /\ Moves(p)
<1>. DEFINE k0 == KeyOf(p[1])
            group == groups[k0]
<1>1. /\ Ready /\ ~Single(p[1]) /\ k0 \in DOMAIN groups
      /\ group.segments = Segments[p[1]] /\ Enter(p, groups, group)
  BY DEF TakeKnown, Joins
<1>2. GroupOf(k0, group) /\ ~Whole(group)
  BY <1>1 DEF IbInv, GroupsInv, Incomplete
<1>3. PICK old : old = group
  OBVIOUS
<1>4. PICK g : g = groups
  OBVIOUS
<1>5. /\ Incomplete'
      /\ \A k \in DOMAIN g \ {k0} : k \in DOMAIN groups' /\ groups'[k] = g[k]
      /\ IsBuffered(p)' \/ IsInHand(p)'
      /\ \A q : IsBuffered(q)' \/ IsInHand(q)' =>
           \/ q = p
           \/ \E i \in DOMAIN old.parts : q = old.parts[i]
           \/ \E k \in DOMAIN g \ {k0} : \E i \in DOMAIN g[k].parts : q = g[k].parts[i]
      /\ \A q : ~(IsBuffered(q)' /\ IsInHand(q)')
      /\ \A i \in DOMAIN old.parts :
           \/ IsBuffered(old.parts[i])' \/ IsInHand(old.parts[i])'
           \/ p[2] = i
           \/ Completes(k0) /\ i \notin 1..Needed(old.segments)
  <2>1. GroupOf(k0, old) /\ old.segments = Segments[p[1]] /\ ~Whole(old) /\ Enter(p, g, old)
    BY <1>1, <1>2, <1>3, <1>4
  <2>. HIDE DEF group
  <2>. QED  BY <1>1, <1>4, <2>1, EnterMoves
<1>6. \A q : ~IsInHand(q)
  BY <1>1 DEF Ready, IsInHand
<1>7. \A q : IsBuffered(q)' \/ IsInHand(q)' => IsBuffered(q) \/ q = p
  BY <1>1, <1>3, <1>4, <1>5 DEF IsBuffered
<1>8. ASSUME NEW q, NEW k \in DOMAIN groups, NEW i \in DOMAIN groups[k].parts,
             groups[k].parts[i] = q
      PROVE  IsBuffered(q)' \/ IsInHand(q)' \/ GoesFor(p, k, i)
  <2>1. CASE k # k0
    BY <1>4, <1>5, <1>8, <2>1 DEF IsBuffered
  <2>2. CASE k = k0
    BY <1>3, <1>5, <1>8, <2>2 DEF GoesFor
  <2>. QED  BY <2>1, <2>2
<1>. QED  BY <1>5, <1>6, <1>7, <1>8 DEF Moves

LEMMA NewMoves ==
  ASSUME IbInv, Incomplete, NEW p \in Parts, TakeNew(p)
  PROVE  Incomplete' /\ Moves(p)
<1>. DEFINE k0 == KeyOf(p[1])
<1>1. /\ Ready /\ ~Single(p[1]) /\ ~Joins(p[1])
      /\ \E g \in WithRoom : Enter(p, g, NewGroup(p[1]))
  BY DEF TakeNew
<1>2. PICK g \in WithRoom : Enter(p, g, NewGroup(p[1]))
  BY <1>1
<1>3. PICK fresh : fresh = NewGroup(p[1])
  OBVIOUS
<1>4. /\ fresh.segments = Segments[p[1]] /\ DOMAIN fresh.parts = {}
      /\ fresh = [segments |-> fresh.segments, firstAt |-> fresh.firstAt, parts |-> fresh.parts]
      /\ fresh.firstAt = clock
  BY <1>3 DEF NewGroup
<1>5. GroupOf(k0, fresh) /\ ~Whole(fresh)
  BY <1>1, <1>4, PartTyped DEF GroupOf, IbInv, Whole, Needed
<1>6. DOMAIN g \subseteq DOMAIN groups /\ \A k \in DOMAIN g : g[k] = groups[k]
  BY RoomKeeps DEF IbInv
<1>7. /\ Incomplete'
      /\ DOMAIN groups' \ {k0} = DOMAIN g \ {k0}
      /\ \A k \in DOMAIN g \ {k0} : groups'[k] = groups[k]
      /\ IsBuffered(p)' \/ IsInHand(p)'
      /\ \A q : IsBuffered(q)' \/ IsInHand(q)' =>
           \/ q = p
           \/ \E k \in DOMAIN g \ {k0} : \E i \in DOMAIN groups[k].parts : q = groups[k].parts[i]
      /\ \A q : ~(IsBuffered(q)' /\ IsInHand(q)')
      /\ \/ Completes(k0) /\ Segments[hand'.body[1][1]] = Segments[p[1]]
         \/ k0 \in DOMAIN groups' /\ groups'[k0].segments = Segments[p[1]] /\ hand' = hand
  <2>1. Enter(p, g, fresh)
    BY <1>2, <1>3
  <2>. QED  BY <1>1, <1>4, <1>5, <1>6, <2>1, EnterMoves
<1>8. \A q : ~IsInHand(q)
  BY <1>1 DEF Ready, IsInHand
<1>9. \A q : IsBuffered(q)' \/ IsInHand(q)' => IsBuffered(q) \/ q = p
  BY <1>6, <1>7 DEF IsBuffered
<1>10. ASSUME NEW q, NEW k \in DOMAIN groups, NEW i \in DOMAIN groups[k].parts,
              groups[k].parts[i] = q
       PROVE  IsBuffered(q)' \/ IsInHand(q)' \/ GoesFor(p, k, i)
  <2>1. CASE k = k0
    <3>1. groups[k].segments # Segments[p[1]]
      BY <1>1, <2>1 DEF Joins
    <3>. QED  BY <1>7, <2>1, <3>1 DEF GoesFor, Resized
  <2>2. CASE k # k0 /\ k \in DOMAIN g
    BY <1>7, <1>10, <2>2 DEF IsBuffered
  <2>3. CASE k # k0 /\ k \notin DOMAIN g
    <3>1. k \notin DOMAIN groups'
      BY <1>7, <2>3
    <3>2. ~Completes(k)
      <4>1. CASE Completes(k0)
        BY <2>3, <4>1 DEF Completes
      <4>2. CASE hand' = hand
        BY <4>2 DEF Completes
      <4>. QED  BY <1>7, <4>1, <4>2
    <3>3. Expired(k) \/ Crowded(k)
      BY <3>1, <3>2, TakeNewKeeps DEF Leaves, Stays, Resized
    <3>. QED  BY <1>1, <3>3 DEF GoesFor
  <2>. QED  BY <2>1, <2>2, <2>3
<1>. QED  BY <1>7, <1>8, <1>9, <1>10 DEF Moves

\* The steps that take no part and lose no group but to its window.
Alone == Persist \/ PersistFails \/ Emit \/ Sweep \/ Cleanup \/ Tick \/ UNCHANGED vars

LEMMA OthersMove ==
  ASSUME IbInv, Incomplete, Alone
  PROVE  /\ Incomplete'
         /\ \A q : (IsBuffered(q)' => IsBuffered(q)) /\ (IsInHand(q)' => IsInHand(q))
         /\ \A q : \A k \in DOMAIN groups : \A i \in DOMAIN groups[k].parts :
              groups[k].parts[i] = q => IsBuffered(q)' \/ Expired(k)
         /\ \A q : IsInHand(q) =>
              \/ IsInHand(q)' /\ hand'.stage = "store"
              \/ hand'.stage \in {"offer", "offer unstored"}
<1>1. CASE Sweep
  <2>1. groups' = Swept /\ hand' = hand
    BY <1>1 DEF Sweep
  <2>2. /\ DOMAIN groups' = {k \in DOMAIN groups : ~Expired(k)}
        /\ \A k \in DOMAIN groups' : groups'[k] = groups[k]
    BY <2>1 DEF Swept
  <2>3. \A q : IsInHand(q)' <=> IsInHand(q)
    BY <2>1 DEF IsInHand
  <2>4. Incomplete'
    <3>1. \A k \in DOMAIN groups' : ~Whole(groups'[k])
      BY <2>2 DEF Incomplete
    <3>. QED  BY <3>1 DEF Incomplete, Whole, Needed
  <2>5. \A q : IsBuffered(q)' => IsBuffered(q)
    BY <2>2 DEF IsBuffered
  <2>6. ASSUME NEW q, NEW k \in DOMAIN groups, NEW i \in DOMAIN groups[k].parts,
               groups[k].parts[i] = q, ~Expired(k)
        PROVE  IsBuffered(q)'
    BY <2>2, <2>6 DEF IsBuffered
  <2>7. \A q : IsInHand(q) => hand.stage = "store"
    BY DEF IsInHand
  <2>. QED  BY <2>1, <2>3, <2>4, <2>5, <2>6, <2>7
<1>2. CASE ~Sweep
  <2>1. groups' = groups
    BY <1>2 DEF Alone, Persist, PersistFails, Emit, Cleanup, Tick, vars
  <2>2. Incomplete'
    BY <2>1 DEF Incomplete, Whole, Needed
  <2>3. \A q : IsBuffered(q)' <=> IsBuffered(q)
    BY <2>1 DEF IsBuffered
  <2>4. ASSUME NEW q, NEW k \in DOMAIN groups, NEW i \in DOMAIN groups[k].parts,
               groups[k].parts[i] = q
        PROVE  IsBuffered(q)'
    BY <2>1, <2>4 DEF IsBuffered
  <2>5. \/ hand' = hand
        \/ hand'.stage \in {"offer", "offer unstored"} /\ hand.stage = "store"
        \/ hand.stage # "store" /\ hand'.stage = "idle"
    <3>1. CASE Persist \/ PersistFails
      BY <3>1 DEF Persist, PersistFails, IbInv, HandInv
    <3>2. CASE Emit
      BY <3>2 DEF Emit, MayOffer, Resting
    <3>3. CASE Cleanup \/ Tick \/ UNCHANGED vars
      BY <3>3 DEF Cleanup, Tick, vars
    <3>. QED  BY <1>2, <3>1, <3>2, <3>3 DEF Alone
  <2>6. \A q : IsInHand(q)' => IsInHand(q)
    BY <2>5 DEF IsInHand
  <2>7. ASSUME NEW q, IsInHand(q)
        PROVE  \/ IsInHand(q)' /\ hand'.stage = "store"
               \/ hand'.stage \in {"offer", "offer unstored"}
    BY <2>5, <2>7 DEF IsInHand
  <2>. QED  BY <2>2, <2>3, <2>4, <2>6, <2>7
<1>. QED  BY <1>1, <1>2

LEMMA RestartMoves ==
  ASSUME Restart
  PROVE  Incomplete' /\ \A q : ~IsBuffered(q)' /\ ~IsInHand(q)'
<1>1. DOMAIN groups' = {} /\ hand'.stage = "idle"
  BY DEF Restart, Resting
<1>. QED  BY <1>1 DEF Incomplete, IsBuffered, IsInHand

LEMMA InitPlaces ==
  ASSUME Init
  PROVE  Incomplete /\ \A q : ~IsBuffered(q) /\ ~IsInHand(q)
<1>1. DOMAIN groups = {} /\ hand.stage = "idle"
  BY DEF Init, Resting
<1>. QED  BY <1>1 DEF Incomplete, IsBuffered, IsInHand

\* A message whose parts are all there is in hand at once, whatever was
\* evicted, superseded or repeated before (service.go:330-352).
THEOREM IncompleteCorrect == Spec => []Incomplete
<1>1. Init => Incomplete
  BY InitPlaces
<1>2. IbInv /\ Incomplete /\ [Next]_vars => Incomplete'
  BY SingleMoves, KnownMoves, NewMoves, OthersMove, RestartMoves DEF Next, Alone
<1>. QED  BY <1>1, <1>2, IbInvCorrect, PTL DEF Spec

\* A group holds parts that went into no message, and never all of one: one
\* hand-off serves one message, and a whole message does not wait
\* (service.go:330-352).
THEOREM GroupsAreOpenCorrect == Spec => []GroupsAreOpen
<1>1. BufferedIsUnused /\ Incomplete => GroupsAreOpen
  BY DEF GroupsAreOpen
<1>. QED  BY <1>1, BufferedIsUnusedCorrect, IncompleteCorrect, PTL

=============================================================================
