-------------------------- MODULE PollSelect_proofs --------------------------
(***************************************************************************)
(* For any descriptors, arrays, sets and timeouts, with messages and time  *)
(* coming at any point of a round: what the overridden poll() says of the  *)
(* descriptors it has looked at is true when it has come to its end.       *)
(***************************************************************************)
EXTENDS PollSelect, FiniteSetTheorems, SequenceTheorems, WellFoundedInduction, TLAPS

-----------------------------------------------------------------------------
(* The inductive invariant.                                                *)

InCall == pc \in { "look", "time", "kernel", "clear" }

\* The entries before this one have been looked at in this round.
Passed == IF pc = "look" THEN i - 1 ELSE Len(fds)

\* In the rounds of poll(), and at their end: what has been counted is there, and what
\* has been passed without being counted was not there when the call began.
UpTo(S, n)   == { k \in S : k <= n }
InputsTo(n)  == UpTo(Inputs, n)
OutputsTo(n) == UpTo(Outputs, n)

CountIsTrue ==
  InCall => eventCount <= Cardinality(InputsTo(Passed)) + Cardinality(OutputsTo(Passed))

NoneIsTrue ==
  pc \in { "look", "time", "clear" } /\ eventCount = 0 =>
    \A k \in 1 .. Passed : /\ ~ (Wants("OUT", k) /\ fds[k].fd \in Bridged)
                           /\ ~ (Wants("IN", k) /\ fds[k].fd \in early)

EarlyStays == InCall => early \subseteq data

CountFits == pc \in { "look", "time" } => eventCount \in 0 .. 2 * Passed

\* The rounds are made over buffers only, and over one at least; the real poll() is asked
\* of no buffer.
OneKind ==
  /\ pc \in { "look", "time" } => Len(fds) >= 1 /\ \A k \in DOMAIN fds : fds[k].fd \in Bridged
  /\ pc = "kernel" => \A k \in DOMAIN fds : fds[k].fd \notin Bridged

IInv ==
  TypeOK /\ OneKind /\ CountFits /\ EarlyStays /\ CountIsTrue /\ NoneIsTrue /\ NeverGivesUp

-----------------------------------------------------------------------------
(* What a look at an entry finds.                                          *)

\* A set of flags has as many members as there are flags in it.
LEMMA FlagsCount ==
  ASSUME NEW s \in SUBSET Flags
  PROVE  Cardinality(s) = (IF "IN" \in s THEN 1 ELSE 0) + (IF "OUT" \in s THEN 1 ELSE 0)
<1>1. \A f : Cardinality({f}) = 1 /\ IsFiniteSet({f})
  BY FS_Singleton
<1>2. Cardinality({"IN", "OUT"}) = 2
  <2>1. {"IN", "OUT"} = {"IN"} \cup {"OUT"} /\ "OUT" \notin {"IN"}
    OBVIOUS
  <2>2. IsFiniteSet({"IN"}) /\ Cardinality({"IN"}) = 1
    BY <1>1
  <2>3. Cardinality({"IN"} \cup {"OUT"}) = 1 + 1
    BY <2>1, <2>2, FS_AddElement
  <2> QED
    BY <2>1, <2>3
<1>3. Cardinality({}) = 0
  BY FS_EmptySet
<1>4. s = {} \/ s = {"IN"} \/ s = {"OUT"} \/ s = {"IN", "OUT"}
  BY DEF Flags
<1>5. Cardinality({"IN"}) = 1 /\ Cardinality({"OUT"}) = 1
  BY <1>1
<1> QED
  BY <1>2, <1>3, <1>4, <1>5

\* What is there of an entry, and what a look counts of it.
LEMMA EntryFlags ==
  ASSUME NEW e \in Entry
  PROVE  Ready(e) \in SUBSET Flags /\ Given(e) \in SUBSET Flags
BY DEF Ready, Given, Entry, Flags

\* A part of an array has no more entries than the array, and one with another entry
\* has more.
LEMMA Parts ==
  ASSUME NEW n \in Nat, NEW B \in SUBSET (1 .. n), NEW A \in SUBSET B
  PROVE  /\ Cardinality(A) \in Nat /\ Cardinality(B) \in Nat /\ Cardinality(A) <= Cardinality(B)
         /\ IsFiniteSet(A) /\ IsFiniteSet(B)
         /\ \A x \in B : x \notin A => Cardinality(A) + 1 <= Cardinality(B)
<1>1. IsFiniteSet(1 .. n)
  BY FS_Interval
<1>2. IsFiniteSet(B) /\ IsFiniteSet(A) /\ Cardinality(A) <= Cardinality(B)
  BY <1>1, FS_Subset
<1>3. ASSUME NEW x \in B, x \notin A PROVE Cardinality(A) + 1 <= Cardinality(B)
  <2>1. Cardinality(A \cup {x}) = Cardinality(A) + 1
    BY <1>2, <1>3, FS_AddElement
  <2>2. A \cup {x} \in SUBSET B
    BY <1>3
  <2>3. Cardinality(A \cup {x}) <= Cardinality(B)
    BY <1>2, <2>2, FS_Subset
  <2> QED
    BY <2>1, <2>3
<1> QED
  BY <1>2, <1>3, FS_CardinalityType

\* How the part of some entries up to one of them grows with it.
LEMMA OneFurther ==
  ASSUME NEW n \in Nat, NEW S \in SUBSET (1 .. n), NEW j \in 1 .. n
  PROVE  /\ Cardinality(UpTo(S, j - 1)) \in Nat /\ Cardinality(UpTo(S, j)) \in Nat
         /\ Cardinality(UpTo(S, j)) >= Cardinality(UpTo(S, j - 1)) + (IF j \in S THEN 1 ELSE 0)
<1>1. \A k \in S : k \in 1 .. n /\ k \in Int
  OBVIOUS
<1>2. UpTo(S, j) \in SUBSET (1 .. n)
  BY <1>1 DEF UpTo
<1>3. UpTo(S, j - 1) \in SUBSET UpTo(S, j)
  <2> SUFFICES ASSUME NEW k \in S, k <= j - 1 PROVE k <= j
    BY DEF UpTo
  <2> QED
    BY <1>1
<1>4. j \notin UpTo(S, j - 1)
  <2>1. ~ (j <= j - 1)
    OBVIOUS
  <2> QED
    BY <2>1 DEF UpTo
<1>5. j \in S => j \in UpTo(S, j)
  BY <1>1 DEF UpTo
<1>6. /\ Cardinality(UpTo(S, j - 1)) \in Nat /\ Cardinality(UpTo(S, j)) \in Nat
      /\ Cardinality(UpTo(S, j - 1)) <= Cardinality(UpTo(S, j))
      /\ j \in S => Cardinality(UpTo(S, j - 1)) + 1 <= Cardinality(UpTo(S, j))
  BY <1>2, <1>3, <1>4, <1>5, Parts
<1> QED
  BY <1>6

LEMMA Entries ==
  ASSUME TypeOK
  PROVE  /\ Len(fds) \in Nat /\ DOMAIN fds = 1 .. Len(fds)
         /\ \A k \in DOMAIN fds : fds[k] \in Entry
BY LenProperties, ElementOfSeq DEF TypeOK

\* The array with other revents.
LEMMA SameEntries ==
  ASSUME TypeOK, NEW f, DOMAIN f = DOMAIN fds,
         \A k \in DOMAIN fds : \E r \in SUBSET Flags : f[k] = [fds[k] EXCEPT !.revents = r],
         f = [k \in DOMAIN fds |-> f[k]]
  PROVE  /\ f \in Seq(Entry) /\ Len(f) = Len(fds)
         /\ \A k \in DOMAIN fds : f[k].fd = fds[k].fd /\ f[k].events = fds[k].events
<1>1. \A k \in DOMAIN fds : /\ f[k] \in Entry
                            /\ f[k].fd = fds[k].fd /\ f[k].events = fds[k].events
  BY Entries DEF Entry
<1>2. f \in [1 .. Len(fds) -> Entry] /\ Len(fds) \in Nat
  BY <1>1, Entries
<1>3. f \in Seq(Entry)
  BY <1>2
<1>4. Len(f) = Len(fds)
  <2>1. DOMAIN f = 1 .. Len(f) /\ Len(f) \in Nat
    BY <1>3, LenProperties
  <2> QED
    BY <1>2, <2>1, Entries
<1> QED
  BY <1>1, <1>3, <1>4

-----------------------------------------------------------------------------
(* Induction.  The library states it for operators; for sets it follows    *)
(* from the order of the numbers being well-founded.                       *)

\* A set of numbers has a least one.
LEMMA Least ==
  ASSUME NEW T, T \subseteq Nat, T # {}
  PROVE  \E n \in T : \A m \in T : n <= m
<1>1. PICK n \in T : \A m \in T : ~ (<< m, n >> \in OpToRel(<, Nat))
  BY WFMin, NatLessThanWellFounded, Zenon
<1>2. ASSUME NEW m \in T PROVE n <= m
  <2>1. m \in Nat /\ n \in Nat /\ ~ (<< m, n >> \in OpToRel(<, Nat))
    BY <1>1
  <2> QED
    BY <2>1 DEF OpToRel
<1> QED
  BY <1>2

\* Induction, over the numbers for which something holds.
LEMMA Induction ==
  ASSUME NEW S, 0 \in S, \A n \in Nat : n \in S => n + 1 \in S
  PROVE  Nat \subseteq S
<1> DEFINE T == { n \in Nat : n \notin S }
<1> SUFFICES ASSUME T # {} PROVE FALSE
  OBVIOUS
<1>1. PICK n \in T : \A m \in T : n <= m
  BY Least
<1>2. n \in Nat /\ n \notin S /\ n # 0
  BY <1>1
<1>3. n - 1 \in Nat /\ n - 1 \notin T
  BY <1>1, <1>2
<1> QED
  BY <1>2, <1>3

-----------------------------------------------------------------------------
(* select_to_poll: what its loop makes of the sets asked for.              *)

\* One round of select_to_poll's loop, and all of them.
Round(before, fd, sets) ==
  LET entry == FilledIn(before.entry, fd, sets)
  IN  IF entry.fd # 0
      THEN [kept |-> Append(before.kept, entry), entry |-> Blank]
      ELSE [before EXCEPT !.entry = entry]

AreRounds(g, nfds, sets) ==
  g = [n \in 0 .. nfds |-> IF n = 0 THEN [kept |-> << >>, entry |-> Blank]
                           ELSE Round(g[n - 1], n - 1, sets)]

\* The recursion of select_to_poll has a solution, whatever the sets.
LEMMA RoundsExist ==
  ASSUME NEW sets PROVE \A nfds \in Nat : \E g : AreRounds(g, nfds, sets)
<1> DEFINE S == { n \in Nat : \E g : AreRounds(g, n, sets) }
<1>1. 0 \in S
  <2> DEFINE g == [n \in 0 .. 0 |-> [kept |-> << >>, entry |-> Blank]]
  <2>1. AreRounds(g, 0, sets)
    BY DEF AreRounds
  <2> QED
    BY <2>1
<1>2. ASSUME NEW m \in Nat, m \in S PROVE m + 1 \in S
  <2>1. PICK g : AreRounds(g, m, sets)
    BY <1>2
  <2> DEFINE h == [n \in 0 .. m + 1 |-> IF n = m + 1 THEN Round(g[m], m, sets) ELSE g[n]]
  <2>2. \A n \in 0 .. m : h[n] = g[n]
    OBVIOUS
  <2>3. ASSUME NEW n \in 0 .. m + 1
        PROVE  h[n] = IF n = 0 THEN [kept |-> << >>, entry |-> Blank] ELSE Round(h[n - 1], n - 1, sets)
    <3>1. CASE n = m + 1
      <4>1. h[n - 1] = g[m] /\ n # 0
        BY <3>1, <2>2
      <4> QED
        BY <3>1, <4>1
    <3>2. CASE n # m + 1
      <4>1. n \in 0 .. m /\ h[n] = g[n]
        BY <3>2
      <4>2. g[n] = IF n = 0 THEN [kept |-> << >>, entry |-> Blank] ELSE Round(g[n - 1], n - 1, sets)
        BY <4>1, <2>1 DEF AreRounds
      <4>3. n # 0 => n - 1 \in 0 .. m /\ h[n - 1] = g[n - 1]
        BY <4>1
      <4> HIDE DEF h
      <4> QED
        BY <4>1, <4>2, <4>3
    <3> QED
      BY <3>1, <3>2
  <2>4. AreRounds(h, m + 1, sets)
    BY <2>3 DEF AreRounds
  <2> QED
    BY <2>4
<1> QED
  BY <1>1, <1>2, Induction

\* Hence select_to_poll is what the last round leaves.
LEMMA Unfolded ==
  ASSUME NEW sets, NEW nfds \in Nat
  PROVE  \E g : AreRounds(g, nfds, sets) /\ select_to_poll(nfds, sets) = g[nfds].kept
<1> DEFINE round == CHOOSE g : AreRounds(g, nfds, sets)
<1>1. AreRounds(round, nfds, sets)
  BY RoundsExist
<1>2. select_to_poll(nfds, sets) = round[nfds].kept
  BY DEF select_to_poll, AreRounds, Round
<1> QED
  BY <1>1, <1>2

\* A finite set of numbers has a bound.
LEMMA Bounded ==
  ASSUME NEW A, A \subseteq Nat, IsFiniteSet(A)
  PROVE  \E b \in Nat : \A a \in A : a < b
<1> DEFINE N == Cardinality(A)
<1>1. PICK f : f \in Bijection(1 .. N, A)
  BY FS_CardinalityType DEF ExistsBijection
<1>2. /\ N \in Nat /\ \A j \in 1 .. N : f[j] \in Nat
      /\ \A a \in A : \E j \in 1 .. N : f[j] = a
  BY <1>1, FS_CardinalityType DEF Bijection, Injection, Surjection
<1> HIDE DEF N
<1> DEFINE S == { n \in Nat : n <= N => \E b \in Nat : \A j \in 1 .. n : f[j] < b }
<1>3. 0 \in S
  OBVIOUS
<1>4. ASSUME NEW n \in Nat, n \in S PROVE n + 1 \in S
  <2> SUFFICES ASSUME n + 1 <= N PROVE \E b \in Nat : \A j \in 1 .. n + 1 : f[j] < b
    OBVIOUS
  <2>1. PICK b \in Nat : \A j \in 1 .. n : f[j] < b
    BY <1>2, <1>4
  <2>2. PICK x \in Nat : x = f[n + 1]
    BY <1>2
  <2>3. \A j \in 1 .. n + 1 : f[j] < b + x + 1
    <3>1. ASSUME NEW j \in 1 .. n PROVE f[j] < b + x + 1
      BY <2>1, <1>2, <3>1
    <3>2. \A j \in 1 .. n + 1 : j = n + 1 \/ j \in 1 .. n
      OBVIOUS
    <3> QED
      BY <2>2, <3>1, <3>2
  <2> QED
    BY <2>3
<1>5. N \in S
  BY <1>2, <1>3, <1>4, Induction
<1>6. PICK b \in Nat : \A j \in 1 .. N : f[j] < b
  BY <1>2, <1>5
<1> HIDE DEF S
<1>7. \A a \in A : a < b
  BY <1>2, <1>6
<1> QED
  BY <1>7

\* nfds is above every descriptor asked for.
LEMMA NfdsAbove ==
  ASSUME NEW sets \in Sets, AskedIn(sets) # {}
  PROVE  Nfds(sets) \in Nat /\ \A fd \in AskedIn(sets) : fd < Nfds(sets)
<1> DEFINE A == AskedIn(sets)
<1>1. A \subseteq Nat /\ IsFiniteSet(A) /\ A # {}
  <2>1. A \in SUBSET Fds
    BY DEF AskedIn, Sets
  <2> QED
    BY <2>1, PollAssumption, FS_Subset
<1> HIDE DEF A
<1> DEFINE T == { b \in Nat : \A a \in A : a < b }
<1>2. PICK n \in T : \A m \in T : n <= m
  <2>1. T # {}
    <3>1. PICK b \in Nat : \A a \in A : a < b
      BY <1>1, Bounded
    <3> QED
      BY <3>1
  <2> QED
    BY <2>1, Least
<1>3. \E a \in A : n = a + 1
  <2>1. n # 0
    <3>1. PICK a \in A : TRUE
      BY <1>1
    <3>2. a \in Nat /\ a < n /\ n \in Nat
      BY <1>1, <1>2
    <3> QED
      BY <3>2
  <2>2. n - 1 \in Nat /\ n - 1 \notin T
    BY <1>2, <2>1
  <2>3. PICK a \in A : ~ (a < n - 1)
    BY <2>2
  <2> QED
    BY <1>1, <1>2, <2>3
<1>4. n \in { a + 1 : a \in A } /\ \A a \in A : a < n
  BY <1>2, <1>3
<1>5. /\ Nfds(sets) \in { a + 1 : a \in A } /\ \A a \in A : a < Nfds(sets)
  BY <1>4 DEF Nfds, A
<1> QED
  BY <1>1, <1>5 DEF A

\* After n rounds: an entry, in order, for every descriptor but 0 below n that is in one of
\* the sets.  What descriptor 0 leaves behind in the entry goes into the next one.
Entered(q, left, n, sets) ==
  /\ q \in Seq(Entry) /\ left \subseteq Flags /\ (0 \notin AskedIn(sets) => left = {})
  /\ \A k \in DOMAIN q : q[k].fd \in AskedIn(sets) \ {0} /\ q[k].fd < n
  /\ \A fd \in AskedIn(sets) \ {0} : fd < n => \E k \in DOMAIN q : q[k].fd = fd
  /\ \A k, l \in DOMAIN q : k < l => q[k].fd < q[l].fd
  /\ 0 \notin AskedIn(sets) =>
       \A k \in DOMAIN q : /\ "IN" \in q[k].events <=> q[k].fd \in sets.read
                           /\ "OUT" \in q[k].events <=> q[k].fd \in sets.write

Left(events) == [fd |-> 0, events |-> events, revents |-> {}]

\* A descriptor's round adds its entry.
LEMMA OneEntry ==
  ASSUME NEW sets \in Sets, NEW n \in Nat \ {0}, NEW q, NEW left, Entered(q, left, n, sets),
         n \in AskedIn(sets), NEW e \in Entry, e.fd = n,
         0 \notin AskedIn(sets) => /\ "IN" \in e.events <=> n \in sets.read
                                   /\ "OUT" \in e.events <=> n \in sets.write
  PROVE  Entered(Append(q, e), {}, n + 1, sets)
<1>1. AskedIn(sets) \subseteq Nat
  BY PollAssumption DEF AskedIn, Sets
<1> DEFINE p == Append(q, e)
           m == Len(q)
<1>2. /\ p \in Seq(Entry) /\ m \in Nat /\ DOMAIN q = 1 .. m /\ DOMAIN p = 1 .. m + 1
      /\ p[m + 1] = e /\ \A k \in 1 .. m : p[k] = q[k]
  BY AppendProperties, LenProperties DEF Entered
<1> HIDE DEF p, m
<1>3. \A k \in DOMAIN p : k \in 1 .. m \/ k = m + 1
  BY <1>2
<1>4. ASSUME NEW k \in DOMAIN p PROVE p[k].fd \in AskedIn(sets) \ {0} /\ p[k].fd < n + 1
  <2>1. CASE k \in 1 .. m
    <3>1. q[k].fd \in AskedIn(sets) \ {0} /\ q[k].fd < n
      BY <1>2, <2>1 DEF Entered
    <3> QED
      BY <1>1, <1>2, <2>1, <3>1
  <2>2. CASE k = m + 1
    BY <1>2, <2>2
  <2> QED
    BY <1>3, <2>1, <2>2
<1>5. ASSUME NEW fd \in AskedIn(sets) \ {0}, fd < n + 1 PROVE \E k \in DOMAIN p : p[k].fd = fd
  <2>1. CASE fd < n
    <3>1. PICK k \in 1 .. m : q[k].fd = fd
      BY <1>2, <2>1 DEF Entered
    <3> QED
      BY <1>2, <3>1
  <2>2. CASE fd = n
    <3>1. m + 1 \in DOMAIN p
      BY <1>2
    <3> QED
      BY <1>2, <2>2, <3>1
  <2> QED
    BY <1>1, <1>5, <2>1, <2>2
<1>6. ASSUME NEW k \in DOMAIN p, NEW l \in DOMAIN p, k < l PROVE p[k].fd < p[l].fd
  <2>1. k \in 1 .. m
    BY <1>2, <1>6
  <2>2. CASE l \in 1 .. m
    <3>1. q[k].fd < q[l].fd
      BY <1>2, <1>6, <2>1, <2>2 DEF Entered
    <3> QED
      BY <1>2, <2>1, <2>2, <3>1
  <2>3. CASE l = m + 1
    <3>1. q[k].fd < n
      BY <1>2, <2>1 DEF Entered
    <3> QED
      BY <1>2, <2>1, <2>3, <3>1
  <2> QED
    BY <1>3, <2>2, <2>3
<1>7. ASSUME 0 \notin AskedIn(sets), NEW k \in DOMAIN p
      PROVE  /\ "IN" \in p[k].events <=> p[k].fd \in sets.read
             /\ "OUT" \in p[k].events <=> p[k].fd \in sets.write
  <2>1. CASE k \in 1 .. m
    <3>1. /\ "IN" \in q[k].events <=> q[k].fd \in sets.read
          /\ "OUT" \in q[k].events <=> q[k].fd \in sets.write
      BY <1>2, <1>7, <2>1 DEF Entered
    <3> QED
      BY <1>2, <2>1, <3>1
  <2>2. CASE k = m + 1
    BY <1>2, <1>7, <2>2
  <2> QED
    BY <1>3, <2>1, <2>2
<1> QED
  BY <1>2, <1>4, <1>5, <1>6, <1>7 DEF p, Entered

\* How a round fills in an entry.
With(entry, fd, events) == [entry EXCEPT !.fd = fd, !.events = events]

LEMMA Renamed ==
  ASSUME NEW a, NEW b, NEW c
  PROVE  With(Left(a), b, c) = [fd |-> b, events |-> c, revents |-> {}]
<1> DEFINE f == [Left(a) EXCEPT !.fd = b]
           h == [f EXCEPT !.events = c]
<1>1. f = [fd |-> b, events |-> a, revents |-> {}]
  BY DEF Left
<1> HIDE DEF f
<1>2. h = [fd |-> b, events |-> c, revents |-> {}]
  BY <1>1
<1>3. With(Left(a), b, c) = h
  BY DEF f, With
<1> QED
  BY <1>2, <1>3

LEMMA Records ==
  ASSUME NEW a, NEW b, NEW c
  PROVE  /\ [[kept |-> a, entry |-> b] EXCEPT !.entry = c] = [kept |-> a, entry |-> c]
         /\ [kept |-> a, entry |-> b].kept = a /\ [kept |-> a, entry |-> b].entry = b
         /\ Left(a).events = a /\ Left(a).fd = 0
BY DEF Left

\* A round keeps the array as it has to be.
LEMMA OneRound ==
  ASSUME NEW sets \in Sets, NEW n \in Nat, NEW q, NEW left, Entered(q, left, n, sets)
  PROVE  \E p, rest : /\ Round([kept |-> q, entry |-> Left(left)], n, sets)
                           = [kept |-> p, entry |-> Left(rest)]
                      /\ Entered(p, rest, n + 1, sets)
<1> DEFINE events == (IF n \in sets.read THEN {"IN"} ELSE left)
                     \cup (IF n \in sets.write THEN {"OUT"} ELSE {})
           entry == FilledIn(Left(left), n, sets)
           r == Round([kept |-> q, entry |-> Left(left)], n, sets)
           e == [fd |-> n, events |-> events, revents |-> {}]
<1>1. AskedIn(sets) \subseteq Fds /\ AskedIn(sets) \subseteq Nat
  BY PollAssumption DEF AskedIn, Sets
<1>2. events \subseteq Flags
  BY DEF Entered, Flags
<1>3. entry = IF n \in AskedIn(sets) THEN e ELSE Left(left)
  <2>1. entry = IF n \in AskedIn(sets) THEN With(Left(left), n, events) ELSE Left(left)
    BY Records, Zenon DEF FilledIn, With
  <2> HIDE DEF entry, events
  <2>2. With(Left(left), n, events) = e
    BY Renamed
  <2> QED
    BY <2>1, <2>2, Zenon
<1>4. r = IF entry.fd # 0 THEN [kept |-> Append(q, entry), entry |-> Left({})]
          ELSE [kept |-> q, entry |-> entry]
  <2>1. Blank = Left({})
    BY DEF Blank, Left
  <2>2. FilledIn([kept |-> q, entry |-> Left(left)].entry, n, sets) = entry
    BY Records, Zenon
  <2> HIDE DEF entry
  <2>3. r = IF entry.fd # 0 THEN [kept |-> Append([kept |-> q, entry |-> Left(left)].kept, entry),
                                  entry |-> Left({})]
            ELSE [[kept |-> q, entry |-> Left(left)] EXCEPT !.entry = entry]
    BY <2>1, <2>2, Zenon DEF Round
  <2> QED
    BY <2>3, Records, Zenon
<1> HIDE DEF r, entry
<1>5. CASE n \notin AskedIn(sets)
  <2>1. r = [kept |-> q, entry |-> Left(left)]
    BY <1>3, <1>4, <1>5 DEF Left
  <2>2. Entered(q, left, n + 1, sets)
    <3>1. \A fd \in AskedIn(sets) : fd < n + 1 <=> fd < n
      BY <1>1, <1>5
    <3> QED
      BY <3>1 DEF Entered
  <2> QED
    BY <2>1, <2>2 DEF r
<1>6. CASE n \in AskedIn(sets) /\ n = 0
  <2>1. r = [kept |-> q, entry |-> Left(events)]
    BY <1>3, <1>4, <1>6 DEF Left
  <2> HIDE DEF events
  <2>2. Entered(q, events, n + 1, sets)
    <3>1. \A fd \in AskedIn(sets) \ {0} : fd < n + 1 <=> fd < n
      BY <1>1, <1>6
    <3> QED
      BY <1>2, <1>6, <3>1 DEF Entered
  <2> QED
    BY <2>1, <2>2 DEF r
<1>7. CASE n \in AskedIn(sets) /\ n # 0
  <2>1. e \in Entry
    BY <1>1, <1>2, <1>7 DEF Entry
  <2>2. 0 \notin AskedIn(sets) => /\ "IN" \in events <=> n \in sets.read
                                  /\ "OUT" \in events <=> n \in sets.write
    BY DEF Entered
  <2>3. r = [kept |-> Append(q, e), entry |-> Left({})]
    BY <1>3, <1>4, <1>7
  <2>4. e.fd = n /\ e.events = events
    OBVIOUS
  <2> HIDE DEF e, events
  <2>5. Entered(Append(q, e), {}, n + 1, sets)
    BY <1>7, <2>1, <2>2, <2>4, OneEntry
  <2> QED
    BY <2>3, <2>5 DEF r
<1> QED
  BY <1>5, <1>6, <1>7

\* The array that select() hands to poll().
LEMMA Translation ==
  ASSUME NEW sets \in Sets, NEW nfds \in Nat
  PROVE  \E left : Entered(select_to_poll(nfds, sets), left, nfds, sets)
<1>1. PICK g : AreRounds(g, nfds, sets) /\ select_to_poll(nfds, sets) = g[nfds].kept
  BY Unfolded
<1> DEFINE Good(n) == \E q, left : g[n] = [kept |-> q, entry |-> Left(left)] /\ Entered(q, left, n, sets)
           S == { n \in Nat : n <= nfds => Good(n) }
<1>2. 0 \in S
  <2>1. g[0] = [kept |-> << >>, entry |-> Left({})]
    BY <1>1 DEF AreRounds, Left, Blank
  <2>2. Entered(<< >>, {}, 0, sets)
    <3>1. << >> \in Seq(Entry) /\ DOMAIN << >> = {}
      OBVIOUS
    <3>2. \A fd \in AskedIn(sets) : ~ (fd < 0)
      BY PollAssumption DEF AskedIn, Sets
    <3> QED
      BY <3>1, <3>2 DEF Entered
  <2> QED
    BY <2>1, <2>2
<1> HIDE DEF Good
<1>3. ASSUME NEW n \in Nat, n \in S PROVE n + 1 \in S
  <2>1. ASSUME n + 1 <= nfds PROVE Good(n + 1)
    <3>1. n + 1 \in 0 .. nfds /\ n + 1 # 0 /\ (n + 1) - 1 = n /\ n <= nfds
      BY <2>1
    <3>2. g[n + 1] = Round(g[n], n, sets)
      BY <1>1, <3>1 DEF AreRounds
    <3>3. PICK q, left : g[n] = [kept |-> q, entry |-> Left(left)] /\ Entered(q, left, n, sets)
      BY <1>3, <3>1 DEF Good
    <3>4. PICK p, rest : /\ Round([kept |-> q, entry |-> Left(left)], n, sets)
                              = [kept |-> p, entry |-> Left(rest)]
                         /\ Entered(p, rest, n + 1, sets)
      BY <3>3, OneRound
    <3>5. g[n + 1] = [kept |-> p, entry |-> Left(rest)]
      BY <3>2, <3>3, <3>4, Zenon
    <3> QED
      BY <3>4, <3>5, Zenon DEF Good
  <2> QED
    BY <2>1
<1>4. nfds \in S
  BY <1>2, <1>3, Induction
<1>5. PICK q, left : g[nfds] = [kept |-> q, entry |-> Left(left)] /\ Entered(q, left, nfds, sets)
  BY <1>4 DEF Good
<1> QED
  BY <1>1, <1>5

-----------------------------------------------------------------------------
LEMMA InitIInv == Init => IInv
<1> SUFFICES ASSUME Init PROVE IInv
  OBVIOUS
<1>1. fds = << >> /\ fds \in Seq(Entry) /\ Len(fds) = 0 /\ NoSets \in Sets
  BY DEF Init, NoSets, Sets
<1>2. TypeOK
  BY <1>1, PollAssumption DEF Init, TypeOK, NoResult, ERROR
<1> QED
  BY <1>2 DEF Init, IInv, OneKind, CountFits, EarlyStays, CountIsTrue, NoneIsTrue, NeverGivesUp,
              InCall, Answered

LEMMA EnterIInv ==
  ASSUME IInv, NEW entries \in Seq(Entry), NEW t \in Timeouts, Enter(entries, t), asked' \in Sets
  PROVE  IInv'
<1>1. Len(entries) \in Nat /\ (entries # << >> => Len(entries) >= 1)
  BY LenProperties, EmptySeq
<1>2. /\ fds' = entries /\ timeout' = t /\ elapsed' = 0 /\ i' = 1 /\ early' = data
      /\ data' = data /\ room' = room /\ result' = NoResult
      /\ \/ pc' \in {"look", "kernel"} /\ eventCount' = 0 /\ entries # << >>
         \/ pc' = "return" /\ eventCount' \in {0, ERROR}
      /\ pc' = "look" => Rdma(entries) = DOMAIN entries
      /\ pc' = "kernel" => Rdma(entries) = {}
  BY DEF Enter, env
<1>3. result'.sets \in Sets
  BY <1>2 DEF NoResult, NoSets, Sets
<1>4. TypeOK'
  <2>1. eventCount' \in ERROR .. 2 * Len(fds')
    BY <1>1, <1>2 DEF ERROR
  <2>2. i' \in 1 .. Len(fds') + 1 /\ (pc' = "look" => i' <= Len(fds'))
    BY <1>1, <1>2
  <2>3. elapsed' \in 0 .. MaxTime
    BY <1>2, PollAssumption
  <2> QED
    BY <1>2, <1>3, <2>1, <2>2, <2>3 DEF IInv, TypeOK
<1>5. InputsTo(Passed)' \in SUBSET (1 .. Len(entries)) /\ OutputsTo(Passed)' \in SUBSET (1 .. Len(entries))
  BY <1>2 DEF UpTo, InputsTo, OutputsTo, Inputs, Outputs
<1>6. CountFits' /\ EarlyStays' /\ CountIsTrue' /\ NoneIsTrue' /\ NeverGivesUp'
  <2>1. InCall' => eventCount' = 0 /\ pc' \in {"look", "kernel"}
    BY <1>2 DEF InCall
  <2>2. CountFits'
    BY <1>1, <1>2, <2>1 DEF CountFits, Passed
  <2>3. NoneIsTrue'
    <3>1. pc' \in { "look", "time", "clear" } => pc' = "look" /\ i' = 1
      BY <1>2, <2>1 DEF InCall
    <3>2. pc' \in { "look", "time", "clear" } => 1 .. Passed' = {}
      BY <3>1 DEF Passed
    <3> QED
      BY <3>2 DEF NoneIsTrue
  <2>4. CountIsTrue'
    <3>1. /\ Cardinality(InputsTo(Passed)') \in Nat /\ Cardinality(OutputsTo(Passed)') \in Nat
      BY <1>1, <1>5, Parts
    <3> QED
      BY <2>1, <3>1 DEF CountIsTrue
  <2> QED
    BY <1>2, <2>1, <2>2, <2>3, <2>4 DEF EarlyStays, NeverGivesUp, Answered, InCall
<1>7. OneKind'
  BY <1>1, <1>2 DEF OneKind, Rdma
<1> QED
  BY <1>4, <1>6, <1>7 DEF IInv

\* A look changes revents, and nothing else of the array.
LEMMA LookedAt ==
  ASSUME TypeOK, Look
  PROVE  /\ fds' \in Seq(Entry) /\ Len(fds') = Len(fds) /\ DOMAIN fds' = DOMAIN fds
         /\ \A k \in DOMAIN fds : fds'[k].fd = fds[k].fd /\ fds'[k].events = fds[k].events
<1> DEFINE flags == Given(fds[i])
<1>1. i \in DOMAIN fds /\ fds[i] \in Entry
  BY Entries DEF Look, TypeOK
<1>2. flags \subseteq Flags
  BY <1>1, EntryFlags
<1>3. fds' = [fds EXCEPT ![i].revents = @ \cup flags]
  BY DEF Look
<1> HIDE DEF flags
<1>4. DOMAIN fds' = DOMAIN fds /\ fds' = [k \in DOMAIN fds |-> fds'[k]]
  BY <1>3, Entries DEF TypeOK
<1>5. ASSUME NEW k \in DOMAIN fds
      PROVE  \E r \in SUBSET Flags : fds'[k] = [fds[k] EXCEPT !.revents = r]
  <2>1. fds[k] \in Entry
    BY Entries
  <2>2. fds[k].revents \in SUBSET Flags /\ fds[k] = [fds[k] EXCEPT !.revents = fds[k].revents]
    BY <2>1 DEF Entry
  <2>3. CASE k = i
    <3>1. fds'[k] = [fds[k] EXCEPT !.revents = fds[k].revents \cup flags]
      BY <1>1, <1>3, <2>3
    <3>2. fds[k].revents \cup flags \in SUBSET Flags
      BY <1>2, <2>2
    <3> QED
      BY <3>1, <3>2
  <2>4. CASE k # i
    BY <1>1, <1>3, <2>2, <2>4
  <2> QED
    BY <2>3, <2>4
<1> QED
  BY <1>4, <1>5, SameEntries

\* One entry more has been looked at.
LEMMA LookIInv == IInv /\ Look => IInv'
<1> SUFFICES ASSUME IInv, Look PROVE IInv'
  OBVIOUS
<1> DEFINE flags == Given(fds[i])
           n == Cardinality(flags)
<1>1. /\ pc = "look" /\ i \in DOMAIN fds /\ i \in 1 .. Len(fds) /\ fds[i] \in Entry
      /\ Len(fds) \in Nat /\ DOMAIN fds = 1 .. Len(fds)
  BY Entries DEF Look, IInv, TypeOK
<1>2. /\ flags \in SUBSET Flags
      /\ n = (IF "IN" \in flags THEN 1 ELSE 0) + (IF "OUT" \in flags THEN 1 ELSE 0)
  BY <1>1, EntryFlags, FlagsCount
<1>3. /\ eventCount' = eventCount + n /\ i' = i + 1
      /\ fds' = [fds EXCEPT ![i].revents = @ \cup flags]
      /\ pc' = IF i = Len(fds) THEN "time" ELSE "look"
      /\ UNCHANGED << timeout, asked, early, elapsed, data, room, result >>
  BY DEF Look, env
<1>4. /\ fds' \in Seq(Entry) /\ Len(fds') = Len(fds) /\ DOMAIN fds' = DOMAIN fds
      /\ \A k \in DOMAIN fds : fds'[k].fd = fds[k].fd /\ fds'[k].events = fds[k].events
  BY LookedAt DEF IInv
<1>5. fds[i].fd \in Bridged
  BY <1>1 DEF IInv, OneKind
<1>6. ("IN" \in flags <=> i \in Inputs) /\ ("OUT" \in flags <=> i \in Outputs)
  BY <1>1, <1>5 DEF Given, Ready, Wants, Inputs, Outputs
<1> HIDE DEF flags, n
<1>7. eventCount \in 0 .. 2 * (i - 1)
  BY <1>1 DEF IInv, CountFits, Passed, InCall
<1>8. Passed' = i /\ Passed = i - 1 /\ eventCount' \in 0 .. 2 * i
  <2>1. Passed = i - 1
    BY <1>1 DEF Passed
  <2>2. ASSUME i = Len(fds) PROVE Passed' = i
    BY <1>3, <1>4, <2>2 DEF Passed
  <2>3. ASSUME i # Len(fds) PROVE Passed' = i
    BY <1>1, <1>3, <2>3 DEF Passed
  <2>4. eventCount' \in 0 .. 2 * i
    BY <1>1, <1>2, <1>3, <1>7
  <2>5. Passed' = i
    BY <2>2, <2>3
  <2> QED
    BY <2>1, <2>4, <2>5
<1>9. TypeOK'
  <2>1. eventCount' \in ERROR .. 2 * Len(fds')
    BY <1>1, <1>4, <1>8 DEF ERROR
  <2>2. i' \in 1 .. Len(fds') + 1 /\ (pc' = "look" => i' <= Len(fds'))
    BY <1>1, <1>3, <1>4
  <2> QED
    BY <1>3, <1>4, <2>1, <2>2 DEF IInv, TypeOK
<1>10. OneKind' /\ CountFits' /\ EarlyStays' /\ NeverGivesUp'
  BY <1>1, <1>3, <1>4, <1>8 DEF IInv, OneKind, CountFits, EarlyStays, NeverGivesUp, Answered, InCall
<1>11. CountIsTrue'
  <2>1. Inputs' = Inputs /\ Outputs' = Outputs
    BY <1>3, <1>4 DEF Inputs, Outputs, Wants
  <2>2. Inputs \in SUBSET (1 .. Len(fds)) /\ Outputs \in SUBSET (1 .. Len(fds))
    BY <1>1 DEF Inputs, Outputs
  <2> DEFINE in  == Cardinality(InputsTo(i - 1))
             out == Cardinality(OutputsTo(i - 1))
  <2>3. in \in Nat /\ out \in Nat /\ eventCount <= in + out
    <3>1. InputsTo(i - 1) \in SUBSET Inputs /\ OutputsTo(i - 1) \in SUBSET Outputs
      BY DEF InputsTo, OutputsTo, UpTo
    <3>2. eventCount <= Cardinality(InputsTo(i - 1)) + Cardinality(OutputsTo(i - 1))
      BY <1>1, <1>8 DEF IInv, CountIsTrue, InCall
    <3> QED
      BY <1>1, <2>2, <3>1, <3>2, Parts
  <2>4. /\ Cardinality(InputsTo(i)) \in Nat
        /\ Cardinality(InputsTo(i)) >= in + (IF "IN" \in flags THEN 1 ELSE 0)
    <3>1. /\ Cardinality(InputsTo(i)) \in Nat
          /\ Cardinality(InputsTo(i)) >= in + (IF i \in Inputs THEN 1 ELSE 0)
      BY <1>1, <2>2, OneFurther DEF InputsTo
    <3> QED
      BY <1>6, <3>1
  <2>5. /\ Cardinality(OutputsTo(i)) \in Nat
        /\ Cardinality(OutputsTo(i)) >= out + (IF "OUT" \in flags THEN 1 ELSE 0)
    <3>1. /\ Cardinality(OutputsTo(i)) \in Nat
          /\ Cardinality(OutputsTo(i)) >= out + (IF i \in Outputs THEN 1 ELSE 0)
      BY <1>1, <2>2, OneFurther DEF OutputsTo
    <3> QED
      BY <1>6, <3>1
  <2> HIDE DEF in, out
  <2>6. eventCount' <= Cardinality(InputsTo(i)) + Cardinality(OutputsTo(i))
    BY <1>2, <1>3, <1>7, <2>3, <2>4, <2>5
  <2> QED
    BY <1>8, <2>1, <2>6 DEF CountIsTrue, InputsTo, OutputsTo, UpTo
<1>12. NoneIsTrue'
  <2> SUFFICES ASSUME eventCount' = 0, NEW k \in 1 .. i
               PROVE  /\ ~ (Wants("OUT", k)' /\ fds'[k].fd \in Bridged)
                      /\ ~ (Wants("IN", k)' /\ fds'[k].fd \in early')
    BY <1>8 DEF NoneIsTrue
  <2>1. eventCount = 0 /\ i \notin Inputs /\ i \notin Outputs
    BY <1>2, <1>3, <1>6, <1>7
  <2>2. k = i \/ k \in 1 .. i - 1
    BY <1>1
  <2>3. ~ (Wants("OUT", k) /\ fds[k].fd \in Bridged) /\ ~ (Wants("IN", k) /\ fds[k].fd \in early)
    <3>1. CASE k = i
      BY <1>1, <2>1, <3>1 DEF IInv, EarlyStays, InCall, Inputs, Outputs
    <3>2. CASE k \in 1 .. i - 1
      BY <1>1, <1>8, <2>1, <3>2 DEF IInv, NoneIsTrue
    <3> QED
      BY <2>2, <3>1, <3>2
  <2> QED
    BY <1>1, <1>3, <1>4, <2>3 DEF Wants
<1> QED
  BY <1>9, <1>10, <1>11, <1>12 DEF IInv

\* A round is over: the next one starts from the front, with no event counted.
LEMMA TimeIInv == IInv /\ Time => IInv'
<1> SUFFICES ASSUME IInv, Time PROVE IInv'
  OBVIOUS
<1>1. /\ pc = "time" /\ i' = 1
      /\ UNCHANGED << fds, timeout, asked, early, elapsed, eventCount, data, room, result >>
      /\ pc' = IF eventCount = 0 /\ elapsed > timeout THEN "look" ELSE "clear"
  BY DEF Time, Again, call, env
<1>2. /\ Len(fds) \in Nat /\ Len(fds) >= 1 /\ eventCount \in 0 .. 2 * Len(fds) /\ elapsed \in Nat
  BY <1>1, Entries DEF IInv, TypeOK, OneKind, CountFits, Passed
<1>3. CASE pc' = "clear"
  <2>1. TypeOK'
    BY <1>1, <1>2, <1>3 DEF IInv, TypeOK
  <2>2. OneKind' /\ CountFits' /\ EarlyStays' /\ CountIsTrue' /\ NoneIsTrue'
    <3>1. Passed' = Passed /\ InputsTo(Passed)' = InputsTo(Passed) /\ OutputsTo(Passed)' = OutputsTo(Passed)
      BY <1>1, <1>3 DEF Passed, UpTo, InputsTo, OutputsTo, Inputs, Outputs, Wants
    <3> QED
      BY <1>1, <1>2, <1>3, <3>1
         DEF IInv, OneKind, CountFits, EarlyStays, CountIsTrue, NoneIsTrue, InCall, Wants
  <2>3. NeverGivesUp'
    <3>1. timeout = -1 => eventCount # 0
      BY <1>1, <1>2, <1>3
    <3> QED
      BY <1>1, <1>2, <3>1 DEF NeverGivesUp
  <2> QED
    BY <2>1, <2>2, <2>3 DEF IInv
<1>4. CASE pc' = "look"
  <2>1. eventCount' = 0 /\ Passed' = 0
    BY <1>1, <1>4 DEF Passed
  <2>2. TypeOK'
    BY <1>1, <1>2, <1>4 DEF IInv, TypeOK
  <2>3. OneKind' /\ CountFits' /\ EarlyStays' /\ NoneIsTrue' /\ NeverGivesUp'
    BY <1>1, <1>4, <2>1
       DEF IInv, OneKind, CountFits, EarlyStays, NoneIsTrue, NeverGivesUp, Answered, InCall
  <2>4. CountIsTrue'
    <3>1. InputsTo(Passed)' \in SUBSET (1 .. Len(fds)) /\ OutputsTo(Passed)' \in SUBSET (1 .. Len(fds))
      BY <1>1, Entries DEF UpTo, InputsTo, OutputsTo, Inputs, Outputs, IInv
    <3>2. Cardinality(InputsTo(Passed)') \in Nat /\ Cardinality(OutputsTo(Passed)') \in Nat
      BY <1>2, <3>1, Parts
    <3> QED
      BY <2>1, <3>2 DEF CountIsTrue
  <2> QED
    BY <2>2, <2>3, <2>4 DEF IInv
<1> QED
  BY <1>1, <1>3, <1>4

\* The real poll(): as much as poll() promises, in one step.
LEMMA KernelIInv == IInv /\ Kernel => IInv'
<1> SUFFICES ASSUME IInv, Kernel PROVE IInv'
  OBVIOUS
<1> DEFINE some  == { k \in DOMAIN fds : Ready(fds[k]) # {} }
           count == Cardinality(some)
<1>1. /\ pc = "kernel" /\ pc' = "clear"
      /\ UNCHANGED << timeout, asked, early, elapsed, i, data, room, result >>
      /\ \/ /\ eventCount' = count
            /\ count > 0 \/ (timeout >= 0 /\ elapsed >= timeout)
            /\ fds' = [k \in DOMAIN fds |-> [fds[k] EXCEPT !.revents = Ready(fds[k])]]
         \/ eventCount' = ERROR /\ fds' = fds
  BY DEF Kernel, env
<1>2. Len(fds) \in Nat /\ DOMAIN fds = 1 .. Len(fds) /\ \A k \in DOMAIN fds : fds[k] \in Entry
  BY Entries DEF IInv
<1>3. some = Inputs \cup { k \in Outputs : fds[k].fd \in room }
  BY <1>2 DEF Ready, Wants, Inputs, Outputs, Entry
<1>4. Inputs \in SUBSET (1 .. Len(fds)) /\ Outputs \in SUBSET (1 .. Len(fds)) /\ some \in SUBSET (1 .. Len(fds))
  BY <1>2 DEF Inputs, Outputs
<1> HIDE DEF some
<1>5. count \in 0 .. Len(fds) /\ (count = 0 <=> some = {})
  <2>1. IsFiniteSet(1 .. Len(fds)) /\ Cardinality(1 .. Len(fds)) = Len(fds)
    BY SMTT(30), <1>2, FS_Interval
  <2>2. IsFiniteSet(some) /\ count <= Len(fds)
    BY <1>4, <2>1, FS_Subset
  <2>3. count \in Nat
    BY <2>2, FS_CardinalityType
  <2> QED
    BY <1>2, <2>2, <2>3, FS_EmptySet
<1>6. /\ count <= Cardinality(Inputs) + Cardinality(Outputs)
      /\ Cardinality(Inputs) \in Nat /\ Cardinality(Outputs) \in Nat
  <2>1. /\ IsFiniteSet(Inputs) /\ IsFiniteSet(Outputs)
        /\ Cardinality(Inputs) \in Nat /\ Cardinality(Outputs) \in Nat
    BY <1>2, <1>4, Parts
  <2>2. /\ IsFiniteSet(Inputs \cup Outputs)
        /\ Cardinality(Inputs \cup Outputs)
             = Cardinality(Inputs) + Cardinality(Outputs) - Cardinality(Inputs \cap Outputs)
    BY <2>1, FS_Union
  <2>3. Cardinality(Inputs \cap Outputs) \in Nat
    BY <2>1, FS_Subset, FS_CardinalityType
  <2>4. count <= Cardinality(Inputs \cup Outputs) /\ Cardinality(Inputs \cup Outputs) \in Nat
    BY <1>3, <2>2, FS_Subset, FS_CardinalityType
  <2> QED
    BY <1>5, <2>1, <2>2, <2>3, <2>4
<1>7. /\ fds' \in Seq(Entry) /\ Len(fds') = Len(fds) /\ DOMAIN fds' = DOMAIN fds
      /\ \A k \in DOMAIN fds : fds'[k].fd = fds[k].fd /\ fds'[k].events = fds[k].events
  <2>1. \A k \in DOMAIN fds : Ready(fds[k]) \in SUBSET Flags
    BY <1>2, EntryFlags
  <2>2. CASE fds' = [k \in DOMAIN fds |-> [fds[k] EXCEPT !.revents = Ready(fds[k])]]
    BY <2>1, <2>2, SameEntries DEF IInv
  <2>3. CASE fds' = fds
    BY <2>3 DEF IInv, TypeOK
  <2> QED
    BY <1>1, <2>2, <2>3
<1>8. /\ Passed' = Len(fds) /\ early \subseteq data
      /\ InputsTo(Passed)' = Inputs /\ OutputsTo(Passed)' = Outputs
  <2>1. Passed' = Len(fds) /\ early \subseteq data
    BY <1>1, <1>7 DEF Passed, IInv, EarlyStays, InCall
  <2>2. Inputs' = Inputs /\ Outputs' = Outputs
    BY <1>1, <1>7 DEF Inputs, Outputs, Wants
  <2>3. \A k \in Inputs \cup Outputs : k <= Len(fds)
    BY <1>2, <1>4
  <2> QED
    BY <2>1, <2>2, <2>3 DEF UpTo, InputsTo, OutputsTo
<1> HIDE DEF count
<1>9. TypeOK'
  <2>1. eventCount' \in ERROR .. 2 * Len(fds')
    BY <1>1, <1>2, <1>5, <1>7 DEF ERROR
  <2> QED
    BY <1>1, <1>7, <2>1 DEF IInv, TypeOK
<1>10. OneKind' /\ CountFits' /\ EarlyStays'
  BY <1>1, <1>8 DEF OneKind, CountFits, EarlyStays
<1>11. CountIsTrue'
  BY <1>1, <1>5, <1>6, <1>8 DEF CountIsTrue, ERROR
<1>12. NoneIsTrue'
  <2> SUFFICES ASSUME eventCount' = 0, NEW k \in 1 .. Len(fds)
               PROVE  /\ ~ (Wants("OUT", k)' /\ fds'[k].fd \in Bridged)
                      /\ ~ (Wants("IN", k)' /\ fds'[k].fd \in early')
    BY <1>8 DEF NoneIsTrue
  <2>1. some = {}
    BY <1>1, <1>5 DEF ERROR
  <2>2. k \notin Inputs /\ fds[k].fd \notin Bridged
    BY <1>1, <1>2, <1>3, <2>1 DEF IInv, OneKind
  <2> QED
    BY <1>1, <1>2, <1>7, <1>8, <2>2 DEF Wants, Inputs
<1>13. NeverGivesUp'
  BY <1>1, <1>5 DEF NeverGivesUp, ERROR
<1> QED
  BY <1>9, <1>10, <1>11, <1>12, <1>13 DEF IInv

\* The end of a call.
LEMMA EndIInv == IInv /\ (Clear \/ Return) => IInv'
<1> SUFFICES ASSUME IInv, Clear \/ Return PROVE IInv'
  OBVIOUS
<1>1. pc' \in {"return", "idle"}
  BY DEF Clear, Return
<1>2. CASE Clear
  <2>1. /\ fds' = [k \in DOMAIN fds |-> [fds[k] EXCEPT !.revents = {}]]
        /\ UNCHANGED << timeout, asked, early, elapsed, i, eventCount, data, room, result >>
    BY <1>2 DEF Clear, env
  <2>2. fds' \in Seq(Entry) /\ Len(fds') = Len(fds)
    BY <2>1, SameEntries DEF IInv
  <2> QED
    BY <1>1, <2>1, <2>2 DEF IInv, TypeOK, OneKind, CountFits, EarlyStays, CountIsTrue, NoneIsTrue,
                            NeverGivesUp, Answered, InCall
<1>3. CASE Return
  <2>1. /\ fds' = << >> /\ timeout' = 0 /\ elapsed' = 0 /\ i' = 1 /\ eventCount' = 0
        /\ asked' = NoSets /\ data' = data /\ room' = room
        /\ result'.sets \in { NoSets, poll_to_select(fds, asked) }
    BY <1>3 DEF Return, env
  <2>2. poll_to_select(fds, asked) \in Sets
    <3>1. \A k \in DOMAIN fds : fds[k].fd \in Fds
      BY Entries DEF IInv, Entry
    <3> QED
      BY <3>1 DEF poll_to_select, Sets
  <2>3. NoSets \in Sets
    BY DEF NoSets, Sets
  <2>4. fds' \in Seq(Entry) /\ Len(fds') = 0
    BY <2>1
  <2>5. TypeOK'
    BY <1>1, <2>1, <2>2, <2>3, <2>4, PollAssumption DEF IInv, TypeOK, ERROR
  <2> QED
    BY <1>1, <2>5 DEF IInv, OneKind, CountFits, EarlyStays, CountIsTrue, NoneIsTrue,
                      NeverGivesUp, Answered, InCall
<1> QED
  BY <1>2, <1>3

\* A call, of either function.
LEMMA CallIInv ==
  ASSUME IInv, NEW t \in Timeouts,
         \/ \E request \in Requests, stale \in SUBSET Flags : Poll(request, t, stale)
         \/ \E sets \in SetsAsked : Select(sets, t)
  PROVE  IInv'
<1>1. ASSUME NEW request \in Requests, NEW stale \in SUBSET Flags, Poll(request, t, stale)
      PROVE  IInv'
  <2> DEFINE entries == [k \in DOMAIN request |-> [fd |-> request[k].fd, events |-> request[k].events,
                                                   revents |-> stale]]
  <2>1. request \in Seq([fd : Fds, events : SUBSET Flags])
    BY PollAssumption
  <2>2. /\ Len(request) \in Nat /\ DOMAIN request = 1 .. Len(request)
        /\ \A k \in DOMAIN request : request[k] \in [fd : Fds, events : SUBSET Flags]
    BY <2>1, LenProperties, ElementOfSeq
  <2>3. entries \in [1 .. Len(request) -> Entry]
    BY <2>2 DEF Entry
  <2>4. entries \in Seq(Entry)
    BY <2>2, <2>3
  <2>5. Enter(entries, t) /\ asked' \in Sets
    BY <1>1 DEF Poll, NoSets, Sets
  <2> QED
    BY <2>4, <2>5, EnterIInv
<1>2. ASSUME NEW sets \in SetsAsked, Select(sets, t)
      PROVE  IInv'
  <2>1. select_to_poll(Nfds(sets), sets) \in Seq(Entry)
    <3>1. sets \in Sets /\ AskedIn(sets) # {}
      BY <1>2, PollAssumption DEF Select
    <3> QED
      BY <3>1, NfdsAbove, Translation DEF Entered
  <2>2. Enter(select_to_poll(Nfds(sets), sets), t) /\ asked' \in Sets
    BY <1>2, PollAssumption DEF Select
  <2> QED
    BY <2>1, <2>2, EnterIInv
<1> QED
  BY <1>1, <1>2

\* What does not change what the call has found: only an idle thread reads.
LEMMA OthersIInv ==
  ASSUME IInv,
         \/ \E sets \in SetsAsked, t \in Timeouts : RealSelect(sets, t)
         \/ \E fd \in Fds : Arrive(fd) \/ Read(fd) \/ Drained(fd) \/ FilledUp(fd)
         \/ Tick \/ UNCHANGED vars
  PROVE  IInv'
<1>1. /\ UNCHANGED << pc, fds, timeout, asked, early, i, eventCount >>
      /\ elapsed' = elapsed \/ (elapsed < MaxTime /\ elapsed' = elapsed + 1)
      /\ data' \subseteq Fds /\ (pc = "idle" \/ data \subseteq data')
      /\ room' \subseteq Fds /\ (pc = "idle" \/ room \subseteq room')
  <2>1. /\ UNCHANGED << pc, fds, timeout, asked, early, i, eventCount >>
        /\ elapsed' = elapsed \/ (elapsed < MaxTime /\ elapsed' = elapsed + 1)
    BY DEF RealSelect, Arrive, Read, Drained, FilledUp, Tick, call, vars
  <2>2. /\ data' \subseteq Fds /\ (pc = "idle" \/ data \subseteq data')
        /\ room' \subseteq Fds /\ (pc = "idle" \/ room \subseteq room')
    BY DEF RealSelect, Arrive, Read, Drained, FilledUp, Tick, env, vars, IInv, TypeOK
  <2> QED
    BY <2>1, <2>2
<1>2. result'.sets \in Sets
  <2>1. ASSUME NEW sets \in SetsAsked, NEW t \in Timeouts, RealSelect(sets, t)
        PROVE  result'.sets \in Sets
    <3>1. sets \in Sets
      BY PollAssumption
    <3> QED
      BY <2>1, <3>1 DEF RealSelect, Sets
  <2>2. ASSUME UNCHANGED result
        PROVE  result'.sets \in Sets
    BY <2>2 DEF IInv, TypeOK
  <2> QED
    BY <2>1, <2>2 DEF Arrive, Read, Drained, FilledUp, Tick, vars
<1>3. elapsed' \in 0 .. MaxTime
  BY <1>1, PollAssumption DEF IInv, TypeOK
<1>4. TypeOK'
  BY <1>1, <1>2, <1>3 DEF IInv, TypeOK
<1>5. /\ Passed' = Passed /\ (InCall' <=> InCall)
      /\ InCall => data \subseteq data' /\ room \subseteq room'
  BY <1>1 DEF Passed, InCall
<1>6. OneKind' /\ CountFits' /\ EarlyStays' /\ NeverGivesUp' /\ NoneIsTrue'
  BY <1>1, <1>5 DEF IInv, OneKind, CountFits, EarlyStays, NeverGivesUp, NoneIsTrue, Answered, Wants
<1>7. CountIsTrue'
  <2> SUFFICES ASSUME InCall
               PROVE  eventCount <= Cardinality(InputsTo(Passed)') + Cardinality(OutputsTo(Passed)')
    BY <1>1, <1>5 DEF CountIsTrue
  <2>1. Len(fds) \in Nat /\ DOMAIN fds = 1 .. Len(fds) /\ eventCount \in Int
    BY Entries DEF IInv, TypeOK, ERROR
  <2>2. /\ InputsTo(Passed)' \in SUBSET (1 .. Len(fds)) /\ OutputsTo(Passed)' \in SUBSET (1 .. Len(fds))
        /\ InputsTo(Passed) \in SUBSET InputsTo(Passed)'
        /\ OutputsTo(Passed) \in SUBSET OutputsTo(Passed)'
    BY <1>1, <1>5, <2>1 DEF UpTo, InputsTo, OutputsTo, Inputs, Outputs, Wants
  <2>3. /\ Cardinality(InputsTo(Passed)) \in Nat /\ Cardinality(InputsTo(Passed)') \in Nat
        /\ Cardinality(InputsTo(Passed)) <= Cardinality(InputsTo(Passed)')
        /\ Cardinality(OutputsTo(Passed)) \in Nat /\ Cardinality(OutputsTo(Passed)') \in Nat
        /\ Cardinality(OutputsTo(Passed)) <= Cardinality(OutputsTo(Passed)')
    BY <2>1, <2>2, Parts
  <2>4. eventCount <= Cardinality(InputsTo(Passed)) + Cardinality(OutputsTo(Passed))
    BY DEF IInv, CountIsTrue
  <2> QED
    BY <2>1, <2>3, <2>4
<1> QED
  BY <1>4, <1>6, <1>7 DEF IInv

LEMMA NextIInv == IInv /\ [Next]_vars => IInv'
<1> SUFFICES ASSUME IInv, [Next]_vars PROVE IInv'
  OBVIOUS
<1>1. CASE \E t \in Timeouts :
             \/ \E request \in Requests, stale \in SUBSET Flags : Poll(request, t, stale)
             \/ \E sets \in SetsAsked : Select(sets, t)
  BY <1>1, CallIInv
<1>2. CASE Step
  BY <1>2, LookIInv, TimeIInv, KernelIInv, EndIInv DEF Step
<1>3. CASE \/ \E sets \in SetsAsked, t \in Timeouts : RealSelect(sets, t)
           \/ \E fd \in Fds : Arrive(fd) \/ Read(fd) \/ Drained(fd) \/ FilledUp(fd)
           \/ Tick \/ UNCHANGED vars
  BY <1>3, OthersIInv
<1> QED
  BY <1>1, <1>2, <1>3 DEF Next

LEMMA Always == Spec => []IInv
<1> QED
  BY InitIInv, NextIInv, PTL DEF Spec

-----------------------------------------------------------------------------
\* The loops of poll() and select() stay inside their arrays, and their counts within
\* two events for each entry.
THEOREM TypeCorrect == Spec => []TypeOK
<1>1. IInv => TypeOK
  BY DEF IInv
<1> QED
  BY <1>1, Always, PTL

\* No message is counted, in whatever round, that is not there when poll() is about to
\* return: the count is covered by what can be read, the POLLOUTs of buffers (which poll()
\* never looks into), and the sockets with room.
THEOREM NoFalseInputAlways == Spec => []NoFalseInput
<1>1. IInv => NoFalseInput
  <2> SUFFICES ASSUME IInv, pc = "clear" PROVE eventCount <= Cardinality(Inputs) + Cardinality(Outputs)
    BY DEF NoFalseInput, Answered
  <2>1. Len(fds) \in Nat /\ DOMAIN fds = 1 .. Len(fds) /\ Passed = Len(fds)
    BY Entries DEF IInv, Passed
  <2>2. InputsTo(Passed) = Inputs /\ OutputsTo(Passed) = Outputs
    BY <2>1 DEF UpTo, InputsTo, OutputsTo, Inputs, Outputs
  <2> QED
    BY <2>2 DEF IInv, CountIsTrue, InCall
<1> QED
  BY <1>1, Always, PTL

\* However many rounds poll() makes, it does not pass over what was there from the start.
THEOREM NothingMissedAlways == Spec => []NothingMissed
<1>1. IInv => NothingMissed
  BY Entries DEF IInv, NoneIsTrue, NothingMissed, Answered, Passed
<1> QED
  BY <1>1, Always, PTL

\* A poll() without a timeout comes back with an event only, whatever the order of its
\* comparisons with the time.
THEOREM NeverGivesUpAlways == Spec => []NeverGivesUp
<1>1. IInv => NeverGivesUp
  BY DEF IInv
<1> QED
  BY <1>1, Always, PTL

-----------------------------------------------------------------------------
(* The arrays of select().                                                 *)

LEMMA SelectAsAsked ==
  ASSUME NEW sets \in SetsAsked, NEW t \in Timeouts, Select(sets, t)
  PROVE  EntriesAsAsked'
<1>1. sets \in Sets /\ AskedIn(sets) # {} /\ asked' = sets
  BY PollAssumption DEF Select
<1>2. /\ Nfds(sets) \in Nat /\ \A fd \in AskedIn(sets) : fd < Nfds(sets)
      /\ fds' = select_to_poll(Nfds(sets), sets)
  BY <1>1, NfdsAbove DEF Select, Enter
<1>3. PICK left : Entered(fds', left, Nfds(sets), sets)
  BY <1>1, <1>2, Translation
<1>4. ASSUME 0 \notin AskedIn(sets)
      PROVE  /\ { fds'[k].fd : k \in DOMAIN fds' } = AskedIn(sets)
             /\ \A k, l \in DOMAIN fds' : k < l => fds'[k].fd < fds'[l].fd
             /\ \A k \in DOMAIN fds' : /\ "IN" \in fds'[k].events <=> fds'[k].fd \in sets.read
                                       /\ "OUT" \in fds'[k].events <=> fds'[k].fd \in sets.write
  <2>1. \A fd \in AskedIn(sets) : \E k \in DOMAIN fds' : fds'[k].fd = fd
    BY <1>2, <1>3, <1>4 DEF Entered
  <2>2. \A k \in DOMAIN fds' : fds'[k].fd \in AskedIn(sets)
    BY <1>3 DEF Entered
  <2>3. { fds'[k].fd : k \in DOMAIN fds' } = AskedIn(sets)
    BY <2>1, <2>2
  <2> QED
    BY <1>3, <1>4, <2>3 DEF Entered
<1> QED
  BY <1>1, <1>4 DEF EntriesAsAsked, Wants

LEMMA StaysAsAsked == IInv /\ EntriesAsAsked /\ [Next]_vars => EntriesAsAsked'
<1> SUFFICES ASSUME IInv, EntriesAsAsked, [Next]_vars PROVE EntriesAsAsked'
  OBVIOUS
<1>1. ASSUME NEW request \in Requests, NEW t \in Timeouts, NEW stale \in SUBSET Flags,
             Poll(request, t, stale)
      PROVE  EntriesAsAsked'
  BY <1>1 DEF Poll, EntriesAsAsked
<1>2. CASE Look
  <2>1. /\ DOMAIN fds' = DOMAIN fds /\ asked' = asked /\ pc = "look"
        /\ \A k \in DOMAIN fds : fds'[k].fd = fds[k].fd /\ fds'[k].events = fds[k].events
    BY <1>2, LookedAt DEF IInv, Look
  <2>2. { fds'[k].fd : k \in DOMAIN fds' } = { fds[k].fd : k \in DOMAIN fds }
    BY <2>1
  <2> QED
    BY <2>1, <2>2 DEF EntriesAsAsked, Wants
<1>3. CASE Time \/ UNCHANGED vars
  <2>1. fds' = fds /\ asked' = asked /\ (pc' \in {"look", "time"} => pc \in {"look", "time"})
    BY <1>3 DEF Time, call, vars
  <2> QED
    BY <2>1 DEF EntriesAsAsked, Wants
<1>4. CASE Kernel \/ Clear \/ Return
  BY <1>4 DEF Kernel, Clear, Return, EntriesAsAsked
<1>5. CASE \/ \E sets \in SetsAsked, t \in Timeouts : RealSelect(sets, t)
           \/ \E fd \in Fds : Arrive(fd) \/ Read(fd) \/ Drained(fd) \/ FilledUp(fd)
           \/ Tick
  <2>1. fds' = fds /\ asked' = asked /\ pc' = pc
    BY <1>5 DEF RealSelect, Arrive, Read, Drained, FilledUp, Tick, call
  <2> QED
    BY <2>1 DEF EntriesAsAsked, Wants
<1> QED
  BY <1>1, <1>2, <1>3, <1>4, <1>5, SelectAsAsked DEF Next, Step

\* Whatever sets select() is called with, whatever descriptors are in them, in one or in
\* several: poll() looks at each of them once, in their order, for the flags of the sets
\* it is in (as long as descriptor 0 is in none).
THEOREM EntriesAsAskedAlways == Spec => []EntriesAsAsked
<1>1. Init => EntriesAsAsked
  BY DEF Init, EntriesAsAsked
<1> QED
  BY <1>1, StaysAsAsked, Always, PTL DEF Spec
=============================================================================
