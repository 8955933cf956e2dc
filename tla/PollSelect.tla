----------------------------- MODULE PollSelect -----------------------------
(***************************************************************************)
(* The overridden poll() and select() of one thread.  poll() looks at the  *)
(* message buffers of its descriptors in turn, while messages arrive and   *)
(* time goes by; descriptors without one go to the real poll(), and a      *)
(* mixture is an error.  select() makes an array for poll() of its sets,   *)
(* unless none of them has a buffer.                                       *)
(***************************************************************************)
EXTENDS Integers, Sequences, FiniteSets

CONSTANTS
  Fds, Bridged,        \* descriptors, and those with a buffer in bridge
  Requests,            \* arrays the application polls with: sequences of [fd, events]
  SetsAsked,           \* what it selects with: [read, write, error]
  Timeouts,            \* in ticks; -1 is for ever
  MaxTime              \* bound of the model: ticks

Flags == { "IN", "OUT" }
Sets  == [read : SUBSET Fds, write : SUBSET Fds, error : SUBSET Fds]

ASSUME PollAssumption ==
  /\ Fds \subseteq Nat /\ IsFiniteSet(Fds) /\ Bridged \subseteq Fds
  /\ Requests \subseteq Seq([fd : Fds, events : SUBSET Flags])
  /\ SetsAsked \subseteq Sets
  /\ Timeouts \subseteq Nat \cup {-1} /\ MaxTime \in Nat

VARIABLES
  pc,                  \* "idle", or where poll() is
  fds,                 \* the array: [fd, events, revents]
  timeout, elapsed,    \* its argument, and the time since it started
  i,                   \* the next entry to look at
  eventCount,
  asked,               \* the sets of the select() around it, or NoSets
  data,                \* descriptors with a message, or bytes, to be read
  room,                \* descriptors with room for what the application writes next
  result,              \* of the last call: its value, and its array or sets
  early                \* history: data when the call started

call == << fds, timeout, asked, early >>
env  == << data, room >>
vars == << pc, call, elapsed, i, eventCount, env, result >>

NoSets   == [read |-> {}, write |-> {}, error |-> {}]
NoResult == [value |-> 0, fds |-> << >>, sets |-> NoSets]
Entry    == [fd : Fds, events : SUBSET Flags, revents : SUBSET Flags]
ERROR    == -1

AskedIn(sets) == sets.read \cup sets.write \cup sets.error

Init ==
  /\ pc = "idle" /\ fds = << >> /\ timeout = 0 /\ elapsed = 0 /\ i = 1 /\ eventCount = 0
  /\ asked = NoSets /\ early = {} /\ data = {} /\ room = Fds
  /\ result = NoResult

-----------------------------------------------------------------------------
(* select()'s sets as an array and back.                                   *)

Blank == [fd |-> 0, events |-> {}, revents |-> {}]

\* One round of select_to_poll's loop: an entry is kept if its descriptor is not 0, and
\* written over in the next round if it is.  Slip: no entry for
\* a descriptor that is only in the third set.
FilledInMutant(entry, fd, sets) ==
  LET events == (IF fd \in sets.read THEN {"IN"} ELSE {})
                \cup (IF fd \in sets.write THEN {"OUT"} ELSE {})
  IN  IF fd \in sets.read \cup sets.write
      THEN [entry EXCEPT !.fd = fd, !.events = events] ELSE entry

FilledIn(entry, fd, sets) ==
  LET events == (IF fd \in sets.read THEN {"IN"} ELSE entry.events)
                \cup (IF fd \in sets.write THEN {"OUT"} ELSE {})
  IN  IF fd \in AskedIn(sets) THEN [entry EXCEPT !.fd = fd, !.events = events] ELSE entry

select_to_poll(nfds, sets) ==
  LET round[n \in 0 .. nfds] ==
        IF n = 0 THEN [kept |-> << >>, entry |-> Blank]
        ELSE LET before == round[n - 1]
                 entry  == FilledIn(before.entry, n - 1, sets)
             IN  IF entry.fd # 0
                 THEN [kept |-> Append(before.kept, entry), entry |-> Blank]
                 ELSE [before EXCEPT !.entry = entry]
  IN  round[nfds].kept

\* The descriptors whose revents hold a flag, for each of the sets asked for; the
\* number that select() returns counts them once per set.
poll_to_select(entries, sets) ==
  LET Reported(flag) == { entries[k].fd : k \in { j \in DOMAIN entries : flag \in entries[j].revents } }
  IN  [read |-> Reported("IN"), write |-> Reported("OUT"), error |-> {}]

Size(sets) == Cardinality(sets.read) + Cardinality(sets.write) + Cardinality(sets.error)

-----------------------------------------------------------------------------
(* Calls.                                                                  *)

Rdma(entries) == { k \in DOMAIN entries : entries[k].fd \in Bridged }

\* poll() up to its first look.
Enter(entries, t) ==
  /\ fds' = entries /\ timeout' = t /\ elapsed' = 0 /\ i' = 1
  /\ early' = data
  /\ pc' = IF entries = << >> THEN "return"
           ELSE CASE Rdma(entries) = {}             -> "kernel"
                  [] Rdma(entries) = DOMAIN entries -> "look"
                  [] OTHER                          -> "return"
  /\ eventCount' = IF Rdma(entries) \in { {}, DOMAIN entries } THEN 0 ELSE ERROR
  /\ result' = NoResult
  /\ UNCHANGED env

\* The application has not cleared revents since its last call.
Poll(request, t, stale) ==
  /\ pc = "idle"
  /\ asked' = NoSets
  /\ Enter([k \in DOMAIN request |-> [fd |-> request[k].fd, events |-> request[k].events,
                                      revents |-> stale]], t)

Nfds(sets) == CHOOSE n \in { fd + 1 : fd \in AskedIn(sets) } : \A fd \in AskedIn(sets) : fd < n

Select(sets, t) ==
  /\ pc = "idle" /\ AskedIn(sets) \cap Bridged # {}
  /\ asked' = sets
  /\ Enter(select_to_poll(Nfds(sets), sets), t)

\* Without a bridged descriptor that is the real select(), which may fail.
RealSelect(sets, t) ==
  /\ pc = "idle" /\ AskedIn(sets) # {} /\ AskedIn(sets) \cap Bridged = {}
  /\ LET ready == [read |-> sets.read \cap data, write |-> sets.write \cap room, error |-> {}]
     IN  \/ /\ Size(ready) > 0 \/ t >= 0
            /\ result' = [value |-> Size(ready), fds |-> << >>, sets |-> ready]
         \/ result' = [value |-> ERROR, fds |-> << >>, sets |-> sets]
  /\ UNCHANGED << pc, call, elapsed, i, eventCount, env >>

-----------------------------------------------------------------------------
(* poll().                                                                 *)

\* The flags asked for that are there.
Ready(e) == e.events \cap ((IF e.fd \in data THEN {"IN"} ELSE {})
                           \cup (IF e.fd \in room THEN {"OUT"} ELSE {}))

\* Of a buffer, hasData() is asked for the first; the second is given to whoever wants
\* it, although send() waits if there is no room.
Given(e) == (Ready(e) \cap {"IN"}) \cup (e.events \cap {"OUT"})

\* Slip: the first entry passed over.
LookMutant ==
  /\ pc = "look"
  /\ LET flags == IF i > 1 THEN Given(fds[i]) ELSE {}
     IN  /\ eventCount' = eventCount + Cardinality(flags)
         /\ fds' = [fds EXCEPT ![i].revents = @ \cup flags]
  /\ i' = i + 1
  /\ pc' = IF i = Len(fds) THEN "time" ELSE "look"
  /\ UNCHANGED << timeout, asked, early, elapsed, env, result >>

\* Slip: the flag counted whether there is data or not.
LookMutantAny ==
  /\ pc = "look"
  /\ LET flags == fds[i].events
     IN  /\ eventCount' = eventCount + Cardinality(flags)
         /\ fds' = [fds EXCEPT ![i].revents = @ \cup flags]
  /\ i' = i + 1
  /\ pc' = IF i = Len(fds) THEN "time" ELSE "look"
  /\ UNCHANGED << timeout, asked, early, elapsed, env, result >>

Look ==
  /\ pc = "look"
  /\ LET flags == Given(fds[i])
     IN  /\ eventCount' = eventCount + Cardinality(flags)
         /\ fds' = [fds EXCEPT ![i].revents = @ \cup flags]
  /\ i' = i + 1
  /\ pc' = IF i = Len(fds) THEN "time" ELSE "look"
  /\ UNCHANGED << timeout, asked, early, elapsed, env, result >>

\* Slip, and what one would expect: again while the time is not over.
AgainMutant == elapsed < timeout

\* Slip: the next round not started from the front.
TimeMutant ==
  /\ pc = "time"
  /\ pc' = IF eventCount = 0 /\ elapsed > timeout THEN "look" ELSE "clear"
  /\ UNCHANGED << call, elapsed, i, eventCount, env, result >>

\* Another round is made if more time than the timeout has gone by.
Again == elapsed > timeout

Time ==
  /\ pc = "time"
  /\ i' = 1
  /\ pc' = IF eventCount = 0 /\ Again THEN "look" ELSE "clear"
  /\ UNCHANGED << call, elapsed, eventCount, env, result >>

\* The real poll() counts descriptors, or fails, for a signal among other reasons.
Kernel ==
  /\ pc = "kernel"
  /\ \/ LET count == Cardinality({ k \in DOMAIN fds : Ready(fds[k]) # {} })
        IN  /\ count > 0 \/ (timeout >= 0 /\ elapsed >= timeout)
            /\ fds' = [k \in DOMAIN fds |-> [fds[k] EXCEPT !.revents = Ready(fds[k])]]
            /\ eventCount' = count
     \/ eventCount' = ERROR /\ UNCHANGED fds
  /\ pc' = "clear"
  /\ UNCHANGED << timeout, asked, early, elapsed, i, env, result >>

Clear ==
  /\ pc = "clear"
  /\ fds' = [k \in DOMAIN fds |-> [fds[k] EXCEPT !.revents = {}]]
  /\ pc' = "return"
  /\ UNCHANGED << timeout, asked, early, elapsed, i, eventCount, env, result >>

\* Back to the application, or to forward_to_poll, which has its sets zeroed;
\* the local variables are gone.
Return ==
  /\ pc = "return"
  /\ LET sets == IF eventCount > 0 THEN poll_to_select(fds, asked) ELSE NoSets
     IN  result' = IF asked = NoSets
                   THEN [value |-> eventCount, fds |-> fds, sets |-> NoSets]
                   ELSE [value |-> IF eventCount > 0 THEN Size(sets) ELSE eventCount,
                         fds |-> << >>, sets |-> sets]
  /\ pc' = "idle" /\ fds' = << >> /\ timeout' = 0 /\ elapsed' = 0 /\ i' = 1 /\ eventCount' = 0
  /\ asked' = NoSets /\ early' = {}
  /\ UNCHANGED env

-----------------------------------------------------------------------------
(* What goes on meanwhile.                                                 *)

Arrive(fd) ==
  /\ fd \notin data
  /\ data' = data \cup {fd}
  /\ UNCHANGED << pc, call, elapsed, i, eventCount, room, result >>

\* The far side has read, and moved its readPos.
Drained(fd) ==
  /\ fd \notin room
  /\ room' = room \cup {fd}
  /\ UNCHANGED << pc, call, elapsed, i, eventCount, data, result >>

Tick ==
  /\ pc # "idle" /\ elapsed < MaxTime
  /\ elapsed' = elapsed + 1
  /\ UNCHANGED << pc, call, i, eventCount, env, result >>

\* The only thread that reads and writes is the one that polls.
Read(fd) ==
  /\ pc = "idle" /\ fd \in data
  /\ data' = data \ {fd}
  /\ UNCHANGED << pc, call, elapsed, i, eventCount, room, result >>

\* A write may leave less room than the next one needs.
FilledUp(fd) ==
  /\ pc = "idle" /\ fd \in room
  /\ room' = room \ {fd}
  /\ UNCHANGED << pc, call, elapsed, i, eventCount, data, result >>

Step == Look \/ Time \/ Kernel \/ Clear \/ Return

Next ==
  \/ \E request \in Requests, t \in Timeouts, stale \in SUBSET Flags : Poll(request, t, stale)
  \/ \E sets \in SetsAsked, t \in Timeouts : Select(sets, t) \/ RealSelect(sets, t)
  \/ Step
  \/ \E fd \in Fds : Arrive(fd) \/ Read(fd) \/ Drained(fd) \/ FilledUp(fd)
  \/ Tick

Spec == Init /\ [][Next]_vars

\* The polling thread is scheduled.
FairSpec == Spec /\ WF_vars(Step)

-----------------------------------------------------------------------------
(* Properties.                                                             *)

TypeOK ==
  /\ pc \in { "idle", "look", "time", "kernel", "clear", "return" }
  /\ fds \in Seq(Entry) /\ timeout \in Timeouts \cup {0} /\ elapsed \in 0 .. MaxTime
  /\ i \in 1 .. Len(fds) + 1 /\ (pc = "look" => i <= Len(fds))
  /\ eventCount \in ERROR .. 2 * Len(fds)
  /\ asked \in Sets /\ result.sets \in Sets /\ data \subseteq Fds /\ room \subseteq Fds

Answered == pc = "clear"
Wants(flag, k) == flag \in fds[k].events

\* Entries whose descriptor can be read from without blocking, as was asked; and those
\* it was asked of whether they can be written to, and that can, or are buffers.
Inputs  == { k \in DOMAIN fds : Wants("IN", k) /\ fds[k].fd \in data }
Outputs == { k \in DOMAIN fds : Wants("OUT", k) /\ fds[k].fd \in Bridged \cup room }

\* hasData(): "whether there is data to be read non-blockingly".  poll() counts no input
\* that is not there, however often it goes round and whatever comes meanwhile: leaving
\* aside the POLLOUT that it says of every buffer it is asked for, for which a send() may
\* have to wait, its count is no more than what there is when it returns.
NoFalseInput == Answered => eventCount <= Cardinality(Inputs) + Cardinality(Outputs)

\* poll() does not say that nothing has happened if a message was there to be read
\* when it was called, whatever the number of rounds and the order of the array.
NothingMissed ==
  Answered /\ eventCount = 0 =>
    \A k \in DOMAIN fds : /\ ~ (Wants("OUT", k) /\ fds[k].fd \in Bridged)
                          /\ ~ (Wants("IN", k) /\ fds[k].fd \in early)

\* With a negative timeout, poll() does not give up; the real one may fail.
NeverGivesUp == Answered /\ timeout = -1 => eventCount # 0

\* select() has poll() look at just the descriptors it was asked about, in order and
\* for the right flags, whatever other sets they are in; 0 is left out by mistake.
EntriesAsAsked ==
  pc \in { "look", "time" } /\ asked # NoSets /\ 0 \notin AskedIn(asked) =>
    /\ { fds[k].fd : k \in DOMAIN fds } = AskedIn(asked)
    /\ \A k, l \in DOMAIN fds : k < l => fds[k].fd < fds[l].fd
    /\ \A k \in DOMAIN fds : /\ Wants("IN", k)  <=> fds[k].fd \in asked.read
                             /\ Wants("OUT", k) <=> fds[k].fd \in asked.write

\* A call that waits for a message returns once there is one, although the message
\* may come behind its back at any point of a round.
PollReturns ==
  (/\ pc = "look"
   /\ \E k \in DOMAIN fds : Wants("IN", k) /\ fds[k].fd \in data) ~> (pc = "idle")

\* poll(): "This is necessary for repeated calls with the same poll structures (the
\* kernel probably does this internally first too)".  Cleared first, they would show
\* the events of this call: a call that counts some shows where they are.
Shown ==
  result.value > 0 /\ result.sets = NoSets =>
    \E k \in DOMAIN result.fds : result.fds[k].revents # {}
=============================================================================
