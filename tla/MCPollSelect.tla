---------------------------- MODULE MCPollSelect ----------------------------
(* Constants of PollSelect for TLC: descriptors 3 and 4 have buffers, 0 and *)
(* 5 have none.                                                            *)
EXTENDS PollSelect

MCFds == { 0, 3, 4, 5 }

Pollfd(fd, events) == [fd |-> fd, events |-> events]

\* No entry, sockets only, buffers only in any order, and a mixture.
MCRequests ==
  { << >>, << Pollfd(5, {"IN"}) >>,
    << Pollfd(3, {"IN"}) >>, << Pollfd(3, {"IN", "OUT"}) >>,
    << Pollfd(4, {"IN"}), Pollfd(3, {"IN"}) >>,
    << Pollfd(3, {"IN"}), Pollfd(5, {"OUT"}) >> }

Asked(r, w, e) == [read |-> r, write |-> w, error |-> e]

\* A descriptor in one, two or the third set only, descriptor 0, a socket beside a buffer,
\* and no buffer at all.
MCSetsAsked ==
  { Asked({3, 4}, {}, {}), Asked({4}, {3}, {}), Asked({3}, {3}, {4}), Asked({4}, {}, {3}),
    Asked({0}, {3}, {}), Asked({3, 5}, {}, {}), Asked({5}, {}, {}) }

TimeoutsTried == { -1, 0, 1 }
=============================================================================
