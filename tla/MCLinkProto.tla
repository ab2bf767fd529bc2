---------------------------- MODULE MCLinkProto ----------------------------
(* Small instances of LinkProto for TLC. *)
EXTENDS LinkProto

\* A request at a place in the stream.
F(op, head, data, note) == [op |-> op, pos |-> 0, head |-> head, data |-> data, note |-> note]

\* Requests of all kinds.  The buffer has 6 bytes: a header of 3 leaves room for
\* one byte of data.
Requests == {
  F("edit", 2, 0, 0), F("pulse", 1, 0, 0), F("quit", 1, 0, 0), F("bad", 1, 0, 0),
  F("pulse", 0, 0, 0), F("login", 1, 0, 0), F("tmtprev", 3, 0, 0), F("post", 1, 0, 0),
  F("ping", 1, 0, 0), F("ping", 2, 2, 0), F("ping", 2, 3, 0), F("invite", 1, 1, 0),
  F("ping", 3, 2, 0), F("post", 2, 1, 0), F("post", 3, 3, 0),
  F("postnotify", 1, 3, 1), F("postnotify", 2, 3, 2), F("postnotify", 1, 2, 2) }

\* Requests that state more data than an int64 can add to their header.
Huge == {F("post", 1, IntMax, 0), F("ping", 2, IntMax - 1, 0),
         F("postnotify", 1, IntMax - 2, 1)}

Rev   == F("tmtprev", 1, 0, 0)
Login == F("login", 2, 0, 0)

\* The requests of s put one after the other.
Laid(s) ==
  LET pos[i \in 1..Len(s)] == IF i = 1 THEN 0 ELSE pos[i-1] + Size(s[i-1])
  IN  [i \in 1..Len(s) |-> [s[i] EXCEPT !.pos = pos[i]]]

\* Any request first, or after TmtpRev, or any two after a login; one of Huge is last.
MCStream ==
  {Laid(<<r>>) : r \in Requests \cup Huge} \cup
  {Laid(<<Rev, r>>) : r \in Requests \cup Huge} \cup
  {Laid(<<Rev, Login, r, t>>) : r \in Requests, t \in Requests \cup Huge}
=============================================================================
