------------------------- MODULE OutputDeliveryInv -------------------------
(***************************************************************************)
(* The inductive invariant behind AckConfirmsStorage, BufferHoldsUnstored  *)
(* and StoredInOrder, for a session without wiggum mode whose proxy is not *)
(* killed and whose inserts succeed; and, under the same conditions, the   *)
(* abstract log that the output path implements: what was pushed with a    *)
(* number of at least 1 is what was sent, the rows of the messages table   *)
(* are what was delivered.                                                 *)
(***************************************************************************)
EXTENDS OutputDelivery

\* One sender at a time, no kill -9, a working database.
Reliable ==
  /\ ~Wiggum
  /\ Faults \cap {"proxy_crash", "db_error", "db_pool", "unparsed"} = {}

\* Every message numbered 1..s-1 is stored, trimmed or in X.
Below(s, X) ==
  \A m \in pushed :
    1 <= m.seq /\ m.seq < s => m \in Stored \union overflowed \union X

\* The messages a connection still has to store, before position i of its wire.
Storing(c) == {m \in {hand[c].m} : hand[c].at = "store"}
Upto(w, i) == {w[j] : j \in 1..i}
Ahead(c, i) == Storing(c) \union Upto(wire[c], i - 1)
Coming(c) == Storing(c) \union Upto(wire[c], Len(wire[c]))

\* The message a sender has pushed and not yet written.
Unwritten(t) == {m \in {t.m} : t.at = "send"}

\* Sequence numbers are handed out once, and only numbers handed out are used.
Numbering ==
  /\ \A m \in pushed : m.seq < buf.next
  /\ \A m, n \in pushed : m.seq = n.seq => m = n
  /\ buf.pending \subseteq pushed
  /\ buf.ack = 0 \/ buf.ack < buf.next
  /\ last_ack = 0 \/ last_ack < buf.next
  /\ cursor <= buf.next
  /\ \A i \in DOMAIN acks : acks[i] < buf.next
  /\ \A c \in Conns : hand[c].at # "idle" => hand[c].m \in pushed
  /\ \A c \in Conns : \A i \in DOMAIN wire[c] : wire[c][i] \in pushed

\* What the state on disk is when the proxy is down.
Persisted == mode = "down" => disk = buf

\* At most one task pushes: the forwarder (Claude) or the main loop (Codex).
OneSender ==
  /\ main.at # "push"
  /\ Agent = "claude" => main.at = "select"
  /\ Agent = "codex" => fwd.at = "recv" /\ chan = <<>>
  /\ mode # "loop" => fwd.at = "recv" /\ main.at = "select"
  /\ fwd.at = "send" => fwd.m \in pushed /\ fwd.m.seq + 1 = buf.next
  /\ main.at = "send" => main.m \in pushed /\ main.m.seq + 1 = buf.next

\* Acknowledgments and the two acknowledgment counters cover stored messages.
Covered ==
  /\ Settled(buf.ack)
  /\ Settled(last_ack)
  /\ \A i \in DOMAIN acks : Settled(acks[i])

\* On each connection the messages arrive without a gap that matters.
Gapless ==
  \A c \in Conns :
    /\ hand[c].at = "store" => Below(hand[c].m.seq, {})
    /\ hand[c].at = "ack" => Settled(hand[c].m.seq)
    /\ \A i \in DOMAIN wire[c] : Below(wire[c][i].seq, Ahead(c, i))

\* What is not stored is in the buffer, and on a live connection it is coming.
Kept ==
  \A m \in pushed : 1 <= m.seq => m \in Stored \union overflowed \union buf.pending

Resent ==
  /\ mode \in {"replay", "loop"} => cur \in Conns
  /\ mode = "replay" /\ link[cur] = "open" => Below(cursor, Coming(cur))
  /\ mode = "loop" /\ link[cur] = "open" =>
       Below(buf.next, Coming(cur) \union Unwritten(fwd) \union Unwritten(main))

IInv ==
  /\ TypeOK
  /\ Numbering
  /\ Persisted
  /\ OneSender
  /\ Covered
  /\ Gapless
  /\ Kept
  /\ Resent

-----------------------------------------------------------------------------
(* The refinement of the abstract log.                                      *)

\* Every number below the next one was given to a message.
Numbered == \A s \in 1..(buf.next - 1) : \E m \in pushed : m.seq = s

\* The backend's tracker starts at 0: number 0 is taken for a duplicate.
Storable == \A c \in Conns : hand[c].at = "store" => 1 <= hand[c].m.seq

\* A connection produces one content of its own, and what waits to be pushed has
\* been produced.
Produced ==
  /\ made <= MaxOutputs + cur
  /\ mode = "replay" => made < MaxOutputs + cur
  /\ \A i \in DOMAIN chan : chan[i] \in 1..made
  /\ fwd.at = "push" => fwd.m.item \in 1..made

\* What was pushed and what waits for it has been produced, and no more than was
\* pushed is in the buffer.
Counted ==
  /\ buf.next + Len(chan) + (IF fwd.at = "push" THEN 1 ELSE 0) <= made
  /\ IsFiniteSet(buf.pending) /\ Cardinality(buf.pending) <= buf.next

LogInv == IInv /\ Numbered /\ Storable /\ Produced /\ Counted

\* The contents: the agent's outputs and the portal message of each connection.
Contents == 1..(MaxOutputs + MaxConn)

ItemIn(ms, s) == (CHOOSE m \in ms : m.seq = s).item

Log == INSTANCE AtLeastOnceLog WITH
         Item <- Contents,
         sent <- [s \in 1..(buf.next - 1) |-> ItemIn(pushed, s)],
         got  <- [k \in DOMAIN rows |-> rows[k].seq]

\* The proxy, the network and the backend together deliver the pushed messages
\* in order and at least once.
ImplementsLog == Log!Spec
=============================================================================
