---------------------------- MODULE LossyChannel ----------------------------
(***************************************************************************)
(* What a runner, its queue and its workers promise together, and all they *)
(* promise: payloads 1, 2, 3, ... are accepted or dropped in the order in  *)
(* which they are collected; an accepted one is delivered at most once or  *)
(* lost; nothing else reaches the server.  When ordered, what is delivered *)
(* is delivered in the order of collection.                                *)
(***************************************************************************)
EXTENDS Naturals, Sequences

VARIABLES
  ordered,  \* TRUE when payloads never overtake each other; it never changes
  last,     \* number of payloads collected so far
  pending,  \* payloads accepted, not delivered or lost yet
  out       \* what the server received

channelVars == <<ordered, last, pending, out>>

ChannelInit == ordered \in BOOLEAN /\ last = 0 /\ pending = {} /\ out = <<>>

Accept == last' = last + 1 /\ pending' = pending \cup {last'} /\ UNCHANGED out

Drop == last' = last + 1 /\ UNCHANGED <<pending, out>>

Deliver(p) ==
  /\ ordered => \A q \in pending : p <= q
  /\ pending' = pending \ {p}
  /\ out' = Append(out, p)
  /\ UNCHANGED last

Lose(p) == pending' = pending \ {p} /\ UNCHANGED <<last, out>>

ChannelNext ==
  /\ UNCHANGED ordered
  /\ \/ Accept
     \/ Drop
     \/ \E p \in pending : Deliver(p)
     \/ \E p \in pending : Lose(p)

ChannelSpec == ChannelInit /\ [][ChannelNext]_channelVars
=============================================================================
