---------------------------- MODULE MessageStream ----------------------------
(***************************************************************************)
(* What the end-to-end channel promises in one direction: whatever the     *)
(* radio does with frames, a message is delivered only if it was sent, at  *)
(* most once, and in the order of sending within its session.  Messages    *)
(* may be lost.  relatorio.md:88-92.                                       *)
(***************************************************************************)
EXTENDS Functions, Naturals, Sequences

CONSTANT Message     \* records with fields key, the session, and counter

VARIABLES
  sent,       \* the messages sent
  delivered   \* the messages delivered, in order

\* m comes after all messages of s in its session.
After(m, s) == \A x \in s : x.key = m.key => x.counter < m.counter

Init == sent = {} /\ delivered = <<>>

Send ==
  /\ \E m \in Message : After(m, sent) /\ sent' = sent \cup {m}
  /\ UNCHANGED delivered

Deliver ==
  /\ \E m \in sent : After(m, Range(delivered)) /\ delivered' = Append(delivered, m)
  /\ UNCHANGED sent

Next == Send \/ Deliver

Spec == Init /\ [][Next]_<<sent, delivered>>
=============================================================================
