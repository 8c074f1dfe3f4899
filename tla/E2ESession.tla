------------------------------ MODULE E2ESession ------------------------------
(***************************************************************************)
(* common/e2e_security.py: the sessions between a node and a sink, as      *)
(* node.py and sink.py make them: a new E2ESession object for every        *)
(* attempt of the node and for every AUTH message the sink handles.        *)
(*                                                                         *)
(* Messages may be lost, repeated and reordered, so what was sent once may *)
(* arrive at any time; a data frame may also arrive damaged.  Keys are not *)
(* computed: an ephemeral key and its nonce are a number, a session key is *)
(* the pair of numbers it is derived from, and a signature holds for the   *)
(* numbers it was made over.                                               *)
(***************************************************************************)
EXTENDS Functions, Naturals, Sequences

CONSTANTS
  Texts,        \* plaintexts
  None,         \* no key
  MaxHellos,    \* bound on the attempts of the node
  MaxAnswers,   \* bound on the AUTH messages the sink handles
  MaxCounter    \* bound on the frames of a session

Key == [hello : 1 .. MaxHellos, answer : 1 .. MaxAnswers]
Side == {"node", "sink"}
Frame == [key : Key, counter : 1 .. MaxCounter, text : Texts]

ASSUME SessionAssumption ==
  /\ MaxHellos \in Nat /\ MaxAnswers \in Nat /\ MaxCounter \in Nat
  /\ None \notin Key

VARIABLES
  hellos,     \* ClientHellos made so far, numbered from 1
  pending,    \* the hello whose nonce is the salt of the node's session, or 0
  answers,    \* ServerHellos sent, each named by the key it leads to
  answered,   \* how many
  key,        \* side -> session_key, or None while not is_established
  tx, rx,     \* side -> tx_counter, rx_counter
  frames,     \* side -> data frames it sent
  handed      \* side -> frames whose plaintext decrypt_payload returned, in order

vars == <<hellos, pending, answers, answered, key, tx, rx, frames, handed>>

TypeOK ==
  /\ hellos \in 0 .. MaxHellos /\ pending \in {0, hellos}
  /\ answers \subseteq Key /\ answered \in 0 .. MaxAnswers
  /\ key \in [Side -> Key \cup {None}]
  /\ tx \in [Side -> 0 .. MaxCounter] /\ rx \in [Side -> 0 .. MaxCounter]
  /\ frames \in [Side -> SUBSET Frame] /\ handed \in [Side -> Seq(Frame)]

Init ==
  /\ hellos = 0 /\ pending = 0
  /\ answers = {} /\ answered = 0
  /\ key = [s \in Side |-> None]
  /\ tx = [s \in Side |-> 0] /\ rx = [s \in Side |-> 0]
  /\ frames = [s \in Side |-> {}] /\ handed = [s \in Side |-> <<>>]

Peer(s) == IF s = "node" THEN "sink" ELSE "node"

\* s gets a new E2ESession object, with session_key k.
NewSession(s, k) ==
  /\ key' = [key EXCEPT ![s] = k]
  /\ tx' = [tx EXCEPT ![s] = 0]
  /\ rx' = [rx EXCEPT ![s] = 0]
-----------------------------------------------------------------------------
(***************************************************************************)
(* The handshake.                                                          *)
(***************************************************************************)

\* _try_connect: a new session and its initiate_handshake.
InitiateHandshake ==
  /\ hellos < MaxHellos
  /\ hellos' = hellos + 1
  /\ pending' = hellos + 1
  /\ NewSession("node", None)
  /\ UNCHANGED <<answers, answered, frames, handed>>

\* _handle_auth: a new session and its respond_handshake, which establishes
\* it at once.  The answer is signed over both ephemeral keys and nonces.
RespondHandshake(h) ==
  /\ answered < MaxAnswers
  /\ answered' = answered + 1
  /\ LET k == [hello |-> h, answer |-> answered + 1]
     IN answers' = answers \cup {k} /\ NewSession("sink", k)
  /\ UNCHANGED <<hellos, pending, frames, handed>>

(***************************************************************************)
(* complete_handshake: the signature must hold for the node's own hello,   *)
(* else it raises.  The salt, part of what the next signature would have   *)
(* to be made over, becomes the salt of the key derivation.                *)
(***************************************************************************)
CompleteHandshake_Unsigned(a) ==
  /\ pending # 0
  /\ key' = [key EXCEPT !["node"] = [a EXCEPT !.hello = pending]]
  /\ pending' = 0
  /\ UNCHANGED <<hellos, answers, answered, tx, rx, frames, handed>>

CompleteHandshake_KeepsSalt(a) ==
  /\ a.hello = pending
  /\ key' = [key EXCEPT !["node"] = a]
  /\ UNCHANGED <<hellos, pending, answers, answered, tx, rx, frames, handed>>

CompleteHandshake(a) ==
  /\ a.hello = pending
  /\ key' = [key EXCEPT !["node"] = a]
  /\ pending' = 0
  /\ UNCHANGED <<hellos, answers, answered, tx, rx, frames, handed>>
-----------------------------------------------------------------------------
(***************************************************************************)
(* The data.                                                               *)
(***************************************************************************)
EncryptPayload_SameCounter(s, m) ==
  /\ key[s] # None
  /\ tx[s] < MaxCounter
  /\ frames' = [frames EXCEPT ![s] = @ \cup
                  {[key |-> key[s], counter |-> tx[s] + 1, text |-> m]}]
  /\ UNCHANGED <<hellos, pending, answers, answered, key, tx, rx, handed>>

\* encrypt_payload of side s: the counter is the nonce.
EncryptPayload(s, m) ==
  /\ key[s] # None
  /\ tx[s] < MaxCounter
  /\ tx' = [tx EXCEPT ![s] = @ + 1]
  /\ frames' = [frames EXCEPT ![s] = @ \cup
                  {[key |-> key[s], counter |-> tx[s] + 1, text |-> m]}]
  /\ UNCHANGED <<hellos, pending, answers, answered, key, rx, handed>>

\* What may arrive at s: a frame its peer sent, or a damaged one, whose
\* counter is any and which no key authenticates.  This is a faulty radio: a
\* frame of s itself, which has the same key, does not come back to it.
Damaged == [key : {None}, counter : 1 .. MaxCounter, text : {None}]
Arrivals(s) == frames[Peer(s)] \cup Damaged

(***************************************************************************)
(* decrypt_payload of side s on a frame it does not drop at once: the      *)
(* counter is taken before the frame is authenticated.                     *)
(***************************************************************************)
DecryptPayload_NotGreater(s, f) ==
  /\ key[s] # None
  /\ f.counter >= rx[s]
  /\ rx' = [rx EXCEPT ![s] = f.counter]
  /\ handed' = IF f.key = key[s] THEN [handed EXCEPT ![s] = Append(@, f)] ELSE handed
  /\ UNCHANGED <<hellos, pending, answers, answered, key, tx, frames>>

DecryptPayload(s, f) ==
  /\ key[s] # None
  /\ f.counter > rx[s]
  /\ rx' = [rx EXCEPT ![s] = f.counter]
  /\ handed' = IF f.key = key[s] THEN [handed EXCEPT ![s] = Append(@, f)] ELSE handed
  /\ UNCHANGED <<hellos, pending, answers, answered, key, tx, frames>>

Next ==
  \/ InitiateHandshake
  \/ \E h \in 1 .. hellos : RespondHandshake(h)
  \/ \E a \in answers : CompleteHandshake(a)
  \/ \E s \in Side, m \in Texts : EncryptPayload(s, m)
  \/ \E s \in Side : \E f \in Arrivals(s) : DecryptPayload(s, f)

Spec == Init /\ [][Next]_vars
-----------------------------------------------------------------------------
(***************************************************************************)
(* Properties.                                                             *)
(***************************************************************************)

(***************************************************************************)
(* relatorio.md:88-92, in both directions and over all sessions: the       *)
(* channel delivers only what the peer sent, at most once and in order,    *)
(* although hellos, answers and frames of older sessions still arrive      *)
(* (e2e_security.py:194, 214-218).                                         *)
(***************************************************************************)
Uplink == INSTANCE MessageStream
            WITH Message <- Frame, sent <- frames["node"], delivered <- handed["sink"]
Downlink == INSTANCE MessageStream
              WITH Message <- Frame, sent <- frames["sink"], delivered <- handed["node"]

StreamToSink == Uplink!Spec
StreamToNode == Downlink!Spec

(***************************************************************************)
(* An established node shares its key with the sink's answer to its latest *)
(* hello, never with the answer to an attempt it gave up                   *)
(* (e2e_security.py:157-168).                                              *)
(***************************************************************************)
KeyIsAgreed == key["node"] # None => key["node"] \in answers /\ key["node"].hello = hellos

(***************************************************************************)
(* The sink may answer one hello twice, with two keys and both answers     *)
(* signed; the second does not change the key under the node's running     *)
(* counters (e2e_security.py:164, 174).                                    *)
(***************************************************************************)
KeyIsStable ==
  [][key["node"] # None /\ hellos' = hellos => key'["node"] = key["node"]]_vars

(***************************************************************************)
(* One side never encrypts two messages under one key and nonce, however   *)
(* often it gets a new session (e2e_security.py:194-200).                  *)
(***************************************************************************)
NonceUsedOnce ==
  \A s \in Side : \A f, g \in frames[s] :
    f.key = g.key /\ f.counter = g.counter => f = g

(***************************************************************************)
(* Also across sessions nothing old comes after something new: once a side *)
(* got a frame of a session, it gets none of an earlier one any more,      *)
(* however late the frames and handshakes of that one arrive               *)
(* (e2e_security.py:157-168, 214-218; sink.py:153-172).                    *)
(***************************************************************************)
Earlier(s, f, g) ==
  \/ f.key = g.key /\ f.counter < g.counter
  \/ s = "node" /\ f.key.hello < g.key.hello
  \/ s = "sink" /\ f.key.answer < g.key.answer

SessionsInOrder ==
  \A s \in Side : \A i, j \in DOMAIN handed[s] :
    i < j => Earlier(s, handed[s][i], handed[s][j])

(***************************************************************************)
(* e2e_security.py:213-215, "checks that the counter is greater than the   *)
(* last received", and else reports a replay: a frame of the session that  *)
(* is newer than every frame it delivered is not reported.                 *)
(***************************************************************************)
NewerIsNoReplay ==
  \A s \in Side : \A f \in frames[Peer(s)] :
    /\ f.key = key[s]
    /\ \A g \in Range(handed[s]) : g.key = key[s] => g.counter < f.counter
    => f.counter > rx[s]
=============================================================================
