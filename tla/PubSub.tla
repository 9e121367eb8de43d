------------------------------- MODULE PubSub -------------------------------
(***************************************************************************)
(* Publish and subscribe: the hub of src/src/pubsub.rs, the connection     *)
(* tasks that publish (PubSubCmd::apply_publish) and those in subscriber   *)
(* mode (run_subscriber_mode in src/src/main.rs).                          *)
(*                                                                         *)
(* A channel is a tokio broadcast channel (external): a ring of the last   *)
(* CHANNEL_CAPACITY messages and, per receiver, the position of the next   *)
(* one to read.  sent[ch] is the number of messages sent so far; a message *)
(* is known by its position, and the ring holds the last CHANNEL_CAPACITY  *)
(* positions.  A receiver that falls behind the ring is told that it has   *)
(* lagged and goes on with the oldest message of the ring.                 *)
(*                                                                         *)
(* publish holds the read lock of the hub while it counts and sends, so it *)
(* is two steps between which no subscription can be added, but another    *)
(* publisher may send and a receiver may be dropped.  PING and refused     *)
(* commands in subscriber mode change nothing here.                        *)
(***************************************************************************)
EXTENDS Integers, Sequences, FiniteSets

CONSTANTS
    Channels,
    Subscribers,        \* connections that subscribe
    Publishers,         \* connections that publish
    CHANNEL_CAPACITY,   \* 1024 in the source
    SubscribeArgs,      \* the channel lists of the SUBSCRIBE commands sent
    MaxMessages,        \* bound: messages per channel
    MaxSubscribes       \* bound: SUBSCRIBE commands per connection

ASSUME PubSubAssumption ==
    /\ IsFiniteSet(Subscribers)
    /\ CHANNEL_CAPACITY \in Nat \ {0}
    /\ SubscribeArgs \subseteq Seq(Channels) \ {<<>>}
    /\ MaxMessages \in Nat
    /\ MaxSubscribes \in Nat

VARIABLES
    channels,   \* the channels the hub knows; none is ever removed
    sent,       \* messages sent per channel
    subs,       \* the connections that subscribe
    pubs,       \* the connections that publish
    answer      \* what the last publish returned, and who was there when it sent

vars == <<channels, sent, subs, pubs, answer>>

-----------------------------------------------------------------------------
(* State *)

\* No receiver: positions start at 1.
NoReceiver == 0

\* next[ch]: the position the receiver of ch reads next.  The others are history: heard[ch],
\* the positions written to the client; since[ch], the first one after its first
\* confirmation of ch; renewed[ch], where the receiver that its first SUBSCRIBE took last begins.
Away ==
    [pc      |-> "away",
     first   |-> TRUE,
     todo    |-> <<>>,
     next    |-> [ch \in Channels |-> NoReceiver],
     since   |-> [ch \in Channels |-> NoReceiver],
     renewed |-> [ch \in Channels |-> NoReceiver],
     heard   |-> [ch \in Channels |-> {}],
     count   |-> 0]

Quiet == [pc |-> "quiet"]

Receivers(ch) == {s \in Subscribers : subs[s].next[ch] # NoReceiver}

\* The oldest position the ring of ch still holds.
Oldest(ch) == IF sent[ch] > CHANNEL_CAPACITY THEN sent[ch] - CHANNEL_CAPACITY + 1 ELSE 1

Init ==
    /\ channels = {}
    /\ sent = [ch \in Channels |-> 0]
    /\ subs = [s \in Subscribers |-> Away]
    /\ pubs = [p \in Publishers |-> Quiet]
    /\ answer = [count |-> 0, receivers |-> 0]

SubStep(s, state) ==
    /\ subs' = [subs EXCEPT ![s] = state]
    /\ UNCHANGED <<pubs, answer>>

-----------------------------------------------------------------------------
(* A subscriber *)

\* SUBSCRIBE as the command that enters subscriber mode, or one more of them inside it.
Subscribe(s, args) ==
    /\ subs[s].pc \in {"away", "listen"}
    /\ subs[s].count < MaxSubscribes
    /\ SubStep(s, [subs[s] EXCEPT !.pc = "join", !.first = (subs[s].pc = "away"),
                                  !.todo = args, !.count = @ + 1])
    /\ UNCHANGED <<channels, sent>>

\* A new receiver of ch, in the place of an old one (the two are there together for a moment,
\* which only adds to a count).  What the old one had not read is lost.
Joined(s, ch) ==
    [subs[s] EXCEPT !.pc = "confirm",
                    !.next[ch] = sent[ch] + 1,
                    !.renewed[ch] = IF subs[s].first THEN sent[ch] + 1 ELSE @]

\* Mutant of Join: a later SUBSCRIBE to a channel already joined takes a new receiver.
JoinAgain(s) ==
    LET ch == Head(subs[s].todo)
    IN  /\ subs[s].pc = "join"
        /\ \A p \in Publishers : pubs[p].pc # "send"
        /\ channels' = channels \cup {ch}
        /\ SubStep(s, Joined(s, ch))
        /\ UNCHANGED sent

\* Mutant of Join: subscribe under the read lock.
JoinShared(s) ==
    LET ch == Head(subs[s].todo)
    IN  /\ subs[s].pc = "join"
        /\ \/ /\ subs[s].first \/ subs[s].next[ch] = NoReceiver
              /\ channels' = channels \cup {ch}
              /\ SubStep(s, Joined(s, ch))
           \/ /\ ~subs[s].first /\ subs[s].next[ch] # NoReceiver
              /\ SubStep(s, [subs[s] EXCEPT !.pc = "confirm"])
              /\ UNCHANGED channels
        /\ UNCHANGED sent

\* One channel of the list: a new receiver, under the write lock of the hub.  The first
\* SUBSCRIBE does not look whether the channel is there already, later ones do.
Join(s) ==
    LET ch == Head(subs[s].todo)
    IN  /\ subs[s].pc = "join"
        /\ \/ /\ subs[s].first \/ subs[s].next[ch] = NoReceiver
              /\ \A p \in Publishers : pubs[p].pc # "send"
              /\ channels' = channels \cup {ch}
              /\ SubStep(s, Joined(s, ch))
           \/ /\ ~subs[s].first /\ subs[s].next[ch] # NoReceiver
              /\ SubStep(s, [subs[s] EXCEPT !.pc = "confirm"])
              /\ UNCHANGED channels
        /\ UNCHANGED sent

\* The confirmation of that channel reaches the client.
Confirm(s) ==
    LET ch   == Head(subs[s].todo)
        rest == Tail(subs[s].todo)
    IN  /\ subs[s].pc = "confirm"
        /\ SubStep(s, [subs[s] EXCEPT !.pc = IF rest = <<>> THEN "listen" ELSE "join",
                                      !.todo = rest,
                                      !.since[ch] = IF @ = NoReceiver THEN sent[ch] + 1 ELSE @])
        /\ UNCHANGED <<channels, sent>>

\* The next item of one of the streams: a message, written to the client, or the notice of
\* a lag, which is ignored.
Deliver(s, ch) ==
    LET next == subs[s].next[ch]
    IN  /\ subs[s].pc = "listen"
        /\ next \in 1 .. sent[ch]
        /\ \/ /\ next < Oldest(ch)
              /\ SubStep(s, [subs[s] EXCEPT !.next[ch] = Oldest(ch)])
           \/ /\ next >= Oldest(ch)
              /\ SubStep(s, [subs[s] EXCEPT !.next[ch] = next + 1,
                                            !.heard[ch] = @ \cup {next}])
        /\ UNCHANGED <<channels, sent>>

\* The connection ends, at any point: its receivers are dropped.
Leave(s) ==
    /\ subs[s].pc \notin {"away", "gone"}
    /\ SubStep(s, [Away EXCEPT !.pc = "gone"])
    /\ UNCHANGED <<channels, sent>>

-----------------------------------------------------------------------------
(* A publisher *)

PublishStep(p, state, count, receivers) ==
    /\ pubs' = [pubs EXCEPT ![p] = state]
    /\ answer' = [count |-> count, receivers |-> receivers]
    /\ UNCHANGED <<channels, subs>>

\* publish up to receiver_count; a channel nobody ever joined is not known and is answered 0.
PublishCount(p, ch) ==
    /\ pubs[p].pc = "quiet"
    /\ \/ /\ ch \in channels
          /\ PublishStep(p, [pc |-> "send", ch |-> ch, count |-> Cardinality(Receivers(ch))], 0, 0)
       \/ /\ ch \notin channels
          /\ PublishStep(p, Quiet, 0, Cardinality(Receivers(ch)))
    /\ UNCHANGED sent

\* send, which fails and keeps nothing when the last receiver is gone, and the answer.
PublishSend(p) ==
    LET ch == pubs[p].ch
    IN  /\ pubs[p].pc = "send"
        /\ \/ /\ Receivers(ch) # {}
              /\ sent[ch] < MaxMessages
              /\ sent' = [sent EXCEPT ![ch] = @ + 1]
           \/ /\ Receivers(ch) = {}
              /\ UNCHANGED sent
        /\ PublishStep(p, Quiet, pubs[p].count, Cardinality(Receivers(ch)))

-----------------------------------------------------------------------------
\* Messages sent or about to be, for the bound.
Announced(ch) == sent[ch] + Cardinality({p \in Publishers : pubs[p].pc = "send" /\ pubs[p].ch = ch})

SubscriberNext(s) ==
    \/ Join(s)
    \/ Confirm(s)
    \/ \E ch \in Channels : Deliver(s, ch)

Next ==
    \/ \E s \in Subscribers, args \in SubscribeArgs : Subscribe(s, args)
    \/ \E s \in Subscribers : SubscriberNext(s)
    \/ \E s \in Subscribers : Leave(s)
    \/ \E p \in Publishers, ch \in Channels : Announced(ch) < MaxMessages /\ PublishCount(p, ch)
    \/ \E p \in Publishers : PublishSend(p)

Spec == Init /\ [][Next]_vars

-----------------------------------------------------------------------------
(* Properties *)

\* Every message sent on ch since s was first confirmed is written to it or still ahead of
\* it, was dropped by the ring because CHANNEL_CAPACITY newer ones followed, or lies before
\* the position except.
Hears(s, ch, except) ==
    subs[s].since[ch] # NoReceiver =>
      \A pos \in subs[s].since[ch] .. sent[ch] :
        \/ pos \in subs[s].heard[ch]
        \/ pos >= subs[s].next[ch]
        \/ sent[ch] - pos >= CHANNEL_CAPACITY
        \/ pos < except

\* A client whose subscription was confirmed misses a message sent after that only by
\* falling behind, or because its first SUBSCRIBE names the channel again and replaces the
\* receiver it has just confirmed; no later SUBSCRIBE costs it a message (contains_key in
\* run_subscriber_mode).
ConfirmedHears ==
    \A s \in Subscribers, ch \in Channels : Hears(s, ch, subs[s].renewed[ch])

\* The same without that exception: a client whose subscription was confirmed misses only
\* what the ring has dropped.  run_subscriber_mode breaks this when the first SUBSCRIBE names
\* a channel twice, since it inserts a new receiver without contains_key.
SubscribedHears == \A s \in Subscribers, ch \in Channels : Hears(s, ch, NoReceiver)

\* PUBLISH never answers less than the number of subscribers the message went to: none can
\* join between the count and the send (the read lock of publish against subscribe).  It may
\* answer more: a subscriber that leaves in between is counted.
CountCoversReceivers == answer.count >= answer.receivers
=============================================================================
