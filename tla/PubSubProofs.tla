---------------------------- MODULE PubSubProofs ----------------------------
(***************************************************************************)
(* Theorems about PubSub, for every set of channels, subscribers and       *)
(* publishers, every capacity of a channel and every list a client         *)
(* subscribes to.                                                          *)
(***************************************************************************)
EXTENDS PubSub, FiniteSetTheorems, TLAPS

SubStates ==
    [pc      : {"away", "join", "confirm", "listen", "gone"},
     first   : BOOLEAN,
     todo    : Seq(Channels),
     next    : [Channels -> Nat],
     since   : [Channels -> Nat],
     renewed : [Channels -> Nat],
     heard   : [Channels -> SUBSET Nat],
     count   : Nat]

PubStates == {Quiet} \cup [pc : {"send"}, ch : Channels, count : Nat]

\* What a subscriber in state r was promised of ch and has of it, when n messages were sent
\* on it: what Hears says for ConfirmedHears.
HeardOf(r, ch, n) ==
    r.since[ch] # NoReceiver =>
      \A pos \in r.since[ch] .. n :
        \/ pos \in r.heard[ch]
        \/ pos >= r.next[ch]
        \/ n - pos >= CHANNEL_CAPACITY
        \/ pos < r.renewed[ch]

\* A receiver is never ahead of the message to be sent next, belongs to a channel of the
\* hub, and is there as long as the client was promised the channel.
ReceiverOK(r, ch, n, known) ==
    /\ r.next[ch] <= n + 1
    /\ r.next[ch] # NoReceiver => ch \in known
    /\ r.since[ch] # NoReceiver => r.next[ch] # NoReceiver
    /\ HeardOf(r, ch, n)

\* A subscriber that joins has a channel to join, and has its receiver when it confirms it.
SubOK(r, counts, known) ==
    /\ r.pc \in {"join", "confirm"} => r.todo # <<>>
    /\ r.pc = "confirm" => r.next[Head(r.todo)] # NoReceiver
    /\ \A ch \in Channels : ReceiverOK(r, ch, counts[ch], known)

\* A publisher that has counted counted at least the receivers there still are.
PubOK(p) ==
    pubs[p].pc = "send" => pubs[p].count >= Cardinality(Receivers(pubs[p].ch))

\* The inductive invariant.
PInv ==
    /\ channels \subseteq Channels
    /\ sent \in [Channels -> Nat]
    /\ subs \in [Subscribers -> SubStates]
    /\ pubs \in [Publishers -> PubStates]
    /\ answer \in [count : Nat, receivers : Nat]
    /\ \A s \in Subscribers : SubOK(subs[s], sent, channels)
    /\ \A p \in Publishers : PubOK(p)
    /\ CountCoversReceivers

-----------------------------------------------------------------------------
(* Counting receivers *)

\* A channel has finitely many receivers, whatever the state of the subscribers.
LEMMA ReceiversFinite ==
    ASSUME NEW ch
    PROVE  IsFiniteSet(Receivers(ch)) /\ Cardinality(Receivers(ch)) \in Nat
<1>1. Receivers(ch) \subseteq Subscribers
  BY DEF Receivers
<1> QED BY <1>1, FS_Subset, FS_CardinalityType, PubSubAssumption

\* Fewer receivers count for no more.
LEMMA ReceiversShrink ==
    ASSUME NEW ch, Receivers(ch)' \subseteq Receivers(ch)
    PROVE  Cardinality(Receivers(ch)') <= Cardinality(Receivers(ch))
  BY ReceiversFinite, FS_Subset

-----------------------------------------------------------------------------
(* What a step of one side owes the invariant *)

\* A subscriber's step into a state that is OK by itself preserves the invariant when it
\* takes no receiver that was not there before, or no publisher is between its count and
\* its send.
LEMMA SubStepOK ==
    ASSUME PInv, NEW s \in Subscribers, NEW state \in SubStates, SubStep(s, state),
           SubOK(state, sent', channels'), sent' = sent,
           channels \subseteq channels', channels' \subseteq Channels,
           \/ \A ch \in Channels : subs[s].next[ch] = NoReceiver => state.next[ch] = NoReceiver
           \/ \A p \in Publishers : pubs[p].pc # "send"
    PROVE  PInv'
<1>1. subs' \in [Subscribers -> SubStates] /\ subs' = [subs EXCEPT ![s] = state]
  BY DEF PInv, SubStep
<1>2. pubs' = pubs /\ answer' = answer
  BY DEF SubStep
<1>3. ASSUME NEW x \in Subscribers
      PROVE  SubOK(subs'[x], sent', channels')
  <2>1. CASE x = s
    <3>1. subs'[x] = state
      BY <1>1, <2>1 DEF PInv
    <3> QED BY <3>1 DEF SubOK, ReceiverOK, HeardOf
  <2>2. CASE x # s
    <3>1. subs'[x] = subs[x]
      BY <1>1, <2>2 DEF PInv
    <3> QED BY <3>1 DEF PInv, SubOK, ReceiverOK, HeardOf
  <2> QED BY <2>1, <2>2
<1>4. ASSUME NEW p \in Publishers, pubs[p].pc = "send"
      PROVE  pubs[p].count >= Cardinality(Receivers(pubs[p].ch)')
  <2>0. pubs[p].ch \in Channels /\ pubs[p].count \in Nat
    BY <1>4 DEF PInv, PubStates, Quiet
  <2>1. PICK ch \in Channels : ch = pubs[p].ch
    BY <2>0
  <2>2. Receivers(ch)' \subseteq Receivers(ch)
    <3>1. \A x \in Subscribers : x # s => subs'[x] = subs[x]
      BY <1>1 DEF PInv
    <3>2. subs'[s] = state
      BY <1>1 DEF PInv
    <3>3. subs[s].next[ch] = NoReceiver => state.next[ch] = NoReceiver
      BY <1>4, <2>1
    <3> QED BY <3>1, <3>2, <3>3 DEF Receivers
  <2>3. Cardinality(Receivers(ch)') <= Cardinality(Receivers(ch))
    BY <2>2, ReceiversShrink
  <2>4. pubs[p].count >= Cardinality(Receivers(ch))
    BY <1>4, <2>1 DEF PInv, PubOK
  <2>5. Cardinality(Receivers(ch)') \in Nat /\ Cardinality(Receivers(ch)) \in Nat
    <3>1. Receivers(ch)' \subseteq Subscribers
      BY DEF Receivers
    <3> QED BY <3>1, ReceiversFinite, FS_Subset, FS_CardinalityType, PubSubAssumption
  <2>6. pubs[p].count >= Cardinality(Receivers(ch)')
    BY <2>0, <2>3, <2>4, <2>5
  <2>7. Receivers(pubs[p].ch)' = Receivers(ch)'
    BY <1>2, <2>1
  <2> QED BY <2>6, <2>7
<1>5. \A p \in Publishers : PubOK(p)'
  BY <1>2, <1>4 DEF PubOK, Receivers
<1>6. CountCoversReceivers'
  BY <1>2 DEF PInv, CountCoversReceivers
<1> QED BY <1>1, <1>2, <1>3, <1>5, <1>6 DEF PInv

\* The receiver of another channel is not disturbed by what a step does to ch.
LEMMA ReceiverKept ==
    ASSUME NEW r, NEW q, NEW ch, NEW n, NEW known, NEW more, ReceiverOK(r, ch, n, known),
           q.next[ch] = r.next[ch], q.since[ch] = r.since[ch], q.heard[ch] = r.heard[ch],
           q.renewed[ch] = r.renewed[ch],
           known \subseteq more
    PROVE  ReceiverOK(q, ch, n, more)
  BY DEF ReceiverOK, HeardOf

-----------------------------------------------------------------------------
(* The steps of a subscriber *)

\* SUBSCRIBE is read: no receiver changes.
LEMMA SubscribeOK ==
    ASSUME PInv, NEW s \in Subscribers, NEW args \in SubscribeArgs, Subscribe(s, args)
    PROVE  PInv'
<1> DEFINE state == [subs[s] EXCEPT !.pc = "join", !.first = (subs[s].pc = "away"),
                                    !.todo = args, !.count = @ + 1]
<1>1. subs[s] \in SubStates /\ SubOK(subs[s], sent, channels) /\ sent' = sent /\ channels' = channels
  BY DEF PInv, Subscribe
<1>2. args \in Seq(Channels) /\ args # <<>>
  BY PubSubAssumption
<1>3. state \in SubStates
  <2>1. (subs[s].pc = "away") \in BOOLEAN /\ subs[s].count + 1 \in Nat
    BY <1>1 DEF SubStates
  <2> DEFINE b == (subs[s].pc = "away")
  <2>2. b \in BOOLEAN /\ state = [subs[s] EXCEPT !.pc = "join", !.first = b, !.todo = args,
                                                 !.count = @ + 1]
    BY <2>1
  <2> HIDE DEF b, state
  <2> QED BY <1>1, <1>2, <2>1, <2>2 DEF SubStates
<1>4. /\ state.pc = "join" /\ state.todo = args /\ state.next = subs[s].next
      /\ state.since = subs[s].since /\ state.heard = subs[s].heard
      /\ state.renewed = subs[s].renewed
  BY <1>1 DEF SubStates
<1>5. SubStep(s, state)
  BY DEF Subscribe
<1> HIDE DEF state
<1>6. SubOK(state, sent', channels')
  <2>1. \A ch \in Channels : ReceiverOK(state, ch, sent'[ch], channels')
    BY <1>1, <1>4, ReceiverKept DEF SubOK
  <2> QED BY <1>2, <1>4, <2>1 DEF SubOK
<1>7. channels' \subseteq Channels
  BY <1>1 DEF PInv
<1> QED BY <1>1, <1>3, <1>4, <1>5, <1>6, <1>7, SubStepOK

\* A new receiver: no promise of the channel was made, or the first SUBSCRIBE names it again.
LEMMA JoinedOK ==
    ASSUME PInv, NEW s \in Subscribers, subs[s].pc = "join",
           subs[s].first \/ subs[s].next[Head(subs[s].todo)] = NoReceiver,
           \A p \in Publishers : pubs[p].pc # "send",
           channels' = channels \cup {Head(subs[s].todo)},
           SubStep(s, Joined(s, Head(subs[s].todo))), sent' = sent
    PROVE  PInv'
<1> DEFINE r     == subs[s]
           c     == Head(r.todo)
           state == Joined(s, c)
<1>1. r \in SubStates /\ SubOK(r, sent, channels)
  BY DEF PInv
<1>2. r.todo \in Seq(Channels) /\ r.todo # <<>>
  BY <1>1 DEF SubStates, SubOK
<1>3. c \in Channels
  BY <1>2
<1>4. sent[c] \in Nat
  BY <1>3 DEF PInv
<1>5. state \in SubStates
  <2> DEFINE next    == [r.next EXCEPT ![c] = sent[c] + 1]
             renewed == [r.renewed EXCEPT ![c] = IF r.first THEN sent[c] + 1 ELSE r.renewed[c]]
  <2>1. next \in [Channels -> Nat] /\ renewed \in [Channels -> Nat]
    <3>1. r.next \in [Channels -> Nat] /\ r.renewed \in [Channels -> Nat]
      BY <1>1 DEF SubStates
    <3>2. r.renewed[c] \in Nat /\ sent[c] + 1 \in Nat
      BY <1>3, <1>4, <3>1
    <3> HIDE DEF r, c
    <3> QED BY <3>1, <3>2
  <2>2. state = [r EXCEPT !.pc = "confirm", !.next = next, !.renewed = renewed]
    BY <1>1 DEF Joined, SubStates
  <2> HIDE DEF next, renewed, state, r
  <2> QED BY <1>1, <2>1, <2>2 DEF SubStates
<1>6. /\ state.pc = "confirm" /\ state.todo = r.todo
      /\ state.next = [r.next EXCEPT ![c] = sent[c] + 1]
      /\ state.renewed = [r.renewed EXCEPT ![c] = IF r.first THEN sent[c] + 1 ELSE r.renewed[c]]
      /\ state.heard = r.heard /\ state.since = r.since
  BY <1>1 DEF Joined, SubStates
<1>7. SubStep(s, state)
  OBVIOUS
<1>8. channels \subseteq channels' /\ channels' \subseteq Channels /\ c \in channels'
  BY <1>3 DEF PInv
<1>9. r.first \/ r.since[c] = NoReceiver
  BY <1>1, <1>3 DEF SubOK, ReceiverOK
<1>10. /\ state.next[c] = sent[c] + 1 /\ state.since[c] = r.since[c]
       /\ r.first => state.renewed[c] = sent[c] + 1
  BY <1>1, <1>3, <1>6 DEF SubStates
<1>11. ReceiverOK(state, c, sent'[c], channels')
  <2>1. sent'[c] \in Nat /\ state.next[c] = sent'[c] + 1
    BY <1>4, <1>10
  <2>2. HeardOf(state, c, sent'[c])
    <3>1. CASE r.since[c] = NoReceiver
      BY <1>10, <3>1 DEF HeardOf
    <3>2. CASE r.first
      <4>1. r.since[c] \in Nat /\ state.renewed[c] = sent'[c] + 1
        BY <1>1, <1>3, <1>10, <3>2 DEF SubStates
      <4>2. ASSUME NEW pos \in state.since[c] .. sent'[c]
            PROVE  pos < state.renewed[c]
        BY <1>10, <2>1, <4>1, <4>2
      <4> QED BY <4>2 DEF HeardOf
    <3> QED BY <1>9, <3>1, <3>2
  <2> HIDE DEF state
  <2> QED BY <1>8, <1>10, <2>1, <2>2 DEF ReceiverOK, NoReceiver
<1>12. ASSUME NEW ch \in Channels, ch # c
       PROVE  ReceiverOK(state, ch, sent'[ch], channels')
  <2>1. /\ state.next[ch] = r.next[ch] /\ state.since[ch] = r.since[ch]
        /\ state.heard[ch] = r.heard[ch] /\ state.renewed[ch] = r.renewed[ch]
    BY <1>1, <1>6, <1>12 DEF SubStates
  <2>2. ReceiverOK(r, ch, sent[ch], channels)
    BY <1>1 DEF SubOK
  <2> HIDE DEF state, r
  <2> QED BY <1>8, <2>1, <2>2, ReceiverKept
<1>13. SubOK(state, sent', channels')
  <2>1. state.next[Head(state.todo)] # NoReceiver
    BY <1>4, <1>6, <1>10 DEF NoReceiver
  <2>2. state.todo # <<>>
    BY <1>2, <1>6
  <2> HIDE DEF state
  <2> QED BY <1>11, <1>12, <2>1, <2>2 DEF SubOK
<1> HIDE DEF state
<1> QED BY <1>5, <1>7, <1>8, <1>13, SubStepOK

\* A channel that was joined before keeps its receiver.
LEMMA RejoinedOK ==
    ASSUME PInv, NEW s \in Subscribers, subs[s].pc = "join",
           subs[s].next[Head(subs[s].todo)] # NoReceiver,
           SubStep(s, [subs[s] EXCEPT !.pc = "confirm"]),
           UNCHANGED <<channels, sent>>
    PROVE  PInv'
<1> DEFINE state == [subs[s] EXCEPT !.pc = "confirm"]
<1>1. subs[s] \in SubStates /\ SubOK(subs[s], sent, channels)
  BY DEF PInv
<1>2. state \in SubStates
  BY <1>1 DEF SubStates
<1>3. /\ state.pc = "confirm" /\ state.todo = subs[s].todo /\ state.next = subs[s].next
      /\ state.since = subs[s].since /\ state.heard = subs[s].heard
      /\ state.renewed = subs[s].renewed
  BY <1>1 DEF SubStates
<1>4. SubStep(s, state)
  OBVIOUS
<1> HIDE DEF state
<1>5. SubOK(state, sent', channels')
  <2>1. \A ch \in Channels : ReceiverOK(state, ch, sent'[ch], channels')
    BY <1>1, <1>3, ReceiverKept DEF SubOK
  <2> QED BY <1>1, <1>3, <2>1 DEF SubOK
<1>6. channels' \subseteq Channels
  BY DEF PInv
<1> QED BY <1>2, <1>3, <1>4, <1>5, <1>6, SubStepOK

\* One channel of the list.
LEMMA JoinOK ==
    ASSUME PInv, NEW s \in Subscribers, Join(s)
    PROVE  PInv'
  BY JoinedOK, RejoinedOK DEF Join

\* The confirmation: the promise starts with the message to be sent next.
LEMMA ConfirmOK ==
    ASSUME PInv, NEW s \in Subscribers, Confirm(s)
    PROVE  PInv'
<1> DEFINE r     == subs[s]
           c     == Head(r.todo)
           rest  == Tail(r.todo)
           state == [r EXCEPT !.pc = IF rest = <<>> THEN "listen" ELSE "join",
                              !.todo = rest,
                              !.since[c] = IF @ = NoReceiver THEN sent[c] + 1 ELSE @]
<1>1. r \in SubStates /\ SubOK(r, sent, channels) /\ r.pc = "confirm" /\ SubStep(s, state)
  BY DEF PInv, Confirm
<1>2. r.todo \in Seq(Channels) /\ r.todo # <<>>
  BY <1>1 DEF SubStates, SubOK
<1>3. c \in Channels /\ rest \in Seq(Channels)
  BY <1>2
<1>4. sent[c] \in Nat /\ sent' = sent /\ channels' = channels
  BY <1>3 DEF PInv, Confirm
<1>5. state \in SubStates
  <2> DEFINE pc    == IF rest = <<>> THEN "listen" ELSE "join"
             since == [r.since EXCEPT ![c] = IF @ = NoReceiver THEN sent[c] + 1 ELSE @]
  <2>1. since \in [Channels -> Nat] /\ pc \in {"listen", "join"}
    <3>1. r.since \in [Channels -> Nat]
      BY <1>1 DEF SubStates
    <3>2. r.since[c] \in Nat /\ sent[c] + 1 \in Nat
      BY <1>3, <1>4, <3>1
    <3>3. pc \in {"listen", "join"}
      OBVIOUS
    <3> HIDE DEF r, c, pc
    <3> QED BY <3>1, <3>2, <3>3
  <2>2. state = [r EXCEPT !.pc = pc, !.todo = rest, !.since = since]
    BY <1>1 DEF SubStates
  <2> HIDE DEF pc, since, state, r, rest
  <2> QED BY <1>1, <1>3, <2>1, <2>2 DEF SubStates
<1>6. /\ state.pc = (IF rest = <<>> THEN "listen" ELSE "join") /\ state.todo = rest
      /\ state.next = r.next /\ state.heard = r.heard /\ state.renewed = r.renewed
      /\ state.since = [r.since EXCEPT ![c] = IF r.since[c] = NoReceiver THEN sent[c] + 1
                                                                         ELSE r.since[c]]
  BY <1>1 DEF SubStates
<1>7. r.next[c] # NoReceiver /\ ReceiverOK(r, c, sent[c], channels)
  BY <1>1, <1>3 DEF SubOK
<1>8. state.since[c] = IF r.since[c] = NoReceiver THEN sent[c] + 1 ELSE r.since[c]
  BY <1>1, <1>3, <1>6 DEF SubStates
<1>9. \A ch \in Channels : ch # c => state.since[ch] = r.since[ch]
  BY <1>1, <1>6 DEF SubStates
<1> HIDE DEF state, r
<1>10. ReceiverOK(state, c, sent'[c], channels')
  <2>1. CASE r.since[c] = NoReceiver
    <3>1. state.since[c] .. sent[c] = {}
      BY <1>4, <1>8, <2>1
    <3> QED BY <1>4, <1>6, <1>7, <3>1 DEF ReceiverOK, HeardOf
  <2>2. CASE r.since[c] # NoReceiver
    BY <1>4, <1>6, <1>7, <1>8, <2>2, ReceiverKept
  <2> QED BY <2>1, <2>2
<1>11. \A ch \in Channels : ch # c => ReceiverOK(state, ch, sent'[ch], channels')
  BY <1>1, <1>4, <1>6, <1>9, ReceiverKept DEF SubOK
<1>12. SubOK(state, sent', channels')
  BY <1>6, <1>10, <1>11 DEF SubOK
<1>13. channels' \subseteq Channels
  BY <1>4 DEF PInv
<1> QED BY <1>1, <1>4, <1>5, <1>6, <1>12, <1>13, SubStepOK DEF r

\* An item of a stream: a message is written to the client, and what a lag skips has
\* CHANNEL_CAPACITY newer messages behind it.
LEMMA DeliverOK ==
    ASSUME PInv, NEW s \in Subscribers, NEW c \in Channels, Deliver(s, c)
    PROVE  PInv'
<1> DEFINE r    == subs[s]
           next == r.next[c]
           lag  == [r EXCEPT !.next[c] = Oldest(c)]
           msg  == [r EXCEPT !.next[c] = next + 1, !.heard[c] = @ \cup {next}]
<1>1. r \in SubStates /\ SubOK(r, sent, channels) /\ r.pc = "listen"
  BY DEF PInv, Deliver
<1>2. sent[c] \in Nat /\ sent' = sent /\ channels' = channels
  BY DEF PInv, Deliver
<1>3. next \in 1 .. sent[c] /\ next \in Nat /\ r.since[c] \in Nat /\ r.heard[c] \in SUBSET Nat
  BY <1>1 DEF Deliver, SubStates
<1>4. ReceiverOK(r, c, sent[c], channels)
  BY <1>1 DEF SubOK
<1>5. CHANNEL_CAPACITY \in Nat \ {0}
  BY PubSubAssumption
<1>6. Oldest(c) \in 1 .. sent[c]
  BY <1>2, <1>3, <1>5 DEF Oldest
<1>7. next # NoReceiver /\ c \in channels /\ channels' \subseteq Channels
  BY <1>2, <1>3, <1>4 DEF PInv, ReceiverOK, NoReceiver
<1>8. CASE next < Oldest(c) /\ SubStep(s, lag)
  <2> DEFINE to == [r.next EXCEPT ![c] = Oldest(c)]
  <2>1. to \in [Channels -> Nat] /\ to[c] = Oldest(c)
    BY <1>1, <1>6 DEF SubStates
  <2>2. \A ch \in Channels : ch # c => to[ch] = r.next[ch]
    BY <1>1 DEF SubStates
  <2>3. lag = [r EXCEPT !.next = to]
    BY <1>1 DEF SubStates
  <2> HIDE DEF to, lag, r
  <2>4. lag \in SubStates /\ lag.next = to /\ lag.since = r.since /\ lag.heard = r.heard
        /\ lag.pc = "listen" /\ lag.renewed = r.renewed
    BY <1>1, <2>1, <2>3 DEF SubStates
  <2>5. HeardOf(lag, c, sent[c])
    <3> SUFFICES ASSUME r.since[c] # NoReceiver, NEW pos \in r.since[c] .. sent[c]
                 PROVE  \/ pos \in r.heard[c]
                        \/ pos >= Oldest(c)
                        \/ sent[c] - pos >= CHANNEL_CAPACITY
                        \/ pos < r.renewed[c]
      BY <2>1, <2>4 DEF HeardOf
    <3>1. \/ pos \in r.heard[c]
          \/ pos >= next
          \/ sent[c] - pos >= CHANNEL_CAPACITY
          \/ pos < r.renewed[c]
      BY <1>4 DEF ReceiverOK, HeardOf
    <3>2. pos < Oldest(c) => sent[c] - pos >= CHANNEL_CAPACITY
      BY <1>2, <1>3, <1>5 DEF Oldest, NoReceiver
    <3>3. pos \in Int /\ Oldest(c) \in Int
      BY <1>3, <1>6
    <3> QED BY <3>1, <3>2, <3>3
  <2>6. ReceiverOK(lag, c, sent[c], channels)
    BY <1>2, <1>6, <1>7, <2>1, <2>4, <2>5 DEF ReceiverOK, NoReceiver
  <2>7. \A ch \in Channels : ch # c => ReceiverOK(lag, ch, sent[ch], channels)
    BY <1>1, <2>2, <2>4, ReceiverKept DEF SubOK
  <2>8. SubOK(lag, sent', channels')
    BY <1>2, <2>4, <2>6, <2>7 DEF SubOK
  <2>9. \A ch \in Channels : r.next[ch] = NoReceiver => lag.next[ch] = NoReceiver
    BY <1>7, <2>2, <2>4
  <2> QED BY <1>2, <1>7, <1>8, <2>4, <2>8, <2>9, SubStepOK DEF r
<1>9. CASE next >= Oldest(c) /\ SubStep(s, msg)
  <2> DEFINE to    == [r.next EXCEPT ![c] = next + 1]
             heard == [r.heard EXCEPT ![c] = @ \cup {next}]
  <2>1. /\ to \in [Channels -> Nat] /\ to[c] = next + 1
        /\ heard \in [Channels -> SUBSET Nat] /\ heard[c] = r.heard[c] \cup {next}
    <3>1. r.next \in [Channels -> Nat] /\ r.heard \in [Channels -> SUBSET Nat]
      BY <1>1 DEF SubStates
    <3>2. next + 1 \in Nat /\ r.heard[c] \cup {next} \in SUBSET Nat
      BY <1>3
    <3> HIDE DEF next, r
    <3>3. to \in [Channels -> Nat] /\ to[c] = next + 1
      BY <3>1, <3>2
    <3>4. heard \in [Channels -> SUBSET Nat] /\ heard[c] = r.heard[c] \cup {next}
      BY <3>1, <3>2
    <3> QED BY <3>3, <3>4
  <2>2. \A ch \in Channels : ch # c => to[ch] = r.next[ch] /\ heard[ch] = r.heard[ch]
    BY <1>1 DEF SubStates
  <2>3. msg = [r EXCEPT !.next = to, !.heard = heard]
    BY <1>1 DEF SubStates
  <2> HIDE DEF to, heard, msg, r
  <2>4. msg \in SubStates /\ msg.next = to /\ msg.since = r.since /\ msg.heard = heard
        /\ msg.pc = "listen" /\ msg.renewed = r.renewed
    BY <1>1, <2>1, <2>3 DEF SubStates
  <2>5. HeardOf(msg, c, sent[c])
    <3> SUFFICES ASSUME r.since[c] # NoReceiver, NEW pos \in r.since[c] .. sent[c]
                 PROVE  \/ pos \in heard[c]
                        \/ pos >= next + 1
                        \/ sent[c] - pos >= CHANNEL_CAPACITY
                        \/ pos < r.renewed[c]
      BY <2>1, <2>4 DEF HeardOf
    <3>1. \/ pos \in r.heard[c]
          \/ pos >= next
          \/ sent[c] - pos >= CHANNEL_CAPACITY
          \/ pos < r.renewed[c]
      BY <1>4 DEF ReceiverOK, HeardOf
    <3>2. pos \in Int
      BY <1>3
    <3>3. pos = next \/ pos >= next + 1 \/ ~(pos >= next)
      BY <1>3, <3>2
    <3> QED BY <2>1, <3>1, <3>3
  <2>6. ReceiverOK(msg, c, sent[c], channels)
    BY <1>2, <1>3, <1>7, <2>1, <2>4, <2>5 DEF ReceiverOK, NoReceiver
  <2>7. \A ch \in Channels : ch # c => ReceiverOK(msg, ch, sent[ch], channels)
    BY <1>1, <2>2, <2>4, ReceiverKept DEF SubOK
  <2>8. SubOK(msg, sent', channels')
    BY <1>2, <2>4, <2>6, <2>7 DEF SubOK
  <2>9. \A ch \in Channels : r.next[ch] = NoReceiver => msg.next[ch] = NoReceiver
    BY <1>7, <2>2, <2>4
  <2> QED BY <1>2, <1>7, <1>9, <2>4, <2>8, <2>9, SubStepOK DEF r
<1> QED BY <1>8, <1>9 DEF Deliver

\* A connection without receivers is in order, and has a state.
LEMMA AwayOK ==
    ASSUME NEW r \in {Away, [Away EXCEPT !.pc = "gone"]},
           NEW counts \in [Channels -> Nat], NEW known
    PROVE  /\ r \in SubStates
           /\ SubOK(r, counts, known)
           /\ \A ch \in Channels : r.next[ch] = NoReceiver
<1> DEFINE nobody  == [ch \in Channels |-> NoReceiver]
           nothing == [ch \in Channels |-> {}]
<1>1. /\ nobody \in [Channels -> Nat] /\ nothing \in [Channels -> SUBSET Nat]
      /\ \A ch \in Channels : nobody[ch] = NoReceiver
  BY DEF NoReceiver
<1>2. Away = [pc |-> "away", first |-> TRUE, todo |-> <<>>, next |-> nobody,
              since |-> nobody, renewed |-> nobody, heard |-> nothing, count |-> 0]
  BY DEF Away
<1> HIDE DEF nobody, nothing
<1>3. Away \in SubStates /\ Away.pc = "away" /\ Away.next = nobody /\ Away.since = nobody
  BY <1>1, <1>2 DEF SubStates
<1>4. r \in SubStates /\ r.pc \in {"away", "gone"} /\ r.next = nobody /\ r.since = nobody
  BY <1>3 DEF SubStates
<1>5. ASSUME NEW ch \in Channels
      PROVE  ReceiverOK(r, ch, counts[ch], known)
  <2>1. counts[ch] \in Nat
    OBVIOUS
  <2> QED BY <1>1, <1>4, <2>1 DEF ReceiverOK, HeardOf, NoReceiver
<1> QED BY <1>1, <1>4, <1>5 DEF SubOK

\* The connection ends.
LEMMA LeaveOK ==
    ASSUME PInv, NEW s \in Subscribers, Leave(s)
    PROVE  PInv'
<1> DEFINE state == [Away EXCEPT !.pc = "gone"]
<1>1. sent' = sent /\ channels' = channels /\ SubStep(s, state)
  BY DEF Leave
<1>2. /\ state \in SubStates /\ SubOK(state, sent', channels')
      /\ \A ch \in Channels : state.next[ch] = NoReceiver
  BY <1>1, AwayOK DEF PInv
<1> HIDE DEF state
<1>3. channels' \subseteq Channels
  BY <1>1 DEF PInv
<1> QED BY <1>1, <1>2, <1>3, SubStepOK

-----------------------------------------------------------------------------
(* The steps of a publisher *)

\* A publisher's step preserves the invariant when what it counted and what it answers
\* cover the receivers there are.
LEMMA PublishStepOK ==
    ASSUME PInv, NEW p \in Publishers, NEW state \in PubStates,
           NEW count \in Nat, NEW receivers \in Nat, PublishStep(p, state, count, receivers),
           sent' \in [Channels -> Nat], \A s \in Subscribers : SubOK(subs[s], sent', channels),
           count >= receivers,
           state.pc = "send" => state.count >= Cardinality(Receivers(state.ch))
    PROVE  PInv'
<1>1. /\ pubs' = [pubs EXCEPT ![p] = state] /\ pubs' \in [Publishers -> PubStates]
      /\ channels' = channels /\ subs' = subs
      /\ answer' = [count |-> count, receivers |-> receivers]
  BY DEF PInv, PublishStep
<1>2. \A q \in Publishers : pubs'[q] = IF q = p THEN state ELSE pubs[q]
  BY <1>1 DEF PInv
<1>3. \A q \in Publishers : PubOK(q)'
  BY <1>1, <1>2 DEF PInv, PubOK, Receivers
<1>4. answer' \in [count : Nat, receivers : Nat] /\ CountCoversReceivers'
  BY <1>1 DEF CountCoversReceivers
<1> QED BY <1>1, <1>3, <1>4 DEF PInv

\* receiver_count, or the answer 0 for a channel without receivers.
LEMMA PublishCountOK ==
    ASSUME PInv, NEW p \in Publishers, NEW ch \in Channels, PublishCount(p, ch)
    PROVE  PInv'
<1>1. sent' \in [Channels -> Nat] /\ \A s \in Subscribers : SubOK(subs[s], sent', channels)
  BY DEF PInv, PublishCount
<1>2. Cardinality(Receivers(ch)) \in Nat
  BY ReceiversFinite
<1>3. CASE ch \in channels /\ PublishStep(p, [pc |-> "send", ch |-> ch,
                                               count |-> Cardinality(Receivers(ch))], 0, 0)
  <2> DEFINE state == [pc |-> "send", ch |-> ch, count |-> Cardinality(Receivers(ch))]
  <2>1. /\ state \in PubStates /\ state.ch = ch
        /\ state.count = Cardinality(Receivers(ch)) /\ state.count \in Nat
    BY <1>2 DEF PubStates
  <2>2. PublishStep(p, state, 0, 0)
    BY <1>3
  <2> HIDE DEF state
  <2>3. state.count >= Cardinality(Receivers(state.ch))
    BY <1>2, <2>1
  <2> QED BY <1>1, <2>1, <2>2, <2>3, PublishStepOK
<1>4. CASE ch \notin channels /\ PublishStep(p, Quiet, 0, Cardinality(Receivers(ch)))
  <2>1. Receivers(ch) = {}
    BY <1>4 DEF PInv, Receivers, SubOK, ReceiverOK
  <2>2. Cardinality(Receivers(ch)) = 0
    BY <2>1, FS_EmptySet
  <2>3. Quiet \in PubStates /\ Quiet.pc # "send"
    BY DEF PubStates, Quiet
  <2> QED BY <1>1, <1>4, <2>2, <2>3, PublishStepOK
<1> QED BY <1>3, <1>4 DEF PublishCount

\* One message more on a channel: it is ahead of every receiver, or in reach of none.
LEMMA OneMoreOK ==
    ASSUME NEW r \in SubStates, NEW ch \in Channels, NEW n \in Nat, NEW known,
           ReceiverOK(r, ch, n, known)
    PROVE  ReceiverOK(r, ch, n + 1, known)
<1>1. r.next[ch] \in Nat /\ r.since[ch] \in Nat
  BY DEF SubStates
<1>2. CHANNEL_CAPACITY \in Nat
  BY PubSubAssumption
<1>3. ASSUME r.since[ch] # NoReceiver, NEW pos \in r.since[ch] .. n + 1
      PROVE  \/ pos \in r.heard[ch]
             \/ pos >= r.next[ch]
             \/ n + 1 - pos >= CHANNEL_CAPACITY
             \/ pos < r.renewed[ch]
  <2>1. CASE pos = n + 1
    BY <1>1, <2>1 DEF ReceiverOK
  <2>2. CASE pos \in r.since[ch] .. n
    <3>1. \/ pos \in r.heard[ch]
          \/ pos >= r.next[ch]
          \/ n - pos >= CHANNEL_CAPACITY
          \/ pos < r.renewed[ch]
      BY <1>3, <2>2 DEF ReceiverOK, HeardOf
    <3>2. n - pos >= CHANNEL_CAPACITY => n + 1 - pos >= CHANNEL_CAPACITY
      BY <1>1, <1>2
    <3> QED BY <3>1, <3>2
  <2>3. pos = n + 1 \/ pos \in r.since[ch] .. n
    BY <1>1
  <2> QED BY <2>1, <2>2, <2>3
<1>4. HeardOf(r, ch, n + 1)
  BY <1>3 DEF HeardOf
<1>5. r.next[ch] <= n + 1 + 1
  BY <1>1 DEF ReceiverOK
<1> QED BY <1>4, <1>5 DEF ReceiverOK

\* send, and the answer that was counted before.
LEMMA PublishSendOK ==
    ASSUME PInv, NEW p \in Publishers, PublishSend(p)
    PROVE  PInv'
<1> DEFINE ch == pubs[p].ch
<1>1. pubs[p].pc = "send" /\ ch \in Channels /\ pubs[p].count \in Nat
  BY DEF PInv, PublishSend, PubStates, Quiet
<1>2. pubs[p].count >= Cardinality(Receivers(ch))
  BY <1>1 DEF PInv, PubOK
<1>3. Cardinality(Receivers(ch)) \in Nat
  BY ReceiversFinite
<1>4. PublishStep(p, Quiet, pubs[p].count, Cardinality(Receivers(ch)))
  BY DEF PublishSend
<1>5. Quiet \in PubStates /\ Quiet.pc # "send"
  BY DEF PubStates, Quiet
<1>6. sent[ch] \in Nat /\ (sent' = sent \/ sent' = [sent EXCEPT ![ch] = @ + 1])
  BY <1>1 DEF PInv, PublishSend
<1> HIDE DEF ch
<1>7. /\ sent' \in [Channels -> Nat]
      /\ \A c \in Channels : sent'[c] = sent[c] \/ sent'[c] = sent[c] + 1
  BY <1>1, <1>6 DEF PInv
<1>8. ASSUME NEW s \in Subscribers
      PROVE  SubOK(subs[s], sent', channels)
  <2>1. subs[s] \in SubStates /\ SubOK(subs[s], sent, channels)
    BY DEF PInv
  <2>2. ASSUME NEW c \in Channels
        PROVE  ReceiverOK(subs[s], c, sent'[c], channels)
    <3>1. sent[c] \in Nat /\ ReceiverOK(subs[s], c, sent[c], channels)
      BY <2>1 DEF PInv, SubOK
    <3>2. ReceiverOK(subs[s], c, sent[c] + 1, channels)
      BY <2>1, <3>1, OneMoreOK
    <3> QED BY <1>7, <3>1, <3>2
  <2> QED BY <2>1, <2>2 DEF SubOK
<1> QED BY <1>1, <1>2, <1>3, <1>4, <1>5, <1>7, <1>8, PublishStepOK

-----------------------------------------------------------------------------
(* The invariant *)

\* Before the first connection.
LEMMA InitOK ==
    ASSUME Init
    PROVE  PInv
<1>1. sent \in [Channels -> Nat] /\ channels = {}
  BY DEF Init
<1>2. Away \in SubStates /\ SubOK(Away, sent, channels)
  BY <1>1, AwayOK
<1>3. subs \in [Subscribers -> SubStates] /\ \A s \in Subscribers : subs[s] = Away
  BY <1>2 DEF Init
<1>4. pubs \in [Publishers -> PubStates] /\ \A p \in Publishers : PubOK(p)
  BY DEF Init, PubStates, Quiet, PubOK
<1>5. answer \in [count : Nat, receivers : Nat] /\ CountCoversReceivers
  BY DEF Init, CountCoversReceivers
<1> QED BY <1>1, <1>2, <1>3, <1>4, <1>5 DEF PInv

\* Every step preserves the invariant.
LEMMA NextOK ==
    ASSUME PInv, [Next]_vars
    PROVE  PInv'
<1>1. CASE Next
  BY <1>1, SubscribeOK, JoinOK, ConfirmOK, DeliverOK, LeaveOK, PublishCountOK, PublishSendOK
  DEF Next, SubscriberNext
<1>2. CASE UNCHANGED vars
  BY <1>2 DEF vars, PInv, PubOK, Receivers, CountCoversReceivers
<1> QED BY <1>1, <1>2

\* The invariant holds in every reachable state.
LEMMA Invariance == Spec => []PInv
  BY InitOK, NextOK, PTL DEF Spec

\* A client whose subscription was confirmed misses a message only by falling
\* CHANNEL_CAPACITY messages behind, or because the list of its first SUBSCRIBE names the
\* channel again and run_subscriber_mode replaces the receiver; whatever it subscribes to
\* later, and however many others publish.
THEOREM ConfirmedClientsHear == Spec => []ConfirmedHears
<1>1. PInv => ConfirmedHears
  BY DEF PInv, SubOK, ReceiverOK, HeardOf, Hears, ConfirmedHears
<1> QED BY <1>1, Invariance, PTL

-----------------------------------------------------------------------------
(* Clients that name no channel twice *)

Distinct(list) == \A i, j \in DOMAIN list : i # j => list[i] # list[j]

\* No SUBSCRIBE names a channel twice.
NoRepeats == \A args \in SubscribeArgs : Distinct(args)

\* The channels a first SUBSCRIBE has still to join or to confirm.
Pending(r) ==
    /\ Distinct(r.todo)
    /\ \A i \in DOMAIN r.todo : r.since[r.todo[i]] = NoReceiver

\* A receiver taken by the first SUBSCRIBE is there before its channel is confirmed.
FreshOK(r, counts) ==
    /\ \A ch \in Channels : r.renewed[ch] <= counts[ch] + 1
    /\ \A ch \in Channels : r.since[ch] # NoReceiver => r.renewed[ch] <= r.since[ch]
    /\ r.pc = "away" => \A ch \in Channels : r.since[ch] = NoReceiver
    /\ r.pc \in {"join", "confirm"} /\ r.first => Pending(r)

FreshInv == \A s \in Subscribers : FreshOK(subs[s], sent)

\* A step of one subscriber leaves the others as they are.
LEMMA FreshStep ==
    ASSUME PInv, FreshInv, NEW s \in Subscribers, NEW state, SubStep(s, state), sent' = sent,
           FreshOK(state, sent)
    PROVE  FreshInv'
<1>1. \A x \in Subscribers : subs'[x] = IF x = s THEN state ELSE subs[x]
  BY DEF SubStep, PInv
<1>2. ASSUME NEW x \in Subscribers
      PROVE  FreshOK(subs'[x], sent)
  <2>1. CASE x = s
    <3>1. subs'[x] = state
      BY <1>1, <2>1
    <3> QED BY <3>1
  <2>2. CASE x # s
    <3>1. subs'[x] = subs[x]
      BY <1>1, <2>2
    <3> QED BY <3>1 DEF FreshInv
  <2> QED BY <2>1, <2>2
<1> QED BY <1>2 DEF FreshInv

\* SUBSCRIBE is read: nothing of the list is confirmed yet if it is the first.
LEMMA SubscribeFresh ==
    ASSUME PInv, FreshInv, NoRepeats, NEW s \in Subscribers, NEW args \in SubscribeArgs,
           Subscribe(s, args)
    PROVE  FreshInv'
<1> DEFINE r     == subs[s]
           state == [r EXCEPT !.pc = "join", !.first = (r.pc = "away"),
                              !.todo = args, !.count = @ + 1]
<1>1. r \in SubStates /\ FreshOK(r, sent) /\ sent' = sent /\ SubStep(s, state)
  BY DEF PInv, FreshInv, Subscribe
<1>2. args \in Seq(Channels) /\ Distinct(args)
  BY PubSubAssumption DEF NoRepeats
<1>3. /\ state.pc = "join" /\ (state.first <=> r.pc = "away") /\ state.todo = args
      /\ state.since = r.since /\ state.renewed = r.renewed
  BY <1>1 DEF SubStates
<1> HIDE DEF state, r
<1>4. state.first => Pending(state)
  BY <1>1, <1>2, <1>3 DEF FreshOK, Pending
<1>5. FreshOK(state, sent)
  BY <1>1, <1>3, <1>4 DEF FreshOK
<1> QED BY <1>1, <1>5, FreshStep

\* A new receiver of a channel that is not yet confirmed, or none.
LEMMA JoinFresh ==
    ASSUME PInv, FreshInv, NEW s \in Subscribers, Join(s)
    PROVE  FreshInv'
<1> DEFINE r == subs[s]
           c == Head(r.todo)
<1>1. r \in SubStates /\ FreshOK(r, sent) /\ sent' = sent /\ r.pc = "join" /\ r.todo # <<>>
  BY DEF PInv, SubOK, FreshInv, Join
<1>2. c \in Channels /\ r.todo \in Seq(Channels) /\ sent[c] \in Nat
  BY <1>1 DEF SubStates, PInv
<1>3. CASE SubStep(s, Joined(s, c))
  <2> DEFINE state == Joined(s, c)
  <2>1. /\ state.pc = "confirm" /\ state.first = r.first /\ state.todo = r.todo
        /\ state.since = r.since
        /\ state.renewed = [r.renewed EXCEPT ![c] = IF r.first THEN sent[c] + 1 ELSE r.renewed[c]]
    BY <1>1 DEF Joined, SubStates
  <2>2. /\ state.renewed[c] = IF r.first THEN sent[c] + 1 ELSE r.renewed[c]
        /\ \A ch \in Channels : ch # c => state.renewed[ch] = r.renewed[ch]
    BY <1>1, <1>2, <2>1 DEF SubStates
  <2> HIDE DEF state
  <2>3. state.first => Pending(state) /\ state.since[c] = NoReceiver
    <3> SUFFICES ASSUME r.first
                 PROVE  Pending(state) /\ state.since[c] = NoReceiver
      BY <2>1
    <3>1. Pending(r)
      BY <1>1 DEF FreshOK
    <3>2. 1 \in DOMAIN r.todo /\ c = r.todo[1]
      BY <1>1, <1>2
    <3> QED BY <2>1, <3>1, <3>2 DEF Pending
  <2>4. \A ch \in Channels : state.renewed[ch] <= sent[ch] + 1
    BY <1>1, <1>2, <2>2 DEF FreshOK
  <2>5. \A ch \in Channels : state.since[ch] # NoReceiver => state.renewed[ch] <= state.since[ch]
    BY <1>1, <2>1, <2>2, <2>3 DEF FreshOK
  <2>6. FreshOK(state, sent)
    BY <2>1, <2>3, <2>4, <2>5 DEF FreshOK
  <2> QED BY <1>1, <1>3, <2>6, FreshStep DEF state
<1>4. CASE SubStep(s, [r EXCEPT !.pc = "confirm"])
  <2> DEFINE state == [r EXCEPT !.pc = "confirm"]
  <2>1. /\ state.pc = "confirm" /\ state.first = r.first /\ state.todo = r.todo
        /\ state.since = r.since /\ state.renewed = r.renewed
    BY <1>1 DEF SubStates
  <2> HIDE DEF state
  <2>2. FreshOK(state, sent)
    BY <1>1, <2>1 DEF FreshOK, Pending
  <2> QED BY <1>1, <1>4, <2>2, FreshStep DEF state
<1> QED BY <1>3, <1>4 DEF Join

\* The confirmation: the rest of a list without repetitions is still to be joined.
LEMMA ConfirmFresh ==
    ASSUME PInv, FreshInv, NEW s \in Subscribers, Confirm(s)
    PROVE  FreshInv'
<1> DEFINE r     == subs[s]
           c     == Head(r.todo)
           rest  == Tail(r.todo)
           state == [r EXCEPT !.pc = IF rest = <<>> THEN "listen" ELSE "join",
                              !.todo = rest,
                              !.since[c] = IF @ = NoReceiver THEN sent[c] + 1 ELSE @]
<1>1. r \in SubStates /\ FreshOK(r, sent) /\ r.pc = "confirm" /\ r.todo # <<>>
  BY DEF PInv, SubOK, FreshInv, Confirm
<1>2. sent' = sent /\ SubStep(s, state)
  BY DEF Confirm
<1>3. c \in Channels /\ r.todo \in Seq(Channels) /\ sent[c] \in Nat
  BY <1>1 DEF SubStates, PInv
<1>4. /\ state.pc = (IF rest = <<>> THEN "listen" ELSE "join") /\ state.first = r.first
      /\ state.todo = rest /\ state.renewed = r.renewed
      /\ state.since = [r.since EXCEPT ![c] = IF r.since[c] = NoReceiver THEN sent[c] + 1
                                                                         ELSE r.since[c]]
  BY <1>1 DEF SubStates
<1>5. /\ state.since[c] = IF r.since[c] = NoReceiver THEN sent[c] + 1 ELSE r.since[c]
      /\ \A ch \in Channels : ch # c => state.since[ch] = r.since[ch]
  BY <1>1, <1>3, <1>4 DEF SubStates
<1> HIDE DEF state
<1>6. ASSUME r.first
      PROVE  Pending(state)
  <2>1. Pending(r)
    BY <1>1, <1>6 DEF FreshOK
  <2>2. rest \in Seq(Channels) /\ Len(rest) = Len(r.todo) - 1
    BY <1>1, <1>3
  <2>3. ASSUME NEW i \in DOMAIN rest
        PROVE  /\ rest[i] = r.todo[i + 1] /\ rest[i] \in Channels /\ i \in Nat
               /\ 1 \in DOMAIN r.todo /\ i + 1 \in DOMAIN r.todo /\ i + 1 # 1
    BY <1>1, <1>3, <2>2
  <2>4. Distinct(rest)
    BY <2>1, <2>3 DEF Pending, Distinct
  <2>5. c = r.todo[1]
    BY <1>1, <1>3
  <2>6. ASSUME NEW i \in DOMAIN rest
        PROVE  state.since[rest[i]] = NoReceiver
    <3>1. rest[i] # c
      BY <2>1, <2>3, <2>5 DEF Pending, Distinct
    <3>2. r.since[rest[i]] = NoReceiver
      BY <2>1, <2>3 DEF Pending
    <3> QED BY <1>5, <2>3, <3>1, <3>2
  <2> QED BY <1>4, <2>4, <2>6 DEF Pending
<1>7. \A ch \in Channels : state.since[ch] # NoReceiver => state.renewed[ch] <= state.since[ch]
  BY <1>1, <1>3, <1>4, <1>5 DEF FreshOK
<1>8. FreshOK(state, sent)
  BY <1>1, <1>4, <1>6, <1>7 DEF FreshOK
<1> QED BY <1>2, <1>8, FreshStep

\* Reading and leaving promise nothing.
LEMMA OtherFresh ==
    ASSUME PInv, FreshInv, NEW s \in Subscribers,
           (\E ch \in Channels : Deliver(s, ch)) \/ Leave(s)
    PROVE  FreshInv'
<1>1. CASE Leave(s)
  <2> DEFINE nobody == [ch \in Channels |-> NoReceiver]
             state  == [Away EXCEPT !.pc = "gone"]
  <2>1. /\ \A ch \in Channels : nobody[ch] = NoReceiver
        /\ state.pc = "gone" /\ state.since = nobody /\ state.renewed = nobody
    BY DEF Away
  <2>2. SubStep(s, state) /\ sent' = sent /\ sent \in [Channels -> Nat]
    BY <1>1 DEF Leave, PInv
  <2> HIDE DEF state, nobody
  <2>3. FreshOK(state, sent)
    BY <2>1, <2>2 DEF FreshOK, NoReceiver
  <2> QED BY <2>2, <2>3, FreshStep
<1>2. ASSUME NEW ch \in Channels, Deliver(s, ch)
      PROVE  FreshInv'
  <2>1. subs[s] \in SubStates /\ FreshOK(subs[s], sent) /\ sent' = sent /\ subs[s].pc = "listen"
    BY <1>2 DEF PInv, FreshInv, Deliver
  <2> DEFINE lag == [subs[s] EXCEPT !.next[ch] = Oldest(ch)]
             msg == [subs[s] EXCEPT !.next[ch] = subs[s].next[ch] + 1,
                                    !.heard[ch] = @ \cup {subs[s].next[ch]}]
  <2>2. /\ lag.pc = "listen" /\ lag.since = subs[s].since /\ lag.renewed = subs[s].renewed
        /\ msg.pc = "listen" /\ msg.since = subs[s].since /\ msg.renewed = subs[s].renewed
    BY <2>1 DEF SubStates
  <2>3. SubStep(s, lag) \/ SubStep(s, msg)
    BY <1>2 DEF Deliver
  <2> HIDE DEF lag, msg
  <2>4. FreshOK(lag, sent) /\ FreshOK(msg, sent)
    BY <2>1, <2>2 DEF FreshOK
  <2> QED BY <2>1, <2>3, <2>4, FreshStep
<1> QED BY <1>1, <1>2

\* A publisher only adds messages.
LEMMA PublishFresh ==
    ASSUME PInv, FreshInv, NEW p \in Publishers,
           (\E ch \in Channels : PublishCount(p, ch)) \/ PublishSend(p)
    PROVE  FreshInv'
<1>1. subs' = subs /\ (sent' = sent \/ sent' = [sent EXCEPT ![pubs[p].ch] = @ + 1])
  BY DEF PublishCount, PublishSend, PublishStep
<1>2. \A ch \in Channels : sent[ch] \in Nat /\ sent'[ch] \in Nat /\ sent[ch] <= sent'[ch]
  BY <1>1 DEF PInv
<1>3. ASSUME NEW s \in Subscribers
      PROVE  FreshOK(subs[s], sent')
  <2>1. FreshOK(subs[s], sent) /\ \A ch \in Channels : subs[s].renewed[ch] \in Nat
    BY DEF FreshInv, PInv, SubStates
  <2>2. \A ch \in Channels : subs[s].renewed[ch] <= sent'[ch] + 1
    BY <1>2, <2>1 DEF FreshOK
  <2> QED BY <2>1, <2>2 DEF FreshOK
<1> QED BY <1>1, <1>3 DEF FreshInv

\* When no SUBSCRIBE names a channel twice, a client whose subscription was confirmed misses
\* nothing but what the ring of the channel has dropped: the first SUBSCRIBE then replaces no
\* receiver that has been confirmed.
THEOREM DistinctSubscribersHear ==
    ASSUME NoRepeats
    PROVE  Spec => []SubscribedHears
<1>1. Init => FreshInv
  <2> DEFINE nobody == [ch \in Channels |-> NoReceiver]
  <2>1. /\ \A ch \in Channels : nobody[ch] = NoReceiver
        /\ Away.pc = "away" /\ Away.since = nobody /\ Away.renewed = nobody
    BY DEF Away
  <2> HIDE DEF nobody
  <2>2. ASSUME Init, NEW s \in Subscribers
        PROVE  FreshOK(subs[s], sent)
    <3>1. subs[s] = Away /\ \A ch \in Channels : sent[ch] = 0
      BY <2>2 DEF Init
    <3> QED BY <2>1, <3>1 DEF FreshOK, NoReceiver
  <2> QED BY <2>2 DEF FreshInv
<1>2. PInv /\ FreshInv /\ [Next]_vars => FreshInv'
  <2> SUFFICES ASSUME PInv, FreshInv, [Next]_vars
               PROVE  FreshInv'
    OBVIOUS
  <2>1. CASE Next
    BY <2>1, SubscribeFresh, JoinFresh, ConfirmFresh, OtherFresh, PublishFresh
    DEF Next, SubscriberNext
  <2>2. CASE UNCHANGED vars
    BY <2>2 DEF vars, FreshInv
  <2> QED BY <2>1, <2>2
<1>3. PInv /\ FreshInv => SubscribedHears
  <2> SUFFICES ASSUME PInv, FreshInv, NEW s \in Subscribers, NEW ch \in Channels,
                      subs[s].since[ch] # NoReceiver, NEW pos \in subs[s].since[ch] .. sent[ch]
               PROVE  \/ pos \in subs[s].heard[ch]
                      \/ pos >= subs[s].next[ch]
                      \/ sent[ch] - pos >= CHANNEL_CAPACITY
    BY DEF SubscribedHears, Hears
  <2>1. subs[s].since[ch] \in Nat /\ subs[s].renewed[ch] \in Nat /\ sent[ch] \in Nat
    BY DEF PInv, SubStates
  <2>2. subs[s].renewed[ch] <= subs[s].since[ch]
    BY DEF FreshInv, FreshOK
  <2>3. ~(pos < subs[s].renewed[ch])
    BY <2>1, <2>2
  <2> QED BY <2>3 DEF PInv, SubOK, ReceiverOK, HeardOf
<1> QED BY <1>1, <1>2, <1>3, Invariance, PTL DEF Spec

\* PUBLISH never answers less than the number of subscribers the message went to: the count
\* and the send are two steps, but publish holds the read lock across both.
THEOREM PublishCountsReceivers == Spec => []CountCoversReceivers
<1>1. PInv => CountCoversReceivers
  BY DEF PInv
<1> QED BY <1>1, Invariance, PTL
=============================================================================
