----------------------------- MODULE GatewayProofs -----------------------------
(***************************************************************************)
(* The gateway process: the types, what an answer promises about the       *)
(* buffer, the count that health() reports, the order of a stream's        *)
(* answers, and the fan-out of the plugin registry, for every number of    *)
(* callers and streams, every capacity and list of emitters.               *)
(***************************************************************************)
EXTENDS Gateway, RingBufferProofs, FiniteSetTheorems

(* What is known of an event. *)
LEMMA EventFields ==
    ASSUME NEW e \in Event
    PROVE  IsEvent(e) /\ e.route_to \in Seq(STRING) /\ e.id \in STRING
<1>1. IsEvent(e)
  BY GatewayAssumption
<1> QED
  BY <1>1 DEF IsEvent

--------------------------------------------------------------------------------
(* The registry. *)

OnAll == {e \in Event : e.route_to = <<>>}

OnRoutes == {e \in Event : e.route_to # <<>>}

Share(name) == [e \in Event |-> Copies(e, name)]

(* A call the loops of emit_with_routing() make. *)
Call == [emitter : DOMAIN Emitters, events : Seq(Event)]

PartOf(i) == [call \in Call |-> IF call.emitter = i THEN call.events ELSE <<>>]

(* What emitter i is still to be called with. *)
Pending(cs, i) == Gather(cs, PartOf(i))

(* A routed event is copied for the emitters it names. *)
LEMMA CopiesType ==
    ASSUME NEW e \in Event, NEW name
    PROVE  Copies(e, name) \in Seq(Event) /\ ToSet(Copies(e, name)) \subseteq OnRoutes
<1>1. PICK hits : hits = Keep(e.route_to, {name})
  OBVIOUS
<1>2. hits \in Seq(STRING)
  BY <1>1, EventFields, KeepType
<1>3. Len(hits) \in Nat /\ DOMAIN hits = 1 .. Len(hits)
  BY <1>2, LenProperties
<1>4. Copies(e, name) = [k \in 1 .. Len(hits) |-> e]
  BY <1>1, <1>3 DEF Copies
<1>5. Copies(e, name) \in Seq(Event)
  BY <1>3, <1>4, SeqDef
<1>6. e.route_to = <<>> => hits = <<>>
  BY <1>1, KeepOne
<1>7. hits = <<>> => Len(hits) = 0
  OBVIOUS
<1>8. ASSUME NEW x \in ToSet(Copies(e, name)) PROVE x \in OnRoutes
  <2>1. PICK k \in 1 .. Len(hits) : x = e
    BY <1>3, <1>4 DEF ToSet
  <2>2. Len(hits) # 0
    BY <1>3, <2>1
  <2> QED
    BY <1>6, <1>7, <2>1, <2>2 DEF OnRoutes
<1> QED
  BY <1>5, <1>8

(* The registry's operators, over sets of events that do not depend on the *)
(* sequence they are applied to.                                           *)
LEMMA Shares ==
    ASSUME NEW events \in Seq(Event)
    PROVE  /\ Broadcast(events) = Keep(events, OnAll)
           /\ Routed(events) = Keep(events, OnRoutes)
           /\ \A name : /\ RoutedTo(events, name) = Gather(events, Share(name))
                        /\ RoutedTo(events, name) \in Seq(Event)
                        /\ ToSet(RoutedTo(events, name)) \subseteq OnRoutes
<1>1. ToSet(events) \subseteq Event
  BY LenProperties DEF ToSet
<1>2. Broadcast(events) = Keep(events, OnAll)
  <2>1. PICK W : W = {e \in ToSet(events) : e.route_to = <<>>}
    OBVIOUS
  <2>2. \A x \in ToSet(events) : x \in W <=> x \in OnAll
    BY <1>1, <2>1 DEF OnAll
  <2>3. Keep(events, W) = Keep(events, OnAll)
    BY <2>2, KeepAgree
  <2> QED
    BY <2>1, <2>3 DEF Broadcast
<1>3. Routed(events) = Keep(events, OnRoutes)
  <2>1. PICK W : W = {e \in ToSet(events) : e.route_to # <<>>}
    OBVIOUS
  <2>2. \A x \in ToSet(events) : x \in W <=> x \in OnRoutes
    BY <1>1, <2>1 DEF OnRoutes
  <2>3. Keep(events, W) = Keep(events, OnRoutes)
    BY <2>2, KeepAgree
  <2> QED
    BY <2>1, <2>3 DEF Routed
<1>4. ASSUME NEW name
      PROVE  /\ RoutedTo(events, name) = Gather(events, Share(name))
             /\ RoutedTo(events, name) \in Seq(Event)
             /\ ToSet(RoutedTo(events, name)) \subseteq OnRoutes
  <2>1. PICK V, W : V = [e \in ToSet(events) |-> Copies(e, name)] /\ W = Share(name)
    OBVIOUS
  <2>2. ASSUME NEW x \in ToSet(events)
        PROVE  V[x] \in Seq(Event) /\ V[x] = W[x] /\ ToSet(V[x]) \subseteq OnRoutes
    <3>1. x \in Event
      BY <1>1
    <3>2. V[x] = Copies(x, name) /\ W[x] = Copies(x, name)
      BY <2>1, <3>1 DEF Share
    <3> QED
      BY <3>1, <3>2, CopiesType
  <2>3. Gather(events, V) = Gather(events, W)
    BY <2>2, GatherAgree
  <2>4. Gather(events, V) \in Seq(Event)
    BY <2>2, GatherType
  <2>5. ToSet(Gather(events, V)) \subseteq OnRoutes
    BY <2>2, GatherSet
  <2>6. RoutedTo(events, name) = Gather(events, V)
    BY <2>1 DEF RoutedTo
  <2> QED
    BY <2>1, <2>3, <2>4, <2>5, <2>6
<1> QED
  BY <1>2, <1>3, <1>4

(* What is pending in two runs of calls. *)
LEMMA PendingConcat ==
    ASSUME NEW s \in Seq(Call), NEW t \in Seq(Call), NEW i
    PROVE  /\ Pending(s, i) \in Seq(Event)
           /\ Pending(s \o t, i) = Pending(s, i) \o Pending(t, i)
<1>1. PICK part : part = PartOf(i)
  OBVIOUS
<1>2. \A call \in Call : part[call] \in Seq(Event)
  BY <1>1, EmptySeq DEF PartOf, Call
<1>3. ToSet(s) \subseteq Call /\ ToSet(t) \subseteq Call
  BY LenProperties DEF ToSet
<1>4. /\ \A call \in ToSet(s) : part[call] \in Seq(Event)
      /\ \A call \in ToSet(t) : part[call] \in Seq(Event)
  BY <1>2, <1>3
<1>5. Gather(s, part) \in Seq(Event)
  BY <1>4, GatherType
<1>6. Gather(s \o t, part) = Gather(s, part) \o Gather(t, part)
  BY <1>4, GatherConcat
<1> QED
  BY <1>1, <1>5, <1>6 DEF Pending

(* One call is pending for the emitter that it names, and for no other. *)
LEMMA PendingOne ==
    ASSUME NEW call \in Call, NEW i
    PROVE  /\ Pending(<<>>, i) = <<>>
           /\ Pending(<<call>>, i) = IF call.emitter = i THEN call.events ELSE <<>>
<1>1. PICK part : part = PartOf(i)
  OBVIOUS
<1>2. part[call] = (IF call.emitter = i THEN call.events ELSE <<>>) /\ part[call] \in Seq(Event)
  BY <1>1, EmptySeq DEF PartOf, Call
<1>3. Gather(<<>>, part) = <<>> /\ Gather(<<call>>, part) = part[call]
  BY <1>2, GatherOne
<1> QED
  BY <1>1, <1>2, <1>3 DEF Pending

(* The calls that one of the loops makes give each emitter its share. *)
LEMMA CallsPending ==
    ASSUME NEW share \in [DOMAIN Emitters -> Seq(Event)]
    PROVE  /\ CallsOf(share) \in Seq(Call)
           /\ \A call \in ToSet(CallsOf(share)) : call.events # <<>>
           /\ \A i \in DOMAIN Emitters : Pending(CallsOf(share), i) = share[i]
<1> DEFINE n == Len(Emitters)
<1>1. n \in Nat /\ DOMAIN Emitters = 1 .. n
  BY RegistryAssumption, LenProperties
<1> HIDE DEF n
<1>2. PICK all : all = [i \in DOMAIN Emitters |-> [emitter |-> i, events |-> share[i]]]
  OBVIOUS
<1>3. all \in [1 .. n -> Call] /\ \A i \in 1 .. n : all[i].emitter = i /\ all[i].events = share[i]
  BY <1>1, <1>2 DEF Call
<1>4. all \in Seq(Call) /\ Len(all) = n /\ DOMAIN all = 1 .. n
  BY <1>1, <1>3, SeqDef, LenProperties
<1>5. PICK W : W = {call \in ToSet(all) : call.events # <<>>}
  OBVIOUS
<1>6. CallsOf(share) = Keep(all, W)
  BY <1>2, <1>5 DEF CallsOf
<1>7. Keep(all, W) \in Seq(Call) /\ ToSet(Keep(all, W)) = ToSet(all) \cap W
  BY <1>4, KeepType, KeepSet
<1>8. ASSUME NEW i \in 1 .. n PROVE Pending(Keep(all, W), i) = share[i]
  <2> DEFINE Done(k) == Keep(SubSeq(all, 1, k), W)
             T == {k \in 0 .. n : Pending(Done(k), i) = IF i <= k THEN share[i] ELSE <<>>}
  <2>1. 0 \in T
    <3>1. SubSeq(all, 1, 0) = <<>>
      BY SubSeqEmpty
    <3>2. Done(0) = <<>>
      BY <3>1, KeepOne
    <3>3. Pending(<<>>, i) = <<>>
      BY GatherOne DEF Pending
    <3>4. ~(i <= 0) /\ 0 \in 0 .. n
      BY <1>1
    <3> QED
      BY <3>2, <3>3, <3>4
  <2>2. ASSUME NEW k \in 0 .. n, k \in T, k < n PROVE k + 1 \in T
    <3>1. k + 1 \in 1 .. n /\ k + 1 \in 0 .. n
      BY <1>1, <2>2
    <3>2. PICK before, c : before = SubSeq(all, 1, k) /\ c = all[k + 1]
      OBVIOUS
    <3>3. /\ c \in Call /\ c.emitter = k + 1 /\ c.events = share[k + 1]
          /\ share[k + 1] \in Seq(Event) /\ c \in ToSet(all)
      BY <1>1, <1>3, <1>4, <3>1, <3>2 DEF ToSet
    <3>4. before \in Seq(Call)
      BY <1>3, <1>4, <3>1, <3>2, SubSeqProperties
    <3>5. SubSeq(all, 1, k + 1) = Append(before, c)
      BY <1>4, <3>1, <3>2, SubSeqRecursiveSecond
    <3>6. PICK one : one = <<c>>
      OBVIOUS
    <3>7. one \in Seq(Call) /\ Append(before, c) = before \o one
      BY <3>3, <3>4, <3>6, AppendIsConcat
    <3>8. Keep(before \o one, W) = Keep(before, W) \o Keep(one, W)
      BY <3>4, <3>7, KeepConcat
    <3>9. PICK a, b : a = Keep(before, W) /\ b = Keep(one, W)
      OBVIOUS
    <3>10. a \in Seq(Call) /\ b \in Seq(Call)
      BY <3>4, <3>7, <3>9, KeepType
    <3>11. Done(k + 1) = a \o b /\ Done(k) = a
      BY <3>2, <3>5, <3>7, <3>8, <3>9
    <3>12. Pending(a \o b, i) = Pending(a, i) \o Pending(b, i)
      BY <3>10, PendingConcat
    <3>13. b = IF c \in W THEN <<c>> ELSE <<>>
      BY <3>6, <3>9, KeepOne
    <3>14. Pending(b, i) = IF i = k + 1 THEN share[k + 1] ELSE <<>>
      <4>1. CASE c \in W
        BY <3>3, <3>13, <4>1, PendingOne
      <4>2. CASE c \notin W
        <5>1. c.events = <<>>
          BY <1>5, <3>3, <4>2
        <5>2. Pending(<<>>, i) = <<>>
          BY GatherOne DEF Pending
        <5> QED
          BY <3>3, <3>13, <4>2, <5>1, <5>2
      <4> QED
        BY <4>1, <4>2
    <3>15. Pending(a, i) = IF i <= k THEN share[i] ELSE <<>>
      BY <2>2, <3>11
    <3>16. <<>> \o share[k + 1] = share[k + 1] /\ <<>> \o <<>> = <<>>
      BY <3>3, ConcatEmptySeq, EmptySeq
    <3>17. share[i] \o <<>> = share[i]
      BY <1>1, ConcatEmptySeq
    <3>18. Pending(a \o b, i) = IF i <= k + 1 THEN share[i] ELSE <<>>
      <4>1. CASE i <= k
        <5>1. i # k + 1 /\ i <= k + 1
          BY <4>1
        <5> QED
          BY <3>12, <3>14, <3>15, <3>17, <4>1, <5>1
      <4>2. CASE i = k + 1
        <5>1. ~(i <= k) /\ i <= k + 1
          BY <4>2
        <5> QED
          BY <3>12, <3>14, <3>15, <3>16, <4>2, <5>1
      <4>3. CASE ~(i <= k + 1)
        <5>1. ~(i <= k) /\ i # k + 1
          BY <4>3
        <5> QED
          BY <3>12, <3>14, <3>15, <3>16, <4>3, <5>1
      <4> QED
        BY <4>1, <4>2, <4>3
    <3> QED
      BY <3>1, <3>11, <3>18
  <2>3. n \in T
    <3> HIDE DEF T
    <3>1. \A k \in 0 .. n : k \in T
      BY <1>1, <2>1, <2>2, IntervalInduction
    <3> QED
      BY <1>1, <3>1
  <2>4. SubSeq(all, 1, n) = all
    BY <1>4, SubSeqFull
  <2>5. Done(n) = Keep(all, W)
    BY <2>4
  <2>6. i <= n
    BY <1>1
  <2>7. Pending(Done(n), i) = IF i <= n THEN share[i] ELSE <<>>
    <3> HIDE DEF Done
    <3> QED
      BY <2>3
  <2> QED
    BY <2>5, <2>6, <2>7
<1> QED
  BY <1>1, <1>5, <1>6, <1>7, <1>8

(* The round that emit_with_routing() makes: every emitter is to be called *)
(* with the broadcast events and with those routed to it.                  *)
LEMMA PlanPending ==
    ASSUME NEW events \in Seq(Event)
    PROVE  /\ Plan(events) \in Seq(Call)
           /\ \A call \in ToSet(Plan(events)) : call.events # <<>>
           /\ \A i \in DOMAIN Emitters :
                /\ Pending(Plan(events), i) \in Seq(Event)
                /\ Keep(Pending(Plan(events), i), OnAll) = Keep(events, OnAll)
                /\ Keep(Pending(Plan(events), i), OnRoutes) = Gather(events, Share(Emitters[i]))
<1>1. PICK all, own : /\ all = [i \in DOMAIN Emitters |-> Broadcast(events)]
                      /\ own = [i \in DOMAIN Emitters |-> RoutedTo(events, Emitters[i])]
  OBVIOUS
<1>2. PICK kept : kept = Keep(events, OnAll)
  OBVIOUS
<1>3. kept \in Seq(Event)
  BY <1>2, KeepType
<1>4. ToSet(kept) \subseteq OnAll
  BY <1>2, KeepSet
<1>5. \A i \in DOMAIN Emitters : all[i] = kept
  BY <1>1, <1>2, Shares
<1>6. \A i \in DOMAIN Emitters : /\ own[i] = Gather(events, Share(Emitters[i]))
                                 /\ own[i] \in Seq(Event)
                                 /\ ToSet(own[i]) \subseteq OnRoutes
  BY <1>1, Shares
<1>7. all \in [DOMAIN Emitters -> Seq(Event)] /\ own \in [DOMAIN Emitters -> Seq(Event)]
  BY <1>1, <1>3, <1>5, <1>6
<1>8. PICK a, b : a = CallsOf(all) /\ b = CallsOf(own)
  OBVIOUS
<1>9. /\ a \in Seq(Call) /\ \A call \in ToSet(a) : call.events # <<>>
      /\ \A i \in DOMAIN Emitters : Pending(a, i) = all[i]
  BY <1>7, <1>8, CallsPending
<1>10. /\ b \in Seq(Call) /\ \A call \in ToSet(b) : call.events # <<>>
       /\ \A i \in DOMAIN Emitters : Pending(b, i) = own[i]
  BY <1>7, <1>8, CallsPending
<1>11. Plan(events) = a \o b
  BY <1>1, <1>8 DEF Plan
<1>12. a \o b \in Seq(Call)
  BY <1>9, <1>10, ConcatProperties
<1>13. \A call \in ToSet(a \o b) : call.events # <<>>
  BY <1>9, <1>10, ToSetConcat
<1>14. ASSUME NEW i \in DOMAIN Emitters
       PROVE  /\ Pending(a \o b, i) \in Seq(Event)
              /\ Keep(Pending(a \o b, i), OnAll) = kept
              /\ Keep(Pending(a \o b, i), OnRoutes) = own[i]
  <2>1. PICK mine : mine = own[i]
    OBVIOUS
  <2>2. mine \in Seq(Event) /\ ToSet(mine) \subseteq OnRoutes
    BY <1>6, <2>1
  <2>3. Pending(a \o b, i) = kept \o mine
    <3>1. Pending(a \o b, i) = Pending(a, i) \o Pending(b, i)
      BY <1>9, <1>10, PendingConcat
    <3> QED
      BY <1>5, <1>9, <1>10, <2>1, <3>1
  <2>4. kept \o mine \in Seq(Event)
    BY <1>3, <2>2, ConcatProperties
  <2>5. Keep(kept \o mine, OnAll) = Keep(kept, OnAll) \o Keep(mine, OnAll)
    BY <1>3, <2>2, KeepConcat
  <2>6. Keep(kept \o mine, OnRoutes) = Keep(kept, OnRoutes) \o Keep(mine, OnRoutes)
    BY <1>3, <2>2, KeepConcat
  <2>7. OnAll \cap OnRoutes = {}
    BY DEF OnAll, OnRoutes
  <2>8. ToSet(kept) \cap OnRoutes = {} /\ ToSet(mine) \cap OnAll = {}
    BY <1>4, <2>2, <2>7
  <2>9. Keep(kept, OnAll) = kept /\ Keep(kept, OnRoutes) = <<>>
    BY <1>3, <1>4, <2>8, KeepAll
  <2>10. Keep(mine, OnRoutes) = mine /\ Keep(mine, OnAll) = <<>>
    BY <2>2, <2>8, KeepAll
  <2>11. kept \o <<>> = kept
    BY <1>3, ConcatEmptySeq
  <2>12. <<>> \o mine = mine
    BY <2>2, ConcatEmptySeq
  <2> QED
    BY <2>1, <2>3, <2>4, <2>5, <2>6, <2>9, <2>10, <2>11, <2>12
<1> QED
  BY <1>2, <1>6, <1>11, <1>12, <1>13, <1>14

RegistryType ==
    /\ calls \in Seq(Call)
    /\ \A call \in ToSet(calls) : call.events # <<>>
    /\ emitted_count \in [DOMAIN Emitters -> Nat]
    /\ handed \in Seq(Event)
    /\ offered \in [DOMAIN Emitters -> Seq(Event)]

(* What emitter i is given in this round, when it is over, and before. *)
Due(i) == offered[i] \o Pending(calls, i)

FanOut(i) ==
    /\ Keep(Due(i), OnAll) = Keep(handed, OnAll)
    /\ Keep(Due(i), OnRoutes) = Gather(handed, Share(Emitters[i]))
    /\ Emitters[i] = "stdout" => emitted_count[i] = Len(offered[i])

RegistryInv == RegistryType /\ \A i \in DOMAIN Emitters : FanOut(i)

(* An emitter's share of a batch consists of events of the batch. *)
LEMMA ShareType ==
    ASSUME NEW s \in Seq(Event), NEW name
    PROVE  \A e \in ToSet(s) : Share(name)[e] \in Seq(Event)
<1>1. ToSet(s) \subseteq Event
  BY LenProperties DEF ToSet
<1> QED
  BY <1>1, CopiesType DEF Share

(* emit_with_routing() begins. *)
LEMMA BeginLemma ==
    ASSUME RegistryInv, NEW events \in Seq(Event), BeginEmit(events)
    PROVE  RegistryInv'
<1>1. PICK plan : plan = Plan(events)
  OBVIOUS
<1>2. /\ calls = <<>> /\ calls' = plan /\ handed' = handed \o events
      /\ emitted_count' = emitted_count /\ offered' = offered
  BY <1>1 DEF BeginEmit
<1>3. /\ plan \in Seq(Call) /\ \A call \in ToSet(plan) : call.events # <<>>
      /\ \A i \in DOMAIN Emitters :
           /\ Pending(plan, i) \in Seq(Event)
           /\ Keep(Pending(plan, i), OnAll) = Keep(events, OnAll)
           /\ Keep(Pending(plan, i), OnRoutes) = Gather(events, Share(Emitters[i]))
  BY <1>1, PlanPending
<1>4. handed \in Seq(Event) /\ handed \o events \in Seq(Event)
  BY ConcatProperties DEF RegistryInv, RegistryType
<1>5. RegistryType'
  BY <1>2, <1>3, <1>4 DEF RegistryInv, RegistryType
<1>6. ASSUME NEW i \in DOMAIN Emitters PROVE FanOut(i)'
  <2>1. PICK old, new : old = offered[i] /\ new = Pending(plan, i)
    OBVIOUS
  <2>2. old \in Seq(Event) /\ new \in Seq(Event)
    BY <1>3, <2>1 DEF RegistryInv, RegistryType
  <2>3. Pending(<<>>, i) = <<>>
    BY GatherOne DEF Pending
  <2>4. old \o <<>> = old
    BY <2>2, ConcatEmptySeq
  <2>5. /\ Keep(old, OnAll) = Keep(handed, OnAll)
        /\ Keep(old, OnRoutes) = Gather(handed, Share(Emitters[i]))
    BY <1>2, <2>1, <2>3, <2>4 DEF RegistryInv, FanOut, Due
  <2>6. Keep(old \o new, OnAll) = Keep(old, OnAll) \o Keep(new, OnAll)
    BY <2>2, KeepConcat
  <2>7. Keep(old \o new, OnRoutes) = Keep(old, OnRoutes) \o Keep(new, OnRoutes)
    BY <2>2, KeepConcat
  <2>8. Keep(handed \o events, OnAll) = Keep(handed, OnAll) \o Keep(events, OnAll)
    BY <1>4, KeepConcat
  <2>9. PICK share : share = Share(Emitters[i])
    OBVIOUS
  <2>10. /\ \A e \in ToSet(handed) : share[e] \in Seq(Event)
         /\ \A e \in ToSet(events) : share[e] \in Seq(Event)
    BY <1>4, <2>9, ShareType
  <2>11. Gather(handed \o events, share) = Gather(handed, share) \o Gather(events, share)
    BY <1>4, <2>10, GatherConcat
  <2>12. /\ Keep(new, OnAll) = Keep(events, OnAll)
         /\ Keep(new, OnRoutes) = Gather(events, share)
    BY <1>3, <2>1, <2>9
  <2>13. Due(i)' = old \o new
    BY <1>2, <2>1 DEF Due
  <2>14. (Emitters[i] = "stdout" => emitted_count[i] = Len(offered[i]))'
    BY <1>2 DEF RegistryInv, FanOut
  <2>15. Keep(Due(i)', OnAll) = Keep(handed', OnAll)
    BY <1>2, <2>5, <2>6, <2>8, <2>12, <2>13
  <2>16. Keep(Due(i)', OnRoutes) = Gather(handed', share)
    BY <1>2, <2>5, <2>7, <2>9, <2>11, <2>12, <2>13
  <2> QED
    BY <2>9, <2>14, <2>15, <2>16 DEF FanOut
<1> QED
  BY <1>5, <1>6 DEF RegistryInv

(* One emitter is called, and answers what it will. *)
LEMMA EmitLemma ==
    ASSUME RegistryInv, CallEmitter
    PROVE  RegistryInv'
<1>1. PICK call, rest : call = Head(calls) /\ rest = Tail(calls)
  OBVIOUS
<1>2. calls \in Seq(Call) /\ calls # <<>>
  BY DEF RegistryInv, RegistryType, CallEmitter
<1>3. call \in Call /\ rest \in Seq(Call) /\ calls = <<call>> \o rest
  BY <1>1, <1>2, HeadTailProperties
<1>4. ToSet(rest) \subseteq ToSet(calls)
  <2>1. <<call>> \in Seq(Call)
    BY <1>3
  <2>2. ToSet(<<call>> \o rest) = ToSet(<<call>>) \union ToSet(rest)
    BY <1>3, <2>1, ToSetConcat, ZenonT(60)
  <2> QED
    BY <1>3, <2>2
<1>5. PICK j, events : j = call.emitter /\ events = call.events
  OBVIOUS
<1>6. j \in DOMAIN Emitters /\ events \in Seq(Event)
  BY <1>3, <1>5 DEF Call
<1>7. /\ calls' = rest /\ handed' = handed
      /\ offered' = [offered EXCEPT ![j] = offered[j] \o events]
      /\ emitted_count' = [emitted_count EXCEPT ![j] =
                             StdoutCount(Emitters[j], emitted_count[j], events)]
  BY <1>1, <1>5 DEF CallEmitter, AfterEmit
<1>8. /\ handed \in Seq(Event) /\ offered \in [DOMAIN Emitters -> Seq(Event)]
      /\ emitted_count \in [DOMAIN Emitters -> Nat]
      /\ \A c \in ToSet(calls) : c.events # <<>>
  BY DEF RegistryInv, RegistryType
<1>9. offered[j] \o events \in Seq(Event) /\ Len(offered[j] \o events) = Len(offered[j]) + Len(events)
  BY <1>6, <1>8, ConcatProperties
<1>10. Len(events) \in Nat
  BY <1>6, LenProperties
<1>11. StdoutCount(Emitters[j], emitted_count[j], events) \in Nat
  BY <1>6, <1>8, <1>10 DEF StdoutCount
<1>12. RegistryType'
  BY <1>3, <1>4, <1>7, <1>8, <1>9, <1>11 DEF RegistryType
<1>13. ASSUME NEW i \in DOMAIN Emitters PROVE FanOut(i)'
  <2>1. PICK old, left : old = offered[i] /\ left = Pending(rest, i)
    OBVIOUS
  <2>2. old \in Seq(Event) /\ left \in Seq(Event)
    BY <1>3, <1>8, <2>1, PendingConcat
  <2>3. PICK own : own = IF i = j THEN events ELSE <<>>
    OBVIOUS
  <2>4. own \in Seq(Event)
    BY <1>6, <2>3, EmptySeq
  <2>5. Pending(<<call>>, i) = own
    BY <1>3, <1>5, <2>3, PendingOne
  <2>6. PICK one : one = <<call>>
    OBVIOUS
  <2>7. one \in Seq(Call)
    BY <1>3, <2>6
  <2>8. Pending(one \o rest, i) = Pending(one, i) \o Pending(rest, i)
    BY <1>3, <2>7, PendingConcat
  <2>9. Due(i) = old \o (own \o left)
    BY <1>3, <2>1, <2>5, <2>6, <2>8 DEF Due
  <2>10. old \o (own \o left) = (old \o own) \o left
    BY <2>2, <2>4, ConcatAssociative, SMTT(30)
  <2>11. old \o <<>> = old
    BY <2>2, ConcatEmptySeq
  <2>12. offered'[i] = old \o own
    BY <1>6, <1>7, <1>8, <2>1, <2>3, <2>11
  <2>13. Due(i)' = (old \o own) \o left
    BY <1>7, <2>1, <2>12 DEF Due
  <2>14. Emitters[i] = "stdout" => emitted_count'[i] = Len(offered'[i])
    <3>1. Emitters[i] = "stdout" => emitted_count[i] = Len(offered[i])
      BY DEF RegistryInv, FanOut
    <3>2. CASE i = j
      BY <1>6, <1>7, <1>8, <1>9, <3>1, <3>2 DEF StdoutCount
    <3>3. CASE i # j
      BY <1>6, <1>7, <1>8, <3>1, <3>3
    <3> QED
      BY <3>2, <3>3
  <2>15. /\ Keep(Due(i), OnAll) = Keep(handed, OnAll)
         /\ Keep(Due(i), OnRoutes) = Gather(handed, Share(Emitters[i]))
    BY DEF RegistryInv, FanOut
  <2>16. Due(i)' = Due(i)
    BY <2>9, <2>10, <2>13
  <2> QED
    BY <1>7, <2>14, <2>15, <2>16 DEF FanOut
<1> QED
  BY <1>12, <1>13 DEF RegistryInv

--------------------------------------------------------------------------------
(* The buffer. *)

(* The accumulator of push's loop, after all of `all` has gone through it. *)
Queued(S) == [queue : Seq(S), dropped : Nat]

Passed(S, acc, all) ==
    /\ acc \in Queued(S)
    /\ \E lost \in Seq(S) : /\ lost \o acc.queue = all
                            /\ Capacity > 0 => Len(lost) = acc.dropped

(* One more message: the oldest goes, if the buffer is full and has one. *)
LEMMA PushOneStep ==
    ASSUME NEW S, NEW acc, NEW all \in Seq(S), NEW msg \in S, Passed(S, acc, all)
    PROVE  Passed(S, PushOne(acc, msg), Append(all, msg))
<1>1. PICK q \in Seq(S), d \in Nat : q = acc.queue /\ d = acc.dropped
  BY DEF Passed, Queued
<1>2. PICK lost \in Seq(S) : lost \o q = all /\ (Capacity > 0 => Len(lost) = d)
  BY <1>1 DEF Passed
<1>3. Len(q) \in Nat /\ Len(lost) \in Nat /\ Capacity \in Nat
  BY LenProperties, CapacityAssumption
<1>4. CASE ~(Len(q) >= Capacity)
  <2>1. PushOne(acc, msg) = [queue |-> Append(q, msg), dropped |-> d + 0]
    BY <1>1, <1>4 DEF PushOne
  <2>2. lost \o Append(q, msg) = Append(all, msg) /\ Append(q, msg) \in Seq(S)
    BY <1>2, ConcatAppend, AppendProperties
  <2>3. PICK new : new = PushOne(acc, msg)
    OBVIOUS
  <2>4. d + 0 = d
    OBVIOUS
  <2>5. new \in Queued(S) /\ new.queue = Append(q, msg) /\ new.dropped = d
    BY <2>1, <2>2, <2>3, <2>4 DEF Queued
  <2> QED
    BY <1>2, <2>2, <2>3, <2>5 DEF Passed
<1>5. CASE Len(q) >= Capacity /\ q = <<>>
  <2>1. PushOne(acc, msg) = [queue |-> Append(q, msg), dropped |-> d + 1]
    BY <1>1, <1>5 DEF PushOne, PopFront
  <2>2. lost \o Append(q, msg) = Append(all, msg) /\ Append(q, msg) \in Seq(S)
    BY <1>2, ConcatAppend, AppendProperties
  <2>3. ~(Capacity > 0) /\ d + 1 \in Nat
    <3>1. Len(q) = 0
      BY <1>5, EmptySeq
    <3> QED
      BY <1>3, <1>5, <3>1
  <2>4. PICK new : new = PushOne(acc, msg)
    OBVIOUS
  <2>5. new \in Queued(S) /\ new.queue = Append(q, msg)
    BY <2>1, <2>2, <2>3, <2>4 DEF Queued
  <2> QED
    BY <2>2, <2>3, <2>4, <2>5 DEF Passed
<1>6. CASE Len(q) >= Capacity /\ q # <<>>
  <2>1. PICK first, rest : first = <<Head(q)>> /\ rest = Tail(q)
    OBVIOUS
  <2>2. first \in Seq(S) /\ rest \in Seq(S) /\ Len(first) = 1
    BY <1>6, <2>1, HeadTailProperties
  <2>0. q = first \o rest
    BY <1>6, <2>1, HeadTailProperties
  <2>3. PushOne(acc, msg) = [queue |-> Append(rest, msg), dropped |-> d + 1]
    BY <1>1, <1>6, <2>1 DEF PushOne, PopFront
  <2>4. lost \o first \in Seq(S) /\ Len(lost \o first) = Len(lost) + 1
    BY <2>2, ConcatProperties, SMTT(30)
  <2>5. (lost \o first) \o rest = all
    <3>1. (lost \o first) \o rest = lost \o (first \o rest)
      BY <2>2, ConcatAssociative, SMTT(30)
    <3> QED
      BY <1>2, <2>0, <3>1
  <2>6. (lost \o first) \o Append(rest, msg) = Append((lost \o first) \o rest, msg)
    BY <2>2, <2>4, ConcatAppend
  <2>7. Append(rest, msg) \in Seq(S) /\ d + 1 \in Nat
    BY <2>2, AppendProperties
  <2>8. Capacity > 0 => Len(lost \o first) = d + 1
    BY <1>2, <2>4
  <2>9. (lost \o first) \o Append(rest, msg) = Append(all, msg)
    BY <2>5, <2>6
  <2>10. PICK new : new = PushOne(acc, msg)
    OBVIOUS
  <2>11. new \in Queued(S) /\ new.queue = Append(rest, msg) /\ new.dropped = d + 1
    BY <2>3, <2>7, <2>10 DEF Queued
  <2> QED
    BY <2>4, <2>8, <2>9, <2>10, <2>11 DEF Passed
<1> QED
  BY <1>3, <1>4, <1>5, <1>6

(* push's whole loop. *)
LEMMA PushLoop ==
    ASSUME NEW S, NEW queue \in Seq(S), NEW msgs \in Seq(S)
    PROVE  Passed(S, FoldLeft(PushOne, [queue |-> queue, dropped |-> 0], msgs), queue \o msgs)
<1> DEFINE n == Len(msgs)
           base == [queue |-> queue, dropped |-> 0]
           Loop(g) == g = [t \in SUBSET (1 .. n) |->
                             IF t = {} THEN base ELSE PushOne(g[t \ {Max(t)}], msgs[Max(t)])]
           iter == CHOOSE g : Loop(g)
           T == {k \in 0 .. n : Passed(S, iter[1 .. k], queue \o SubSeq(msgs, 1, k))}
<1>1. n \in Nat /\ DOMAIN msgs = 1 .. n /\ \A k \in 1 .. n : msgs[k] \in S
  BY LenProperties
<1>2. FoldLeft(PushOne, base, msgs) = iter[1 .. n]
  BY <1>1 DEF FoldLeft, MapThenFoldSet
<1>3. base \in Queued(S)
  BY DEF Queued
<1>4. Passed(S, base, queue)
  <2>1. base.queue = queue /\ base.dropped = 0
    OBVIOUS
  <2>2. <<>> \in Seq(S) /\ <<>> \o queue = queue /\ Len(<<>>) = 0
    BY ConcatEmptySeq, EmptySeq
  <2> HIDE DEF base
  <2> QED
    BY <1>3, <2>1, <2>2 DEF Passed
<1>5. ASSUME NEW acc \in Queued(S), NEW k \in 1 .. n PROVE PushOne(acc, msgs[k]) \in Queued(S)
  <2>1. PICK q \in Seq(S), d \in Nat : q = acc.queue /\ d = acc.dropped
    BY DEF Queued
  <2>2. PICK kept : kept = IF Len(q) >= Capacity THEN PopFront(q) ELSE q
    OBVIOUS
  <2>3. kept \in Seq(S)
    BY <2>2, HeadTailProperties, EmptySeq DEF PopFront
  <2>4. Append(kept, msgs[k]) \in Seq(S)
    BY <1>1, <2>3, AppendProperties
  <2>5. d + (IF Len(q) >= Capacity THEN 1 ELSE 0) \in Nat
    OBVIOUS
  <2>6. PushOne(acc, msgs[k]) = [queue |-> Append(kept, msgs[k]),
                                 dropped |-> d + (IF Len(q) >= Capacity THEN 1 ELSE 0)]
    BY <2>1, <2>2 DEF PushOne
  <2> QED
    BY <2>4, <2>5, <2>6 DEF Queued
<1>6. \E g \in [SUBSET (1 .. n) -> Queued(S)] : Loop(g)
  <2> DEFINE step == [k \in 1 .. n |-> [acc \in Queued(S) |-> PushOne(acc, msgs[k])]]
  <2>1. step \in [1 .. n -> [Queued(S) -> Queued(S)]]
    BY <1>5
  <2>2. PICK g \in [SUBSET (1 .. n) -> Queued(S)] : IsLoop(g, n, base, step)
    <3> HIDE DEF step, base, n
    <3> QED
      BY <1>1, <1>3, <2>1, LoopTable
  <2>3. ASSUME NEW s \in SUBSET (1 .. n), s # {}
        PROVE  step[Max(s)][g[s \ {Max(s)}]] = PushOne(g[s \ {Max(s)}], msgs[Max(s)])
    <3>1. Max(s) \in 1 .. n
      BY <1>1, <2>3, MaxInInterval
    <3>2. g[s \ {Max(s)}] \in Queued(S)
      <4>1. s \ {Max(s)} \in SUBSET (1 .. n)
        OBVIOUS
      <4> QED
        BY <4>1
    <3> QED
      BY <3>1, <3>2
  <2> HIDE DEF base, step
  <2>4. Loop(g)
    BY <2>2, <2>3 DEF IsLoop
  <2> QED
    BY <2>4
<1>7. Loop(iter)
  <2> HIDE DEF Loop
  <2> QED
    BY <1>6
<1>8. iter[{}] = base
  <2> HIDE DEF iter, base
  <2> QED
    BY <1>7
<1>9. ASSUME NEW k \in 1 .. n PROVE iter[1 .. k] = PushOne(iter[1 .. k - 1], msgs[k])
  <2>1. 1 .. k \in SUBSET (1 .. n) /\ 1 .. k # {}
    <3>1. k \in 1 .. k /\ \A i \in 1 .. k : i \in 1 .. n
      BY <1>1
    <3> QED
      BY <3>1
  <2>2. Max(1 .. k) = k /\ (1 .. k) \ {Max(1 .. k)} = 1 .. k - 1
    BY LoopPrefix, SMTT(30)
  <2> HIDE DEF iter, base
  <2> QED
    BY <1>7, <2>1, <2>2
<1> HIDE DEF iter
<1>10. 0 \in T
  <2>1. SubSeq(msgs, 1, 0) = <<>> /\ queue \o <<>> = queue
    BY SubSeqEmpty, ConcatEmptySeq
  <2>2. 1 .. 0 = {}
    OBVIOUS
  <2> HIDE DEF base
  <2>3. Passed(S, iter[1 .. 0], queue \o SubSeq(msgs, 1, 0))
    BY <1>4, <1>8, <2>1, <2>2
  <2>4. 0 \in 0 .. n
    BY <1>1
  <2> QED
    BY <2>3, <2>4, Zenon
<1>11. ASSUME NEW k \in 0 .. n, k \in T, k < n PROVE k + 1 \in T
  <2>1. k + 1 \in 1 .. n /\ (k + 1) - 1 = k
    BY <1>1, <1>11
  <2>2. iter[1 .. k + 1] = PushOne(iter[1 .. k], msgs[k + 1])
    BY <1>9, <2>1
  <2>3. msgs[k + 1] \in S /\ SubSeq(msgs, 1, k) \in Seq(S)
    BY <1>1, <2>1, SubSeqProperties
  <2>4. queue \o SubSeq(msgs, 1, k) \in Seq(S)
    BY <2>3, ConcatProperties
  <2>5. Passed(S, iter[1 .. k + 1], Append(queue \o SubSeq(msgs, 1, k), msgs[k + 1]))
    BY <1>11, <2>2, <2>3, <2>4, PushOneStep
  <2>6. SubSeq(msgs, 1, k + 1) = Append(SubSeq(msgs, 1, k), msgs[k + 1])
    BY <1>1, <2>1, SubSeqRecursiveSecond
  <2>7. queue \o SubSeq(msgs, 1, k + 1) = Append(queue \o SubSeq(msgs, 1, k), msgs[k + 1])
    BY <2>3, <2>6, ConcatAppend
  <2>8. Passed(S, iter[1 .. k + 1], queue \o SubSeq(msgs, 1, k + 1))
    BY <2>5, <2>7
  <2>9. k + 1 \in 0 .. n
    BY <1>1, <2>1
  <2> QED
    BY <2>8, <2>9, Zenon
<1>12. n \in T
  <2> HIDE DEF T, n
  <2>1. \A k \in 0 .. n : k \in T /\ k < n => k + 1 \in T
    BY <1>11
  <2>2. \A k \in 0 .. n : k \in T
    BY <1>1, <1>10, <2>1, IntervalInduction
  <2> QED
    BY <1>1, <2>2
<1>13. SubSeq(msgs, 1, n) = msgs
  BY SubSeqFull
<1> QED
  BY <1>2, <1>12, <1>13

(* An event as it lies in the buffer, and back. *)
Wire == {MessageFrom(e) : e \in Event}

Events(queue) == [k \in DOMAIN queue |-> EventFrom(queue[k])]

(* An event that passes through the buffer comes back as it was. *)
LEMMA RoundTrip ==
    ASSUME NEW e \in Event
    PROVE  EventFrom(MessageFrom(e)) = e /\ IsMessage(MessageFrom(e)) /\ MessageFrom(e) \in Wire
<1>1. IsEvent(e)
  BY EventFields
<1>2. PICK m : m = MessageFrom(e)
  OBVIOUS
<1>3. /\ m.id = e.id /\ m.source = e.source /\ m.message_type = e.event_type
      /\ m.metadata = e.metadata /\ m.payload = e.payload /\ m.route_to = e.route_to
      /\ m.of = {}
  BY <1>2 DEF MessageFrom
<1>4. EventFrom(m) = e
  BY <1>1, <1>3, Zenon DEF EventFrom, IsEvent
<1>5. IsEnvelope(m)
  BY <1>2 DEF IsEnvelope, MessageFrom
<1>6. IsMessage(m)
  BY <1>1, <1>3, <1>5 DEF IsMessage, IsEvent
<1> QED
  BY <1>2, <1>4, <1>6 DEF Wire

(* What a queue of messages holds, as events. *)
LEMMA EventsType ==
    ASSUME NEW queue \in Seq(Wire)
    PROVE  /\ Events(queue) \in Seq(Event) /\ Len(Events(queue)) = Len(queue)
           /\ DOMAIN Events(queue) = DOMAIN queue
           /\ \A k \in DOMAIN queue : /\ Events(queue)[k] = EventFrom(queue[k])
                                      /\ EventFrom(queue[k]) \in Event
                                      /\ IsMessage(queue[k])
<1>1. Len(queue) \in Nat /\ DOMAIN queue = 1 .. Len(queue)
  BY LenProperties
<1>2. ASSUME NEW k \in DOMAIN queue PROVE EventFrom(queue[k]) \in Event /\ IsMessage(queue[k])
  <2>1. PICK e \in Event : queue[k] = MessageFrom(e)
    BY <1>1 DEF Wire
  <2> QED
    BY <2>1, RoundTrip
<1>3. PICK n : n = Len(queue)
  OBVIOUS
<1>4. PICK f : f = Events(queue)
  OBVIOUS
<1>5. f \in [1 .. n -> Event] /\ \A k \in DOMAIN queue : f[k] = EventFrom(queue[k])
  BY <1>1, <1>2, <1>3, <1>4 DEF Events
<1>6. f \in Seq(Event) /\ Len(f) = n
  BY <1>1, <1>3, <1>5, SeqDef, LenProperties
<1> QED
  BY <1>1, <1>2, <1>3, <1>4, <1>5, <1>6

(* The events of two queues, one after the other. *)
LEMMA EventsConcat ==
    ASSUME NEW a \in Seq(Wire), NEW b \in Seq(Wire)
    PROVE  Events(a \o b) = Events(a) \o Events(b)
<1>1. PICK f, g : f = Events(a) /\ g = Events(b)
  OBVIOUS
<1>0. f \in Seq(Event) /\ Len(f) = Len(a) /\ g \in Seq(Event) /\ Len(g) = Len(b)
  BY <1>1, EventsType
<1>2. f \in Seq(Event) /\ Len(f) = Len(a) /\ \A k \in DOMAIN a : f[k] = EventFrom(a[k])
  BY <1>1, EventsType
<1>3. g \in Seq(Event) /\ Len(g) = Len(b) /\ \A k \in DOMAIN b : g[k] = EventFrom(b[k])
  BY <1>1, EventsType
<1>4. PICK c : c = a \o b
  OBVIOUS
<1>5. c \in Seq(Wire) /\ Len(c) = Len(a) + Len(b)
  BY <1>4, ConcatProperties
<1>6. PICK h : h = Events(c)
  OBVIOUS
<1>7. h \in Seq(Event) /\ Len(h) = Len(c) /\ \A k \in DOMAIN c : h[k] = EventFrom(c[k])
  BY <1>5, <1>6, EventsType
<1>8. f \o g \in Seq(Event) /\ Len(f \o g) = Len(a) + Len(b)
  <2>1. f \o g \in Seq(Event) /\ Len(f \o g) = Len(f) + Len(g)
    BY <1>0, ConcatProperties
  <2> QED
    BY <1>0, <2>1
<1>9. /\ Len(a) \in Nat /\ DOMAIN a = 1 .. Len(a)
      /\ Len(b) \in Nat /\ DOMAIN b = 1 .. Len(b)
      /\ DOMAIN c = 1 .. Len(a) + Len(b)
  BY <1>5, LenProperties
<1>10. ASSUME NEW k \in 1 .. Len(a) + Len(b) PROVE h[k] = (f \o g)[k]
  <2>1. CASE k <= Len(a)
    <3>1. c[k] = a[k] /\ k \in 1 .. Len(a)
      BY <1>4, <1>9, <2>1, ConcatProperties
    <3>2. (f \o g)[k] = f[k]
      BY <1>2, <1>3, <1>9, <2>1, ConcatProperties
    <3> QED
      BY <1>2, <1>7, <1>9, <3>1, <3>2
  <2>2. CASE ~(k <= Len(a))
    <3>1. c[k] = b[k - Len(a)] /\ k - Len(a) \in 1 .. Len(b)
      BY <1>4, <1>9, <2>2, ConcatProperties
    <3>2. (f \o g)[k] = g[k - Len(a)]
      BY <1>2, <1>3, <1>9, <2>2, ConcatProperties
    <3> QED
      BY <1>3, <1>7, <1>9, <3>1, <3>2
  <2> QED
    BY <2>1, <2>2
<1>11. h = f \o g
  BY <1>5, <1>7, <1>8, <1>10, SeqEqual
<1> QED
  BY <1>1, <1>4, <1>6, <1>11

(* A batch is put into the buffer with its content. *)
LEMMA EventsBack ==
    ASSUME NEW events \in Seq(Event)
    PROVE  LET msgs == [k \in DOMAIN events |-> MessageFrom(events[k])]
           IN  msgs \in Seq(Wire) /\ Events(msgs) = events
<1>1. PICK msgs : msgs = [k \in DOMAIN events |-> MessageFrom(events[k])]
  OBVIOUS
<1>2. PICK n : n = Len(events)
  OBVIOUS
<1>3. n \in Nat /\ DOMAIN events = 1 .. n /\ \A k \in 1 .. n : events[k] \in Event
  BY <1>2, LenProperties
<1>4. msgs \in [1 .. n -> Wire]
  BY <1>1, <1>3, RoundTrip
<1>5. msgs \in Seq(Wire) /\ Len(msgs) = n /\ DOMAIN msgs = 1 .. n
  BY <1>3, <1>4, SeqDef, LenProperties
<1>6. PICK f : f = Events(msgs)
  OBVIOUS
<1>7. f \in Seq(Event) /\ Len(f) = n /\ \A k \in 1 .. n : f[k] = EventFrom(msgs[k])
  BY <1>5, <1>6, EventsType
<1>8. \A k \in 1 .. n : f[k] = events[k]
  BY <1>1, <1>3, <1>7, RoundTrip
<1>9. f = events
  BY <1>2, <1>7, <1>8, SeqEqual
<1> QED
  BY <1>1, <1>5, <1>6, <1>9

(* There is room, within the bound of the model, for what a request brings. *)
Fits(events) == events \in Seq(Event) /\ Len(stored) + Len(events) <= MaxEvents

(* What is stored are events. *)
StoredType == stored \in Seq(Event) /\ Len(stored) <= MaxEvents

(* There is always room for no events, and for the first of several. *)
LEMMA FitsFirst ==
    ASSUME StoredType
    PROVE  /\ Fits(<<>>)
           /\ \A events : Fits(events) => Fits(FirstOf(events))
<1>1. Len(stored) \in Nat /\ MaxEvents \in Nat /\ Len(stored) <= MaxEvents
  BY LenProperties, GatewayAssumption DEF StoredType
<1>2. Fits(<<>>)
  <2>1. <<>> \in Seq(Event) /\ Len(<<>>) = 0 /\ DOMAIN <<>> = {}
    BY EmptySeq
  <2> QED
    BY <1>1, <2>1 DEF Fits
<1>3. ASSUME NEW events, Fits(events) PROVE Fits(FirstOf(events))
  <2>1. CASE events = <<>>
    BY <1>2, <2>1 DEF FirstOf
  <2>2. CASE events # <<>>
    <3>1. PICK n : n = Len(events)
      OBVIOUS
    <3>2. n \in Nat /\ n # 0 /\ DOMAIN events = 1 .. n /\ events \in Seq(Event)
          /\ Len(stored) + n <= MaxEvents
      BY <1>3, <2>2, <3>1, LenProperties, EmptySeq DEF Fits
    <3>3. PICK e : e = events[1]
      OBVIOUS
    <3>4. 1 \in DOMAIN events
      BY <3>2
    <3>5. e \in Event
      BY <3>2, <3>3, <3>4, ElementOfSeq
    <3>6. FirstOf(events) = <<e>>
      <4>1. Head(events) = e
        BY <2>2, <3>2, <3>3, HeadTailProperties
      <4> QED
        BY <2>2, <4>1 DEF FirstOf
    <3>7. PICK one : one = <<e>>
      OBVIOUS
    <3>8. one \in Seq(Event) /\ Len(one) = 1 /\ DOMAIN one = {1} /\ one[1] = e
      BY <3>5, <3>7
    <3>9. Len(stored) + Len(one) <= MaxEvents
      BY <1>1, <3>2, <3>8
    <3>10. Fits(one)
      BY <3>5, <3>8, <3>9 DEF Fits
    <3> QED
      BY <3>6, <3>7, <3>10
  <2> QED
    BY <2>1, <2>2
<1> QED
  BY <1>2, <1>3

(* What a request comes to. *)
Answers == [status : BatchStatus, event_ids : Seq(STRING)]

(* The ids of events are strings, one for each. *)
LEMMA IdsType ==
    ASSUME NEW events \in Seq(Event)
    PROVE  /\ Ids(events) \in Seq(STRING) /\ Len(Ids(events)) = Len(events)
           /\ DOMAIN Ids(events) = 1 .. Len(events)
           /\ \A k \in 1 .. Len(events) : Ids(events)[k] = events[k].id
<1>1. PICK n : n = Len(events)
  OBVIOUS
<1>2. n \in Nat /\ DOMAIN events = 1 .. n /\ \A k \in 1 .. n : events[k] \in Event
  BY <1>1, LenProperties, ElementOfSeq
<1>3. PICK f : f = Ids(events)
  OBVIOUS
<1>4. f \in [1 .. n -> STRING] /\ \A k \in 1 .. n : f[k] = events[k].id
  BY <1>2, <1>3, EventFields DEF Ids
<1>5. f \in Seq(STRING) /\ Len(f) = n /\ DOMAIN f = 1 .. n
  BY <1>2, <1>4, SeqDef, LenProperties
<1> QED
  BY <1>1, <1>3, <1>4, <1>5

(* A batch that a stream receives: its content, and the answer it comes to. *)
LEMMA BatchLemma ==
    ASSUME StoredType, NEW request \in Requests, NEW p \in ProcessBatch(request)
    PROVE  Fits(p.events) /\ p.status \in BatchStatus /\ Answer(p) \in Answers
<1>1. \A events : (\E n \in {n \in 0 .. MaxPerRequest : Len(stored) + n <= MaxEvents} :
                      events \in [1 .. n -> Event]) => Fits(events)
  <2>1. ASSUME NEW n \in 0 .. MaxPerRequest, Len(stored) + n <= MaxEvents,
               NEW events \in [1 .. n -> Event]
        PROVE  Fits(events)
    <3>1. n \in Nat
      BY GatewayAssumption
    <3>2. events \in Seq(Event) /\ Len(events) = n
      BY <3>1, SeqDef, LenProperties
    <3> QED
      BY <2>1, <3>2 DEF Fits
  <2> QED
    BY <2>1
<1>2. request.payload \in {"ready", "raw"} => Fits(request.events)
  BY <1>1 DEF Requests
<1>3. request.payload \in {"ready", "raw", "none"}
  BY DEF Requests
<1>4. Fits(<<>>)
  BY FitsFirst
<1>5. Fits(p.events) /\ p.status \in BatchStatus
  <2>1. CASE request.payload = "ready"
    BY <1>2, <2>1 DEF ProcessBatch, BatchStatus
  <2>2. CASE request.payload = "none"
    BY <1>4, <2>2 DEF ProcessBatch, BatchStatus
  <2>3. CASE request.payload = "raw"
    <3>1. PICK t \in Ingest(request.source, request.events) :
            p = [status |-> IF t.error = "none" THEN "ok" ELSE "unimplemented", events |-> t.events]
      BY <2>3 DEF ProcessBatch
    <3>2. t.events \in {request.events, <<>>}
      BY DEF Ingest, IngestorResults
    <3> QED
      BY <1>2, <1>4, <2>3, <3>1, <3>2 DEF BatchStatus
  <2> QED
    BY <1>3, <2>1, <2>2, <2>3
<1>6. Ids(p.events) \in Seq(STRING)
  BY <1>5, IdsType DEF Fits
<1> QED
  BY <1>5, <1>6 DEF Answer, Answers

(* A unary request that passes has one event. *)
LEMMA EventLemma ==
    ASSUME StoredType, NEW request \in Requests, NEW p \in ProcessEvent(request), p.status = "ok"
    PROVE  Fits(p.events) /\ Len(p.events) = 1
<1>1. PICK b \in ProcessBatch(request) :
        p = [status |-> IF b.status = "ok" /\ b.events = <<>> THEN "invalid_argument" ELSE b.status,
             events |-> FirstOf(b.events)]
  BY DEF ProcessEvent
<1>2. Fits(b.events)
  BY BatchLemma
<1>3. b.events # <<>>
  BY <1>1
<1>4. Len(FirstOf(b.events)) = 1
  BY <1>3 DEF FirstOf
<1> QED
  BY <1>1, <1>2, <1>4, FitsFirst

(* A push appends what it is given to what is stored, and moves the events *)
(* that it evicts, oldest first, out of the buffer.                        *)
LEMMA PushEventsLemma ==
    ASSUME StoredType, messages \in Seq(Wire), dropped \in Nat, NEW events, Fits(events),
           PushEvents(events)
    PROVE  /\ StoredType' /\ stored' = stored \o events
           /\ messages' \in Seq(Wire) /\ dropped' \in Nat
           /\ \E gone \in Seq(Event) :
                /\ gone \o Events(messages') = Events(messages) \o events
                /\ Capacity > 0 => dropped' = dropped + Len(gone)
<1>1. PICK msgs : msgs = [k \in DOMAIN events |-> MessageFrom(events[k])]
  OBVIOUS
<1>2. events \in Seq(Event)
  BY DEF Fits
<1>3. msgs \in Seq(Wire) /\ Events(msgs) = events
  BY <1>1, <1>2, EventsBack
<1>4. PICK after : after = AfterPush(msgs)
  OBVIOUS
<1>5. Passed(Wire, after, messages \o msgs)
  BY <1>3, <1>4, PushLoop DEF AfterPush
<1>6. messages' = after.queue /\ dropped' = dropped + after.dropped /\ stored' = stored \o events
  BY <1>1, <1>4 DEF PushEvents
<1>7. PICK lost \in Seq(Wire) :
        lost \o after.queue = messages \o msgs /\ (Capacity > 0 => Len(lost) = after.dropped)
  BY <1>5 DEF Passed
<1>8. after.queue \in Seq(Wire) /\ after.dropped \in Nat
  BY <1>5 DEF Passed, Queued
<1>9. messages' \in Seq(Wire) /\ dropped' \in Nat
  BY <1>6, <1>8
<1>10. PICK gone : gone = Events(lost)
  OBVIOUS
<1>11. gone \in Seq(Event) /\ Len(gone) = Len(lost)
  BY <1>10, EventsType
<1>12. gone \o Events(messages') = Events(messages) \o events
  <2>1. Events(lost \o messages') = gone \o Events(messages')
    BY <1>9, <1>10, EventsConcat
  <2>2. Events(messages \o msgs) = Events(messages) \o Events(msgs)
    BY <1>3, EventsConcat
  <2> QED
    BY <1>3, <1>6, <1>7, <2>1, <2>2
<1>13. Capacity > 0 => dropped' = dropped + Len(gone)
  BY <1>6, <1>7, <1>11
<1>14. StoredType'
  <2>1. /\ stored \in Seq(Event) /\ Len(stored) + Len(events) <= MaxEvents
    BY DEF StoredType, Fits
  <2>2. stored \o events \in Seq(Event) /\ Len(stored \o events) = Len(stored) + Len(events)
    BY <1>2, <2>1, ConcatProperties
  <2> QED
    BY <1>6, <2>1, <2>2 DEF StoredType
<1> QED
  BY <1>6, <1>9, <1>11, <1>12, <1>13, <1>14

(* The places of the events stored, of which there are as many as events. *)
LEMMA StoredPlaces ==
    ASSUME StoredType
    PROVE  /\ Len(stored) \in Nat /\ DOMAIN stored = 1 .. Len(stored)
           /\ IsFiniteSet(DOMAIN stored) /\ Cardinality(DOMAIN stored) = Len(stored)
<1>1. PICK n : n = Len(stored)
  OBVIOUS
<1>2. n \in Nat /\ DOMAIN stored = 1 .. n
  BY <1>1, LenProperties DEF StoredType
<1>3. IsFiniteSet(1 .. n) /\ Cardinality(1 .. n) = IF 1 > n THEN 0 ELSE n - 1 + 1
  BY <1>2, FS_Interval
<1>4. Cardinality(1 .. n) = n
  BY <1>2, <1>3
<1> QED
  BY <1>1, <1>2, <1>3, <1>4

(* Events that are stored get places of their own. *)
LEMMA NewPlaces ==
    ASSUME StoredType, NEW events, Fits(events)
    PROVE  /\ Places(events) \cap DOMAIN stored = {}
           /\ DOMAIN (stored \o events) = DOMAIN stored \union Places(events)
           /\ Cardinality(Places(events)) = Len(events)
           /\ Places(events) \subseteq Nat \ {0}
           /\ Len(events) \in Nat
<1>1. PICK m, n : m = Len(stored) /\ n = Len(events)
  OBVIOUS
<1>2. /\ stored \in Seq(Event) /\ events \in Seq(Event)
      /\ m \in Nat /\ n \in Nat /\ DOMAIN stored = 1 .. m
  BY <1>1, LenProperties DEF StoredType, Fits
<1>3. Places(events) = m + 1 .. m + n
  BY <1>1 DEF Places
<1>4. stored \o events \in Seq(Event) /\ Len(stored \o events) = m + n
  BY <1>1, <1>2, ConcatProperties
<1>5. DOMAIN (stored \o events) = 1 .. m + n
  BY <1>4, LenProperties
<1>6. \A x : x \in 1 .. m + n <=> x \in 1 .. m \/ x \in m + 1 .. m + n
  BY <1>2
<1>7. \A x : ~(x \in m + 1 .. m + n /\ x \in 1 .. m)
  BY <1>2
<1>8. Cardinality(m + 1 .. m + n) = IF m + 1 > m + n THEN 0 ELSE (m + n) - (m + 1) + 1
  <2>1. m + 1 \in Int /\ m + n \in Int
    BY <1>2
  <2> QED
    BY <2>1, FS_Interval
<1>9. Cardinality(m + 1 .. m + n) = n
  BY <1>2, <1>8
<1>10. m + 1 .. m + n \subseteq Nat \ {0}
  BY <1>2
<1> QED
  BY <1>1, <1>2, <1>3, <1>5, <1>6, <1>7, <1>9, <1>10

(* Ids that were stored together stay together, and a batch is stored      *)
(* together.                                                               *)
LEMMA TogetherLemma ==
    ASSUME StoredType, NEW events, Fits(events), stored' = stored \o events
    PROVE  /\ \A ids \in Seq(STRING) : StoredTogether(ids) => StoredTogether(ids)'
           /\ StoredTogether(Ids(events))'
<1>1. PICK m, n, all : m = Len(stored) /\ n = Len(events) /\ all = stored \o events
  OBVIOUS
<1>2. stored \in Seq(Event) /\ events \in Seq(Event) /\ m \in Nat /\ n \in Nat
  BY <1>1, LenProperties DEF StoredType, Fits
<1>3. /\ Len(all) = m + n
      /\ \A k \in 1 .. m + n : all[k] = IF k <= m THEN stored[k] ELSE events[k - m]
  BY <1>1, <1>2, ConcatProperties
<1>4. ASSUME NEW ids \in Seq(STRING), StoredTogether(ids) PROVE StoredTogether(ids)'
  <2>1. PICK l : l = Len(ids)
    OBVIOUS
  <2>2. l \in Nat /\ DOMAIN ids = 1 .. l
    BY <2>1, LenProperties
  <2>3. PICK p \in 0 .. m - l : \A k \in 1 .. l : ids[k] = stored[p + k].id
    BY <1>1, <1>4, <2>1, <2>2 DEF StoredTogether
  <2>4. p \in 0 .. (m + n) - l
    BY <1>2, <2>2
  <2>5. ASSUME NEW k \in 1 .. l PROVE ids[k] = all[p + k].id
    <3>1. p + k \in 1 .. m + n /\ p + k <= m
      BY <1>2, <2>2
    <3>2. all[p + k] = stored[p + k]
      BY <1>3, <3>1
    <3> QED
      BY <2>3, <3>2
  <2> QED
    BY <1>1, <1>3, <2>1, <2>2, <2>4, <2>5, ZenonT(60) DEF StoredTogether
<1>5. StoredTogether(Ids(events))'
  <2>1. PICK ids : ids = Ids(events)
    OBVIOUS
  <2>2. Len(ids) = n /\ DOMAIN ids = 1 .. n /\ \A k \in 1 .. n : ids[k] = events[k].id
    BY <1>1, <1>2, <2>1, IdsType
  <2>3. m \in 0 .. (m + n) - n
    BY <1>2
  <2>4. ASSUME NEW k \in 1 .. n PROVE ids[k] = all[m + k].id
    <3>1. m + k \in 1 .. m + n /\ ~(m + k <= m) /\ (m + k) - m = k
      BY <1>2
    <3>2. all[m + k] = events[k]
      BY <1>3, <3>1
    <3> QED
      BY <2>2, <3>2
  <2>5. Ids(events)' = ids
    BY <2>1
  <2> QED
    BY <1>1, <1>3, <2>1, <2>2, <2>3, <2>4, ZenonT(60) DEF StoredTogether
<1> QED
  BY <1>4, <1>5

(* A longer sequence has the same subsequences. *)
LEMMA SubsequenceLonger ==
    ASSUME NEW S, NEW a \in Seq(S), NEW b \in Seq(S), NEW c \in Seq(S), IsSubsequence(a, b)
    PROVE  IsSubsequence(a, b \o c)
<1>1. PICK at \in [DOMAIN a -> DOMAIN b] :
        /\ \A j, k \in DOMAIN a : j < k => at[j] < at[k]
        /\ \A k \in DOMAIN a : a[k] = b[at[k]]
  BY DEF IsSubsequence
<1>2. PICK n, l, all : n = Len(b) /\ l = Len(c) /\ all = b \o c
  OBVIOUS
<1>3. n \in Nat /\ l \in Nat /\ DOMAIN b = 1 .. n
  BY <1>2, LenProperties
<1>4. all \in Seq(S) /\ Len(all) = n + l /\ \A k \in 1 .. n : all[k] = b[k]
  <2>1. \A k \in 1 .. n : k \in 1 .. n + l /\ k <= n
    BY <1>3
  <2> QED
    BY <1>2, <2>1, ConcatProperties
<1>5. DOMAIN all = 1 .. n + l
  BY <1>4, LenProperties
<1>6. DOMAIN b \subseteq DOMAIN all
  BY <1>3, <1>5
<1>7. at \in [DOMAIN a -> DOMAIN all]
  BY <1>6
<1>8. \A k \in DOMAIN a : a[k] = all[at[k]]
  BY <1>1, <1>3, <1>4
<1> QED
  BY <1>1, <1>2, <1>7, <1>8 DEF IsSubsequence

(* Both may be continued by the same elements. *)
LEMMA SubsequenceBoth ==
    ASSUME NEW S, NEW a \in Seq(S), NEW b \in Seq(S), NEW c \in Seq(S), IsSubsequence(a, b)
    PROVE  IsSubsequence(a \o c, b \o c)
<1>1. PICK at \in [DOMAIN a -> DOMAIN b] :
        /\ \A j, k \in DOMAIN a : j < k => at[j] < at[k]
        /\ \A k \in DOMAIN a : a[k] = b[at[k]]
  BY DEF IsSubsequence
<1>2. PICK m, n, l, some, all : /\ m = Len(a) /\ n = Len(b) /\ l = Len(c)
                                /\ some = a \o c /\ all = b \o c
  OBVIOUS
<1>3. /\ m \in Nat /\ n \in Nat /\ l \in Nat
      /\ DOMAIN a = 1 .. m /\ DOMAIN b = 1 .. n
  BY <1>2, LenProperties
<1>4. /\ some \in Seq(S) /\ Len(some) = m + l
      /\ \A k \in 1 .. m + l : some[k] = IF k <= m THEN a[k] ELSE c[k - m]
  BY <1>2, ConcatProperties
<1>5. /\ all \in Seq(S) /\ Len(all) = n + l
      /\ \A k \in 1 .. n + l : all[k] = IF k <= n THEN b[k] ELSE c[k - n]
  BY <1>2, ConcatProperties
<1>6. DOMAIN some = 1 .. m + l /\ DOMAIN all = 1 .. n + l
  BY <1>4, <1>5, LenProperties
<1>7. PICK to : to = [k \in 1 .. m + l |-> IF k <= m THEN at[k] ELSE n + (k - m)]
  OBVIOUS
<1>8. ASSUME NEW k \in 1 .. m + l
      PROVE  /\ k <= m => k \in 1 .. m /\ to[k] = at[k] /\ at[k] \in 1 .. n
             /\ ~(k <= m) => to[k] = n + (k - m) /\ k - m \in 1 .. l
             /\ to[k] \in 1 .. n + l
  <2>1. CASE k <= m
    <3>1. k \in 1 .. m /\ to[k] = at[k]
      BY <1>3, <1>7, <2>1
    <3>2. at[k] \in 1 .. n
      BY <1>1, <1>3, <3>1
    <3> QED
      BY <1>3, <2>1, <3>1, <3>2
  <2>2. CASE ~(k <= m)
    <3>1. to[k] = n + (k - m)
      BY <1>7, <2>2
    <3>2. k - m \in 1 .. l
      BY <1>3, <2>2
    <3> QED
      BY <1>3, <2>2, <3>1, <3>2
  <2> QED
    BY <2>1, <2>2
<1>9. to \in [1 .. m + l -> 1 .. n + l]
  BY <1>7, <1>8
<1>10. ASSUME NEW j \in 1 .. m + l, NEW k \in 1 .. m + l, j < k PROVE to[j] < to[k]
  <2>1. CASE k <= m
    <3>1. j <= m
      BY <1>3, <1>10, <2>1
    <3> QED
      BY <1>1, <1>3, <1>8, <1>10, <2>1, <3>1
  <2>2. CASE ~(k <= m) /\ j <= m
    <3>1. to[j] \in 1 .. n /\ to[k] = n + (k - m) /\ k - m \in 1 .. l
      BY <1>8, <2>2
    <3> QED
      BY <1>3, <3>1
  <2>3. CASE ~(k <= m) /\ ~(j <= m)
    <3>1. to[j] = n + (j - m) /\ to[k] = n + (k - m)
      BY <1>8, <2>3
    <3> QED
      BY <1>3, <1>10, <3>1
  <2> QED
    BY <2>1, <2>2, <2>3
<1>11. ASSUME NEW k \in 1 .. m + l PROVE some[k] = all[to[k]]
  <2>1. CASE k <= m
    <3>1. some[k] = a[k] /\ k \in DOMAIN a /\ to[k] = at[k] /\ at[k] \in 1 .. n
      BY <1>3, <1>4, <1>8, <2>1
    <3>2. at[k] \in 1 .. n + l /\ at[k] <= n
      BY <1>3, <3>1
    <3>3. all[at[k]] = b[at[k]]
      BY <1>5, <3>2
    <3> QED
      BY <1>1, <3>1, <3>3
  <2>2. CASE ~(k <= m)
    <3>1. some[k] = c[k - m] /\ to[k] = n + (k - m) /\ k - m \in 1 .. l
      BY <1>4, <1>8, <2>2
    <3>2. PICK i \in 1 .. l : i = k - m
      BY <3>1
    <3>3. n + i \in 1 .. n + l /\ ~(n + i <= n) /\ (n + i) - n = i
      BY <1>3
    <3>4. all[n + i] = c[i]
      BY <1>5, <3>3
    <3> QED
      BY <3>1, <3>2, <3>4
  <2> QED
    BY <2>1, <2>2
<1> HIDE DEF IsSubsequence
<1>12. IsSubsequence(some, all)
  BY <1>6, <1>9, <1>10, <1>11 DEF IsSubsequence
<1> QED
  BY <1>2, <1>12

(* What follows something is a suffix. *)
LEMMA SuffixLemma ==
    ASSUME NEW S, NEW a \in Seq(S), NEW b \in Seq(S)
    PROVE  IsSuffix(b, a \o b)
<1>1. PICK m, n : m = Len(a) /\ n = Len(b)
  OBVIOUS
<1>2. PICK c : c = a \o b
  OBVIOUS
<1>3. m \in Nat /\ n \in Nat /\ DOMAIN b = 1 .. n /\ \A k \in 1 .. n : b[k] \in S
  BY <1>1, LenProperties, ElementOfSeq
<1>4. c \in Seq(S) /\ Len(c) = m + n
  BY <1>1, <1>2, ConcatProperties
<1>5. \A k \in 1 .. m + n : c[k] \in S
  BY <1>4, ElementOfSeq
<1>6. \A k \in 1 .. n : c[m + k] = b[k]
  <2>1. ASSUME NEW k \in 1 .. n PROVE c[m + k] = b[k]
    <3>1. m + k \in 1 .. m + n /\ ~(m + k <= m) /\ (m + k) - m = k
      BY <1>3
    <3> QED
      BY <1>1, <1>2, <3>1, ConcatProperties
  <2> QED
    BY <2>1
<1>7. PICK x, y : x = Reverse(b) /\ y = Reverse(c)
  OBVIOUS
<1>8. x \in [1 .. n -> S] /\ \A i \in 1 .. n : x[i] = b[(n - i) + 1]
  <2>1. \A i \in 1 .. n : (n - i) + 1 \in 1 .. n
    BY <1>3
  <2> QED
    BY <1>1, <1>3, <1>7, <2>1 DEF Reverse
<1>9. y \in [1 .. m + n -> S] /\ \A i \in 1 .. m + n : y[i] = c[((m + n) - i) + 1]
  <2>1. \A i \in 1 .. m + n : ((m + n) - i) + 1 \in 1 .. m + n
    BY <1>3
  <2> QED
    BY <1>4, <1>5, <1>7, <2>1 DEF Reverse
<1>10. x \in Seq(S) /\ Len(x) = n
  BY <1>3, <1>8, SeqDef, LenProperties
<1>11. m + n \in Nat
  BY <1>3
<1>12. y \in Seq(S) /\ Len(y) = m + n
  <2>1. PICK total \in Nat : total = m + n
    BY <1>11
  <2>2. y \in [1 .. total -> S]
    BY <1>9, <2>1
  <2>3. y \in Seq(S) /\ Len(y) = total
    BY <2>2, SeqDef, LenProperties
  <2> QED
    BY <2>1, <2>3
<1>13. \A i \in 1 .. n : x[i] = y[i]
  <2>1. ASSUME NEW i \in 1 .. n PROVE x[i] = y[i]
    <3>1. /\ i \in 1 .. m + n /\ (n - i) + 1 \in 1 .. n
          /\ ((m + n) - i) + 1 = m + ((n - i) + 1)
      BY <1>3
    <3> QED
      BY <1>6, <1>8, <1>9, <3>1
  <2> QED
    BY <2>1
<1>14. SubSeq(x, 1, n) = SubSeq(y, 1, n)
  <2>1. SubSeq(x, 1, n) = x
    BY <1>10, SubSeqFull
  <2>2. \A i \in 1 .. n : y[i] \in S
    BY <1>3, <1>9
  <2>3. /\ SubSeq(y, 1, n) \in Seq(S) /\ Len(SubSeq(y, 1, n)) = n
        /\ \A i \in 1 .. n : SubSeq(y, 1, n)[i] = y[i]
    <3>1. 1 \in Int /\ n \in Int /\ n - 1 + 1 = n /\ 1 + n - 1 = n
      BY <1>3
    <3>2. 1 <= n \/ n = 0
      BY <1>3
    <3>3. CASE 1 <= n
      BY <1>3, <1>12, <2>2, <3>3, SubSeqProperties
    <3>4. CASE n = 0
      BY <3>4, SubSeqEmpty, EmptySeq
    <3> QED
      BY <3>2, <3>3, <3>4
  <2>4. PICK z : z = SubSeq(y, 1, n)
    OBVIOUS
  <2>5. z \in Seq(S) /\ Len(z) = n /\ \A i \in 1 .. n : z[i] = x[i]
    BY <1>13, <2>3, <2>4
  <2>6. z = x
    BY <1>10, <2>5, SeqEqual
  <2> QED
    BY <2>1, <2>4, <2>6
<1>15. n <= m + n
  BY <1>3
<1>16. IsPrefix(x, y)
  BY <1>10, <1>12, <1>14, <1>15 DEF IsPrefix
<1> QED
  BY <1>2, <1>7, <1>16 DEF IsSuffix

--------------------------------------------------------------------------------
(* What is stored. *)

Storage ==
    /\ StoredType
    /\ messages \in Seq(Wire) /\ dropped \in Nat /\ drained \in Nat
    /\ \E gone \in Seq(Event) : stored = gone \o Events(messages) /\ IsSubsequence(handed, gone)
    /\ Capacity > 0 => Len(stored) = Len(messages) + Len(handed) + dropped

(* The steps, by what they do to the buffer. *)
LEMMA IntakeSteps ==
    ASSUME StoredType, [Next]_vars
    PROVE  \/ /\ \E events : Fits(events) /\ PushEvents(events)
              /\ handed' = handed
           \/ Forward
           \/ UNCHANGED <<ringVars, stored, handed>>
<1> USE DEF intake, registryVars, emitVars
<1>1. ASSUME NEW c \in Caller, SendEvent(c)
      PROVE  \/ /\ \E events : Fits(events) /\ PushEvents(events)
                /\ handed' = handed
             \/ UNCHANGED <<ringVars, stored, handed>>
  <2>1. PICK request \in Requests : \E p \in ProcessEvent(request) :
          IF p.status # "ok" THEN UNCHANGED <<ringVars, stored>> ELSE PushEvents(p.events)
    BY <1>1 DEF SendEvent, EventRequests
  <2>2. handed' = handed
    BY <1>1 DEF SendEvent
  <2>3. \A p \in ProcessEvent(request) : p.status = "ok" => Fits(p.events)
    BY EventLemma
  <2> QED
    BY <2>1, <2>2, <2>3
<1>2. ASSUME NEW s \in Stream, RecvBatch(s)
      PROVE  \/ /\ \E events : Fits(events) /\ PushEvents(events)
                /\ handed' = handed
             \/ UNCHANGED <<ringVars, stored, handed>>
  <2>1. PICK request \in Requests : \E p \in ProcessBatch(request) :
          IF p.events = <<>> THEN UNCHANGED <<ringVars, stored>> ELSE PushEvents(p.events)
    BY <1>2 DEF RecvBatch
  <2>2. handed' = handed
    BY <1>2 DEF RecvBatch
  <2>3. \A p \in ProcessBatch(request) : Fits(p.events)
    BY BatchLemma
  <2> QED
    BY <2>1, <2>2, <2>3
<1>3. ASSUME NEW c \in Caller, CountEvent(c) PROVE UNCHANGED <<ringVars, stored, handed>>
  BY <1>3 DEF CountEvent
<1>4. ASSUME NEW s \in Stream, StreamNext(s), ~RecvBatch(s)
      PROVE  UNCHANGED <<ringVars, stored, handed>>
  BY <1>4 DEF StreamNext, OpenStream, StreamTask, CountBatch, SendReply, SendFails, EndStream,
              ReadAnswer, Disconnect
<1>5. CASE Emit
  BY <1>5 DEF Emit, CallEmitter
<1>6. CASE Signal
  BY <1>6 DEF Signal
<1>7. CASE CloseEmitter
  BY <1>7 DEF CloseEmitter, ShutdownEmitter
<1>8. CASE StopAccepting \/ Exit
  BY <1>8 DEF StopAccepting, Exit
<1>9. CASE UNCHANGED vars
  BY <1>9 DEF vars
<1> QED
  BY <1>1, <1>2, <1>3, <1>4, <1>5, <1>6, <1>7, <1>8, <1>9 DEF Next, UnaryNext

(* What the embedding loop drains are events. *)
LEMMA ForwardLemma ==
    ASSUME messages \in Seq(Wire), drained \in Nat, Forward
    PROVE  \E batch \in Seq(Wire) :
             /\ Events(batch) \in Seq(Event)
             /\ BeginEmit(Events(batch))
             /\ messages' \in Seq(Wire) /\ batch \o messages' = messages
             /\ drained' \in Nat /\ UNCHANGED <<dropped, stored>>
<1>1. PICK batch : batch = Oldest(DrainSize)
  OBVIOUS
<1>2. DrainSize \in Nat /\ Drain(DrainSize)
  BY GatewayAssumption DEF Forward
<1>3. /\ messages' \in Seq(Wire) /\ batch \in Seq(Wire) /\ batch \o messages' = messages
      /\ drained' = drained + Len(batch) /\ Len(batch) \in Nat
  BY <1>1, <1>2, DrainLemma
<1>4. BeginEmit(Events(batch))
  BY <1>1 DEF Forward, Events
<1>5. UNCHANGED <<dropped, stored>>
  BY <1>2 DEF Forward, Drain
<1>6. Events(batch) \in Seq(Event)
  BY <1>3, EventsType
<1>7. batch \in Seq(Wire) /\ drained' \in Nat
  BY <1>3
<1>8. /\ Events(batch) \in Seq(Event)
      /\ BeginEmit(Events(batch))
      /\ messages' \in Seq(Wire) /\ batch \o messages' = messages
      /\ drained' \in Nat /\ UNCHANGED <<dropped, stored>>
  BY <1>3, <1>4, <1>5, <1>6, <1>7
<1> QED
  BY <1>7, <1>8, Zenon

(* Every step keeps the account of the buffer. *)
LEMMA StorageStep ==
    ASSUME Storage, handed \in Seq(Event), [Next]_vars
    PROVE  Storage'
<1>0. /\ StoredType /\ messages \in Seq(Wire) /\ dropped \in Nat /\ drained \in Nat
      /\ stored \in Seq(Event)
  BY DEF Storage, StoredType
<1>1. PICK gone \in Seq(Event) : stored = gone \o Events(messages) /\ IsSubsequence(handed, gone)
  BY DEF Storage
<1>2. PICK kept : kept = Events(messages)
  OBVIOUS
<1>3. kept \in Seq(Event) /\ Len(kept) = Len(messages)
  BY <1>0, <1>2, EventsType
<1>4. /\ Len(messages) \in Nat /\ Len(handed) \in Nat /\ Len(stored) \in Nat /\ Len(gone) \in Nat
  BY <1>0, LenProperties
<1>5. ASSUME NEW events, Fits(events), PushEvents(events), handed' = handed PROVE Storage'
  <2>1. /\ StoredType' /\ stored' = stored \o events
        /\ messages' \in Seq(Wire) /\ dropped' \in Nat
    BY <1>0, <1>5, PushEventsLemma
  <2>2. PICK lost \in Seq(Event) :
          /\ lost \o Events(messages') = kept \o events
          /\ Capacity > 0 => dropped' = dropped + Len(lost)
    BY <1>0, <1>2, <1>5, PushEventsLemma
  <2>3. PICK left : left = Events(messages')
    OBVIOUS
  <2>4. left \in Seq(Event) /\ Len(left) = Len(messages')
    BY <2>1, <2>3, EventsType
  <2>5. events \in Seq(Event)
    BY <1>5 DEF Fits
  <2>6. gone \o lost \in Seq(Event)
    BY ConcatProperties
  <2>7. stored' = (gone \o lost) \o left
    <3>0. kept \in Seq(Event)
      BY <1>3
    <3>1. (gone \o kept) \o events = gone \o (kept \o events)
      BY <2>5, <3>0, ConcatAssociative, SMTT(30)
    <3>2. (gone \o lost) \o left = gone \o (lost \o left)
      BY <2>4, ConcatAssociative, SMTT(30)
    <3> QED
      BY <1>1, <1>2, <2>1, <2>2, <2>3, <3>1, <3>2
  <2>8. IsSubsequence(handed, gone \o lost)
    BY <1>1, SubsequenceLonger
  <2>9. Capacity > 0 => Len(stored') = Len(messages') + Len(handed') + dropped'
    <3>1. Len(lost \o left) = Len(lost) + Len(left)
      BY <2>4, ConcatProperties
    <3>2. Len(kept \o events) = Len(kept) + Len(events)
      BY <1>3, <2>5, ConcatProperties
    <3>3. Len(stored \o events) = Len(stored) + Len(events)
      BY <1>0, <2>5, ConcatProperties
    <3>4. Len(lost) \in Nat /\ Len(left) \in Nat /\ Len(events) \in Nat
      BY <2>4, <2>5, LenProperties
    <3>5. Len(lost) + Len(messages') = Len(messages) + Len(events)
      BY <1>3, <2>2, <2>3, <2>4, <3>1, <3>2
    <3>6. Len(messages') \in Nat
      BY <2>4, <3>4
    <3>7. Capacity > 0 => Len(stored) = Len(messages) + Len(handed) + dropped
      BY DEF Storage
    <3>8. PICK l \in Nat, e \in Nat, m \in Nat, r \in Nat, h \in Nat, n \in Nat :
            /\ l = Len(lost) /\ e = Len(events) /\ m = Len(messages) /\ r = Len(messages')
            /\ h = Len(handed) /\ n = Len(stored)
      BY <1>4, <3>4, <3>6
    <3>9. Len(stored') = n + e /\ Len(handed') = h
      BY <1>5, <2>1, <3>3, <3>8
    <3>10. l + r = m + e /\ (Capacity > 0 => n = m + h + dropped /\ dropped' = dropped + l)
      BY <2>2, <3>5, <3>7, <3>8
    <3>11. Capacity > 0 => n + e = r + h + dropped'
      BY <1>0, <3>10
    <3> QED
      BY <3>8, <3>9, <3>11
  <2>10. drained' = drained
    BY <1>5 DEF PushEvents
  <2>11. \E g \in Seq(Event) : stored' = g \o Events(messages') /\ IsSubsequence(handed', g)
    BY <1>5, <2>3, <2>6, <2>7, <2>8
  <2>12. (\E g \in Seq(Event) : stored = g \o Events(messages) /\ IsSubsequence(handed, g))'
    BY <2>11 DEF Events, IsSubsequence
  <2> QED
    BY <1>0, <2>1, <2>9, <2>10, <2>12 DEF Storage
<1>6. CASE Forward
  <2>1. PICK batch \in Seq(Wire) :
          /\ Events(batch) \in Seq(Event)
          /\ BeginEmit(Events(batch))
          /\ messages' \in Seq(Wire) /\ batch \o messages' = messages
          /\ drained' \in Nat /\ UNCHANGED <<dropped, stored>>
    BY <1>0, <1>6, ForwardLemma
  <2>2. PICK out, left : out = Events(batch) /\ left = Events(messages')
    OBVIOUS
  <2>3. out \in Seq(Event) /\ Len(out) = Len(batch)
    BY <2>1, <2>2, EventsType
  <2>4. left \in Seq(Event) /\ Len(left) = Len(messages')
    BY <2>1, <2>2, EventsType
  <2>5. Events(batch \o messages') = Events(batch) \o Events(messages')
    BY <2>1, EventsConcat
  <2>6. kept = out \o left
    BY <1>2, <2>1, <2>2, <2>5
  <2>7. handed' = handed \o out
    BY <2>1, <2>2 DEF BeginEmit
  <2>8. gone \o out \in Seq(Event)
    BY <2>3, ConcatProperties
  <2>9. stored' = (gone \o out) \o left
    <3>1. (gone \o out) \o left = gone \o (out \o left)
      BY <2>3, <2>4, ConcatAssociative, SMTT(30)
    <3> QED
      BY <1>1, <1>2, <2>1, <2>6, <3>1
  <2>10. IsSubsequence(handed \o out, gone \o out)
    BY <1>1, <2>3, SubsequenceBoth
  <2>11. Capacity > 0 => Len(stored') = Len(messages') + Len(handed') + dropped'
    <3>1. Len(handed \o out) = Len(handed) + Len(out)
      BY <2>3, ConcatProperties
    <3>2. Len(out \o left) = Len(out) + Len(left)
      BY <2>3, <2>4, ConcatProperties
    <3>3. Len(out) \in Nat /\ Len(left) \in Nat
      BY <2>3, <2>4, LenProperties
    <3>4. Len(messages) = Len(out) + Len(messages') /\ Len(messages') \in Nat
      BY <1>3, <2>4, <2>6, <3>2, <3>3
    <3>5. Capacity > 0 => Len(stored) = Len(messages) + Len(handed) + dropped
      BY DEF Storage
    <3> QED
      BY <1>0, <1>4, <2>1, <2>7, <3>1, <3>3, <3>4, <3>5
  <2>12. \E g \in Seq(Event) : stored' = g \o Events(messages') /\ IsSubsequence(handed', g)
    BY <2>2, <2>7, <2>8, <2>9, <2>10
  <2>15. (\E g \in Seq(Event) : stored = g \o Events(messages) /\ IsSubsequence(handed, g))'
    BY <2>12 DEF Events, IsSubsequence
  <2>13. StoredType'
    BY <1>0, <2>1 DEF StoredType
  <2>14. dropped' \in Nat
    BY <1>0, <2>1
  <2> QED
    BY <2>1, <2>11, <2>13, <2>14, <2>15 DEF Storage
<1>7. CASE UNCHANGED <<ringVars, stored, handed>>
  <2>1. messages' = messages /\ dropped' = dropped /\ drained' = drained
        /\ stored' = stored /\ handed' = handed
    BY <1>7 DEF ringVars
  <2>2. StoredType'
    BY <1>0, <2>1 DEF StoredType
  <2>3. Events(messages') = Events(messages)
    BY <2>1
  <2> QED
    BY <2>1, <2>2, <2>3 DEF Storage
<1> QED
  BY <1>0, <1>5, <1>6, <1>7, IntakeSteps

--------------------------------------------------------------------------------
(* The registry, at every step. *)

(* Every step keeps the account of the round that the registry is in. *)
LEMMA RegistryStep ==
    ASSUME Storage, RegistryInv, [Next]_vars
    PROVE  RegistryInv'
<1> USE DEF intake, registryVars
<1>1. CASE Forward
  <2>1. PICK batch \in Seq(Wire) : Events(batch) \in Seq(Event) /\ BeginEmit(Events(batch))
    BY <1>1, ForwardLemma DEF Storage
  <2> QED
    BY <2>1, BeginLemma
<1>2. CASE Emit
  BY <1>2, EmitLemma DEF Emit
<1>3. ASSUME UNCHANGED emitVars PROVE RegistryInv'
  <2>1. /\ calls' = calls /\ emitted_count' = emitted_count /\ handed' = handed
        /\ offered' = offered
    BY <1>3 DEF emitVars
  <2>2. RegistryType'
    BY <2>1 DEF RegistryInv, RegistryType
  <2>3. \A i \in DOMAIN Emitters : FanOut(i)'
    BY <2>1 DEF RegistryInv, FanOut, Due
  <2> QED
    BY <2>2, <2>3 DEF RegistryInv
<1>4. ASSUME NEW c \in Caller, UnaryNext(c) PROVE UNCHANGED emitVars
  BY <1>4 DEF UnaryNext, SendEvent, CountEvent
<1>5. ASSUME NEW s \in Stream, StreamNext(s) PROVE UNCHANGED emitVars
  BY <1>5 DEF StreamNext, OpenStream, RecvBatch, StreamTask, CountBatch, SendReply, SendFails,
              EndStream, ReadAnswer, Disconnect
<1>6. CASE Signal
  BY <1>3, <1>6 DEF Signal
<1>7. CASE CloseEmitter
  BY <1>3, <1>7 DEF CloseEmitter, ShutdownEmitter
<1>8. CASE StopAccepting \/ Exit
  BY <1>3, <1>8 DEF StopAccepting, Exit
<1>9. CASE UNCHANGED vars
  BY <1>3, <1>9 DEF vars
<1> QED
  BY <1>1, <1>2, <1>3, <1>4, <1>5, <1>6, <1>7, <1>8, <1>9 DEF Next

--------------------------------------------------------------------------------
(* The answers of a stream. *)

StreamState == {"closed", "recv", "count", "send", "ended"}

(* The answer in work, if any. *)
InWork(answer) == IF answer = None THEN <<>> ELSE <<answer>>

InOrder(at, answer, channel, hears, expected) ==
    /\ answer = None <=> at \notin {"count", "send"}
    /\ Len(channel) <= AckCapacity
    /\ IF hears THEN expected = channel \o InWork(answer)
                ELSE channel = <<>> /\ expected = <<>>

StreamsInv ==
    /\ stream \in [Stream -> StreamState]
    /\ reply \in [Stream -> Answers \union {None}]
    /\ acks \in [Stream -> Seq(Answers)]
    /\ listening \in [Stream -> BOOLEAN]
    /\ due \in [Stream -> Seq(Answers)]
    /\ \A s \in Stream : InOrder(stream[s], reply[s], acks[s], listening[s], due[s])

(* A step changes one stream. *)
LEMMA StreamUpdate ==
    ASSUME StreamsInv, NEW s \in Stream, NEW at \in StreamState,
           NEW answer \in Answers \union {None}, NEW channel \in Seq(Answers),
           NEW hears \in BOOLEAN, NEW expected \in Seq(Answers),
           stream' = [stream EXCEPT ![s] = at], reply' = [reply EXCEPT ![s] = answer],
           acks' = [acks EXCEPT ![s] = channel], listening' = [listening EXCEPT ![s] = hears],
           due' = [due EXCEPT ![s] = expected],
           InOrder(at, answer, channel, hears, expected)
    PROVE  StreamsInv'
<1>1. /\ stream' \in [Stream -> StreamState] /\ reply' \in [Stream -> Answers \union {None}]
      /\ acks' \in [Stream -> Seq(Answers)] /\ listening' \in [Stream -> BOOLEAN]
      /\ due' \in [Stream -> Seq(Answers)]
  BY DEF StreamsInv
<1>2. ASSUME NEW t \in Stream
      PROVE  InOrder(stream'[t], reply'[t], acks'[t], listening'[t], due'[t])
  <2>1. CASE t = s
    <3>1. /\ stream'[t] = at /\ reply'[t] = answer /\ acks'[t] = channel
          /\ listening'[t] = hears /\ due'[t] = expected
      BY <2>1 DEF StreamsInv
    <3> QED
      BY <3>1
  <2>2. CASE t # s
    <3>1. /\ stream'[t] = stream[t] /\ reply'[t] = reply[t] /\ acks'[t] = acks[t]
          /\ listening'[t] = listening[t] /\ due'[t] = due[t]
      BY <2>2 DEF StreamsInv
    <3> QED
      BY <3>1 DEF StreamsInv
  <2> QED
    BY <2>1, <2>2
<1>3. (\A t \in Stream : InOrder(stream[t], reply[t], acks[t], listening[t], due[t]))'
  BY <1>2 DEF InOrder, InWork
<1> QED
  BY <1>1, <1>3 DEF StreamsInv

(* A stream before a step that does nothing to it. *)
LEMMA StreamSame ==
    ASSUME StreamsInv, NEW s \in Stream
    PROVE  /\ stream[s] \in StreamState /\ reply[s] \in Answers \union {None}
           /\ acks[s] \in Seq(Answers) /\ listening[s] \in BOOLEAN /\ due[s] \in Seq(Answers)
           /\ stream = [stream EXCEPT ![s] = stream[s]]
           /\ reply = [reply EXCEPT ![s] = reply[s]]
           /\ acks = [acks EXCEPT ![s] = acks[s]]
           /\ listening = [listening EXCEPT ![s] = listening[s]]
           /\ due = [due EXCEPT ![s] = due[s]]
           /\ reply[s] = None <=> stream[s] \notin {"count", "send"}
           /\ Len(acks[s]) <= AckCapacity
           /\ listening[s] => due[s] = acks[s] \o InWork(reply[s])
           /\ ~listening[s] => acks[s] = <<>> /\ due[s] = <<>>
<1>1. /\ stream \in [Stream -> StreamState] /\ reply \in [Stream -> Answers \union {None}]
      /\ acks \in [Stream -> Seq(Answers)] /\ listening \in [Stream -> BOOLEAN]
      /\ due \in [Stream -> Seq(Answers)]
      /\ InOrder(stream[s], reply[s], acks[s], listening[s], due[s])
  BY DEF StreamsInv
<1> QED
  BY <1>1 DEF InOrder

(* The answer in work is a run of at most one answer. *)
LEMMA InWorkFacts ==
    /\ InWork(None) = <<>>
    /\ \A a \in Answers : a # None /\ InWork(a) = <<a>>
    /\ \A q \in Seq(Answers) : q \o <<>> = q
    /\ \A q \in Seq(Answers), a \in Answers : q \o <<a>> = Append(q, a)
<1>1. \A a \in Answers : a # None
  BY NoneAssumption DEF Answers
<1>2. \A q \in Seq(Answers) : q \o <<>> = q
  BY ConcatEmptySeq
<1>3. ASSUME NEW q \in Seq(Answers), NEW a \in Answers PROVE q \o <<a>> = Append(q, a)
  BY AppendIsConcat
<1> QED
  BY <1>1, <1>2, <1>3 DEF InWork

(* A batch is received. *)
LEMMA RecvOrder ==
    ASSUME StreamsInv, StoredType, NEW s \in Stream, RecvBatch(s)
    PROVE  StreamsInv'
<1>1. PICK p \in UNION {ProcessBatch(request) : request \in Requests} :
        /\ reply' = [reply EXCEPT ![s] = Answer(p)]
        /\ due' = [due EXCEPT ![s] = IF listening[s] THEN Append(due[s], Answer(p)) ELSE <<>>]
        /\ \E at \in {"send", "count"} : stream' = [stream EXCEPT ![s] = at]
  BY DEF RecvBatch
<1>2. PICK request \in Requests : p \in ProcessBatch(request)
  BY Zenon
<1>3. PICK a : a = Answer(p)
  OBVIOUS
<1>4. a \in Answers
  BY <1>2, <1>3, BatchLemma
<1>5. PICK at \in {"send", "count"} : stream' = [stream EXCEPT ![s] = at]
  BY <1>1
<1>6. PICK expected : expected = IF listening[s] THEN Append(due[s], a) ELSE <<>>
  OBVIOUS
<1>7. stream[s] = "recv" /\ acks' = acks /\ listening' = listening
  BY DEF RecvBatch
<1>8. due[s] \in Seq(Answers) /\ acks[s] \in Seq(Answers) /\ listening[s] \in BOOLEAN
  BY StreamSame
<1>9. expected \in Seq(Answers)
  BY <1>4, <1>6, <1>8, AppendProperties, EmptySeq
<1>10. reply[s] = None
  BY <1>7, StreamSame
<1>11. listening[s] => due[s] = acks[s]
  BY <1>8, <1>10, InWorkFacts, StreamSame
<1>12. listening[s] => expected = acks[s] \o InWork(a)
  BY <1>4, <1>6, <1>8, <1>11, InWorkFacts
<1>13. InOrder(at, a, acks[s], listening[s], expected)
  <2>1. Len(acks[s]) <= AckCapacity /\ (~listening[s] => acks[s] = <<>>)
    BY StreamSame
  <2>2. a # None
    BY <1>4, InWorkFacts
  <2> QED
    BY <1>5, <1>6, <1>12, <2>1, <2>2 DEF InOrder
<1>14. /\ acks' = [acks EXCEPT ![s] = acks[s]] /\ listening' = [listening EXCEPT ![s] = listening[s]]
  BY <1>7, StreamSame
<1>15. reply' = [reply EXCEPT ![s] = a] /\ due' = [due EXCEPT ![s] = expected]
  BY <1>1, <1>3, <1>6
<1>16. at \in StreamState /\ a \in Answers \union {None}
  BY <1>4, <1>5 DEF StreamState
<1> QED
  BY <1>5, <1>8, <1>9, <1>13, <1>14, <1>15, <1>16, StreamUpdate, ZenonT(60)

(* The client reads an answer: the first one it is due. *)
LEMMA ReadOrder ==
    ASSUME StreamsInv, NEW s \in Stream, ReadAnswer(s)
    PROVE  StreamsInv'
<1>1. /\ listening[s] /\ acks[s] # <<>> /\ acks' = [acks EXCEPT ![s] = Tail(acks[s])]
      /\ due' = [due EXCEPT ![s] = Tail(due[s])]
      /\ stream' = stream /\ reply' = reply /\ listening' = listening
  BY DEF ReadAnswer
<1>2. PICK q, d, w : q = acks[s] /\ d = due[s] /\ w = InWork(reply[s])
  OBVIOUS
<1>3. q \in Seq(Answers) /\ d \in Seq(Answers) /\ Len(q) <= AckCapacity /\ d = q \o w
  BY <1>1, <1>2, StreamSame
<1>4. w \in Seq(Answers)
  <2>1. reply[s] \in Answers \union {None}
    BY StreamSame
  <2> QED
    BY <1>2, <2>1, EmptySeq DEF InWork
<1>5. PICK first, rest : first = <<Head(q)>> /\ rest = Tail(q)
  OBVIOUS
<1>6. /\ first \in Seq(Answers) /\ rest \in Seq(Answers) /\ Len(rest) = Len(q) - 1
  BY <1>1, <1>2, <1>3, <1>5, HeadTailProperties
<1>7. q = first \o rest
  BY <1>1, <1>2, <1>3, <1>5, HeadTailProperties
<1>8. (first \o rest) \o w = first \o (rest \o w)
  BY <1>4, <1>6, ConcatAssociative, SMTT(30)
<1>9. rest \o w \in Seq(Answers)
  BY <1>4, <1>6, ConcatProperties
<1>10. Tail(d) = rest \o w
  <2>1. PICK x : x = rest \o w
    OBVIOUS
  <2>2. x \in Seq(Answers) /\ Head(q) \in Answers
    BY <1>1, <1>2, <1>3, <1>9, <2>1, HeadTailProperties
  <2>3. d = <<Head(q)>> \o x
    BY <1>3, <1>5, <1>7, <1>8, <2>1
  <2>4. Tail(<<Head(q)>> \o x) = x
    BY <2>2, HeadTailProperties
  <2> QED
    BY <2>1, <2>3, <2>4
<1>11. Len(rest) <= AckCapacity
  <2>1. Len(q) \in Nat /\ AckCapacity \in Nat
    BY <1>3, LenProperties, GatewayAssumption
  <2> QED
    BY <1>3, <1>6, <2>1
<1>12. InOrder(stream[s], reply[s], rest, listening[s], rest \o w)
  BY <1>1, <1>2, <1>11, StreamSame DEF InOrder
<1>13. /\ acks' = [acks EXCEPT ![s] = rest] /\ due' = [due EXCEPT ![s] = rest \o w]
  BY <1>1, <1>2, <1>5, <1>10
<1>14. /\ stream' = [stream EXCEPT ![s] = stream[s]] /\ reply' = [reply EXCEPT ![s] = reply[s]]
       /\ listening' = [listening EXCEPT ![s] = listening[s]]
       /\ stream[s] \in StreamState /\ reply[s] \in Answers \union {None} /\ listening[s] \in BOOLEAN
  BY <1>1, StreamSame
<1> QED
  BY <1>6, <1>9, <1>12, <1>13, <1>14, StreamUpdate

(* The steps that send an answer, or find nobody to send it to. *)
LEMMA SendOrder ==
    ASSUME StreamsInv, NEW s \in Stream, SendReply(s) \/ SendFails(s)
    PROVE  StreamsInv'
<1>1. CASE SendReply(s)
  <2>1. /\ stream[s] = "send" /\ listening[s] /\ Len(acks[s]) < AckCapacity
        /\ acks' = [acks EXCEPT ![s] = Append(acks[s], reply[s])]
        /\ stream' = [stream EXCEPT ![s] = "recv"] /\ reply' = [reply EXCEPT ![s] = None]
        /\ listening' = listening /\ due' = due
    BY <1>1 DEF SendReply, streamHistory
  <2>2. PICK a, q : a = reply[s] /\ q = acks[s]
    OBVIOUS
  <2>3. a \in Answers /\ q \in Seq(Answers) /\ due[s] = q \o InWork(a) /\ due[s] \in Seq(Answers)
    BY <2>1, <2>2, StreamSame
  <2>4. Append(q, a) \in Seq(Answers) /\ Len(Append(q, a)) = Len(q) + 1 /\ Len(q) \in Nat
    BY <2>3, AppendProperties, LenProperties
  <2>5. due[s] = Append(q, a)
    BY <2>3, InWorkFacts
  <2>6. Append(q, a) \o <<>> = Append(q, a)
    BY <2>4, ConcatEmptySeq
  <2>7. Len(Append(q, a)) <= AckCapacity
    BY <2>1, <2>2, <2>4, GatewayAssumption
  <2>8. due[s] = Append(q, a) \o InWork(None)
    BY <2>5, <2>6, InWorkFacts
  <2>9. InOrder("recv", None, Append(q, a), listening[s], due[s])
    BY <2>1, <2>7, <2>8 DEF InOrder
  <2>10. /\ listening' = [listening EXCEPT ![s] = listening[s]] /\ due' = [due EXCEPT ![s] = due[s]]
         /\ listening[s] \in BOOLEAN
    BY <2>1, StreamSame
  <2>11. "recv" \in StreamState /\ None \in Answers \union {None}
    BY DEF StreamState
  <2> QED
    BY <2>1, <2>2, <2>3, <2>4, <2>9, <2>10, <2>11, StreamUpdate
<1>2. CASE SendFails(s)
  <2>1. /\ ~listening[s] /\ reply' = [reply EXCEPT ![s] = None]
        /\ \E at \in {"ended", "recv"} : stream' = [stream EXCEPT ![s] = at]
        /\ acks' = acks /\ listening' = listening /\ due' = due
    BY <1>2 DEF SendFails, streamHistory
  <2>2. PICK at \in {"ended", "recv"} : stream' = [stream EXCEPT ![s] = at]
    BY <2>1
  <2>3. /\ acks' = [acks EXCEPT ![s] = acks[s]] /\ listening' = [listening EXCEPT ![s] = listening[s]]
        /\ due' = [due EXCEPT ![s] = due[s]]
        /\ acks[s] \in Seq(Answers) /\ listening[s] \in BOOLEAN /\ due[s] \in Seq(Answers)
    BY <2>1, StreamSame
  <2>4. acks[s] = <<>> /\ due[s] = <<>> /\ Len(acks[s]) <= AckCapacity
    BY <2>1, StreamSame
  <2>5. InOrder(at, None, acks[s], listening[s], due[s])
    BY <2>1, <2>2, <2>4 DEF InOrder
  <2>6. at \in StreamState /\ None \in Answers \union {None}
    BY <2>2 DEF StreamState
  <2>7. reply' = [reply EXCEPT ![s] = None] /\ stream' = [stream EXCEPT ![s] = at]
    BY <2>1, <2>2
  <2> QED
    BY <2>3, <2>5, <2>6, <2>7, StreamUpdate
<1> QED
  BY <1>1, <1>2

(* The steps that only move the stream's task on. *)
LEMMA MoveOrder ==
    ASSUME StreamsInv, NEW s \in Stream, OpenStream(s) \/ CountBatch(s) \/ EndStream(s)
    PROVE  StreamsInv'
<1>1. PICK at \in StreamState, hears \in BOOLEAN :
        /\ stream' = [stream EXCEPT ![s] = at] /\ listening' = [listening EXCEPT ![s] = hears]
        /\ at \in {"count", "send"} <=> stream[s] \in {"count", "send"}
        /\ hears = listening[s] \/ (hears /\ stream[s] = "closed")
        /\ UNCHANGED <<reply, acks, due>>
  <2>1. "recv" \in StreamState /\ "send" \in StreamState /\ "ended" \in StreamState
    BY DEF StreamState
  <2>2. listening = [listening EXCEPT ![s] = listening[s]] /\ listening[s] \in BOOLEAN
    BY StreamSame
  <2>3. CASE OpenStream(s)
    BY <2>1, <2>3 DEF OpenStream, streamHistory
  <2>4. CASE CountBatch(s)
    BY <2>1, <2>2, <2>4 DEF CountBatch, streamHistory
  <2>5. CASE EndStream(s)
    BY <2>1, <2>2, <2>5 DEF EndStream, streamHistory
  <2> QED
    BY <2>3, <2>4, <2>5
<1>2. /\ reply' = [reply EXCEPT ![s] = reply[s]] /\ acks' = [acks EXCEPT ![s] = acks[s]]
      /\ due' = [due EXCEPT ![s] = due[s]]
      /\ reply[s] \in Answers \union {None} /\ acks[s] \in Seq(Answers) /\ due[s] \in Seq(Answers)
  BY <1>1, StreamSame
<1>3. reply[s] = None <=> at \notin {"count", "send"}
  BY <1>1, StreamSame
<1>4. Len(acks[s]) <= AckCapacity
  BY StreamSame
<1>5. IF hears THEN due[s] = acks[s] \o InWork(reply[s]) ELSE acks[s] = <<>> /\ due[s] = <<>>
  <2>1. CASE hears = listening[s]
    BY <1>1, <2>1, StreamSame
  <2>2. CASE hears /\ stream[s] = "closed" /\ ~listening[s]
    <3>1. reply[s] = None /\ acks[s] = <<>> /\ due[s] = <<>>
      BY <2>2, StreamSame
    <3>2. <<>> \o <<>> = <<>>
      BY EmptySeq, ConcatEmptySeq
    <3> QED
      BY <2>2, <3>1, <3>2, InWorkFacts
  <2>3. listening[s] \in BOOLEAN
    BY StreamSame
  <2> QED
    BY <1>1, <2>1, <2>2, <2>3
<1>6. InOrder(at, reply[s], acks[s], hears, due[s])
  BY <1>3, <1>4, <1>5 DEF InOrder
<1>7. stream' = [stream EXCEPT ![s] = at] /\ listening' = [listening EXCEPT ![s] = hears]
  BY <1>1
<1> QED
  BY <1>2, <1>6, <1>7, StreamUpdate, ZenonT(60)

(* The client goes away. *)
LEMMA DisconnectOrder ==
    ASSUME StreamsInv, NEW s \in Stream, Disconnect(s)
    PROVE  StreamsInv'
<1>1. /\ listening' = [listening EXCEPT ![s] = FALSE] /\ acks' = [acks EXCEPT ![s] = <<>>]
      /\ due' = [due EXCEPT ![s] = <<>>] /\ stream' = stream /\ reply' = reply
  BY DEF Disconnect
<1>2. /\ stream' = [stream EXCEPT ![s] = stream[s]] /\ reply' = [reply EXCEPT ![s] = reply[s]]
      /\ stream[s] \in StreamState /\ reply[s] \in Answers \union {None}
      /\ reply[s] = None <=> stream[s] \notin {"count", "send"}
  BY <1>1, StreamSame
<1>3. <<>> \in Seq(Answers) /\ Len(<<>>) = 0 /\ 0 <= AckCapacity
  BY EmptySeq, GatewayAssumption
<1>4. InOrder(stream[s], reply[s], <<>>, FALSE, <<>>)
  BY <1>2, <1>3 DEF InOrder
<1> QED
  BY <1>1, <1>2, <1>3, <1>4, StreamUpdate

(* Every step keeps every stream in order. *)
LEMMA StreamsStep ==
    ASSUME StreamsInv, StoredType, [Next]_vars
    PROVE  StreamsInv'
<1>1. ASSUME NEW s \in Stream, StreamNext(s) PROVE StreamsInv'
  <2>1. CASE RecvBatch(s)
    BY <2>1, RecvOrder
  <2>2. CASE SendReply(s) \/ SendFails(s)
    BY <2>2, SendOrder
  <2>3. CASE OpenStream(s) \/ CountBatch(s) \/ EndStream(s)
    BY <2>3, MoveOrder
  <2>4. CASE ReadAnswer(s)
    BY <2>4, ReadOrder
  <2>5. CASE Disconnect(s)
    BY <2>5, DisconnectOrder
  <2> QED
    BY <1>1, <2>1, <2>2, <2>3, <2>4, <2>5 DEF StreamNext, StreamTask
<1>2. ASSUME UNCHANGED streamVars PROVE StreamsInv'
  BY <1>2 DEF StreamsInv, streamVars, streamHistory
<1>3. ASSUME NEW c \in Caller, UnaryNext(c) PROVE UNCHANGED streamVars
  BY <1>3 DEF UnaryNext, SendEvent, CountEvent
<1>4. CASE Forward \/ Emit
  BY <1>2, <1>4 DEF Forward, Emit
<1>5. CASE Signal \/ CloseEmitter \/ StopAccepting \/ Exit
  BY <1>2, <1>5 DEF Signal, CloseEmitter, StopAccepting, Exit
<1>6. CASE UNCHANGED vars
  BY <1>2, <1>6 DEF vars
<1> QED
  BY <1>1, <1>2, <1>3, <1>4, <1>5, <1>6 DEF Next

--------------------------------------------------------------------------------
(* What is counted. *)

UnaryInv ==
    /\ unary \in [Caller -> {"idle", "count"}]
    /\ held \in [Caller -> Nat]
    /\ \A c \in Caller : held[c] = 0 <=> unary[c] = "idle"

(* What is about to be counted, and what a caller was told is dropped, has *)
(* been stored; a batch has as many places as its answer has ids.          *)
PlacesInv ==
    /\ placed \in [Stream -> SUBSET Nat]
    /\ \A c \in Caller : unary[c] = "count" => held[c] \in DOMAIN stored
    /\ \A s \in Stream : stream[s] = "count" =>
         placed[s] \subseteq DOMAIN stored /\ Cardinality(placed[s]) = Len(reply[s].event_ids)
    /\ exhausted \subseteq DOMAIN stored

(* An answer that is due speaks of events stored together. *)
Promised ==
    \A s \in Stream : \A k \in DOMAIN due[s] : StoredTogether(due[s][k].event_ids)

(* No two calls are about to count the same event, nor one that its caller *)
(* was told is dropped.                                                    *)
Apart ==
    /\ \A c, d \in Caller :
         c # d /\ unary[c] = "count" /\ unary[d] = "count" => held[c] # held[d]
    /\ \A c \in Caller, s \in Stream :
         unary[c] = "count" /\ stream[s] = "count" => held[c] \notin placed[s]
    /\ \A s, t \in Stream :
         s # t /\ stream[s] = "count" /\ stream[t] = "count" => placed[s] \cap placed[t] = {}
    /\ \A x \in exhausted : x \notin Uncounted

Tally == events_processed = Cardinality(DOMAIN stored \ (Uncounted \union exhausted))

CountInv == UnaryInv /\ PlacesInv /\ Promised /\ Apart /\ Tally

(* Who is about to count, place by place. *)
LEMMA UncountedMember ==
    \A x : x \in Uncounted <=> \/ \E c \in Caller : unary[c] = "count" /\ x = held[c]
                               \/ \E s \in Stream : stream[s] = "count" /\ x \in placed[s]
  BY DEF Uncounted

(* The same after a step. *)
LEMMA UncountedMemberNext ==
    \A x : x \in Uncounted' <=> \/ \E c \in Caller : unary'[c] = "count" /\ x = held'[c]
                                \/ \E s \in Stream : stream'[s] = "count" /\ x \in placed'[s]
  BY DEF Uncounted

(* Who is about to count has stored. *)
LEMMA UncountedStored ==
    ASSUME CountInv
    PROVE  Uncounted \subseteq DOMAIN stored
<1>1. \A c \in Caller : unary[c] = "count" => held[c] \in DOMAIN stored
  BY DEF CountInv, PlacesInv
<1>2. \A s \in Stream : stream[s] = "count" => placed[s] \subseteq DOMAIN stored
  BY DEF CountInv, PlacesInv
<1> QED
  BY <1>1, <1>2, UncountedMember

(* The ids in an answer are strings. *)
LEMMA DueIds ==
    ASSUME StreamsInv, NEW s \in Stream
    PROVE  \A k \in DOMAIN due[s] : due[s][k].event_ids \in Seq(STRING)
<1>1. PICK d : d = due[s]
  OBVIOUS
<1>2. d \in Seq(Answers)
  BY <1>1, StreamSame
<1>3. \A k \in DOMAIN d : d[k] \in Answers
  BY <1>2, LenProperties, ElementOfSeq
<1>4. \A k \in DOMAIN d : d[k].event_ids \in Seq(STRING)
  BY <1>3 DEF Answers
<1> QED
  BY <1>1, <1>4

(* A unary call stores its event. *)
LEMMA SendEventCount ==
    ASSUME Storage, StreamsInv, CountInv, NEW c \in Caller, SendEvent(c)
    PROVE  CountInv'
<1>0. /\ unary[c] = "idle" /\ events_processed' = events_processed
      /\ stream' = stream /\ reply' = reply /\ due' = due /\ placed' = placed
  BY DEF SendEvent, streamVars, streamHistory
<1>1. ASSUME UNCHANGED <<stored, unaryVars, exhausted>> PROVE CountInv'
  <2>1. Uncounted' = Uncounted
    BY <1>0, <1>1 DEF Uncounted, unaryVars
  <2>2. UnaryInv' /\ PlacesInv'
    BY <1>0, <1>1 DEF CountInv, UnaryInv, PlacesInv, unaryVars
  <2>3. Apart' /\ Tally'
    BY <1>0, <1>1, <2>1 DEF CountInv, Apart, Tally, unaryVars
  <2>4. Promised'
    BY <1>0, <1>1 DEF CountInv, Promised, StoredTogether
  <2> QED
    BY <2>2, <2>3, <2>4 DEF CountInv
<1>2. ASSUME NEW request \in Requests, NEW p \in ProcessEvent(request), p.status = "ok",
             PushEvents(p.events),
             \/ exhausted' = exhausted \union Places(p.events) /\ UNCHANGED unaryVars
             \/ /\ unary' = [unary EXCEPT ![c] = "count"]
                /\ held' = [held EXCEPT ![c] = Len(stored')]
                /\ UNCHANGED exhausted
      PROVE  CountInv'
  <2>1. StoredType /\ messages \in Seq(Wire) /\ dropped \in Nat
    BY DEF Storage
  <2>2. PICK events : events = p.events
    OBVIOUS
  <2>3. Fits(events) /\ Len(events) = 1
    BY <1>2, <2>1, <2>2, EventLemma
  <2>4. events \in Seq(Event)
    BY <2>3 DEF Fits
  <2>5. PICK x : x = Len(stored) + 1
    OBVIOUS
  <2>6. Len(stored) \in Nat /\ x \in Nat /\ x # 0
    BY <2>1, <2>5, StoredPlaces
  <2>7. stored' = stored \o events /\ stored \in Seq(Event)
    BY <1>2, <2>1, <2>2, <2>3, PushEventsLemma DEF StoredType
  <2>8. Len(stored') = x /\ Places(events) = {x}
    <3>1. Len(stored \o events) = Len(stored) + Len(events)
      BY <2>4, <2>7, ConcatProperties
    <3>2. Places(events) = x .. x
      BY <2>3, <2>5 DEF Places
    <3>3. x .. x = {x}
      BY <2>6
    <3> QED
      BY <2>3, <2>5, <2>7, <3>1, <3>2, <3>3
  <2>9. x \notin DOMAIN stored /\ DOMAIN stored' = DOMAIN stored \union {x}
    <3>1. Places(events) \cap DOMAIN stored = {}
      BY <2>1, <2>3, NewPlaces
    <3>2. DOMAIN (stored \o events) = DOMAIN stored \union Places(events)
      BY <2>1, <2>3, NewPlaces
    <3> QED
      BY <2>7, <2>8, <3>1, <3>2
  <2>10. Uncounted \subseteq DOMAIN stored /\ exhausted \subseteq DOMAIN stored
    BY UncountedStored DEF CountInv, PlacesInv
  <2>11. Promised'
    <3>1. \A ids \in Seq(STRING) : StoredTogether(ids) => StoredTogether(ids)'
      BY <2>1, <2>3, <2>7, TogetherLemma
    <3> DEFINE Kept(ids) == \E q \in 0 .. Len(stored') - Len(ids) :
                              \A k \in DOMAIN ids : ids[k] = stored'[q + k].id
    <3>2. \A ids : StoredTogether(ids)' <=> Kept(ids)
      BY DEF StoredTogether
    <3>3. \A s \in Stream : \A k \in DOMAIN due[s] : due[s][k].event_ids \in Seq(STRING)
      BY DueIds
    <3>4. \A s \in Stream : \A k \in DOMAIN due[s] : Kept(due[s][k].event_ids)
      BY <3>1, <3>2, <3>3 DEF CountInv, Promised
    <3> QED
      BY <1>0, <3>4 DEF Promised, StoredTogether
  <2>12. CASE exhausted' = exhausted \union Places(p.events) /\ UNCHANGED unaryVars
    <3>1. unary' = unary /\ held' = held /\ exhausted' = exhausted \union {x}
      BY <2>2, <2>8, <2>12 DEF unaryVars
    <3>2. Uncounted' = Uncounted
      BY <1>0, <3>1 DEF Uncounted
    <3>3. UnaryInv' /\ PlacesInv'
      BY <1>0, <2>9, <3>1 DEF CountInv, UnaryInv, PlacesInv
    <3>4. Apart'
      BY <1>0, <2>9, <2>10, <3>1, <3>2 DEF CountInv, Apart
    <3>5. DOMAIN stored' \ (Uncounted' \union exhausted')
            = DOMAIN stored \ (Uncounted \union exhausted)
      BY <2>9, <2>10, <3>1, <3>2
    <3>6. Tally'
      BY <1>0, <3>5 DEF CountInv, Tally
    <3> QED
      BY <2>11, <3>3, <3>4, <3>6 DEF CountInv
  <2>13. CASE /\ unary' = [unary EXCEPT ![c] = "count"]
              /\ held' = [held EXCEPT ![c] = Len(stored')]
              /\ UNCHANGED exhausted
    <3>1. /\ unary \in [Caller -> {"idle", "count"}] /\ held \in [Caller -> Nat]
      BY DEF CountInv, UnaryInv
    <3>2. /\ unary'[c] = "count" /\ held'[c] = x /\ exhausted' = exhausted
          /\ \A d \in Caller : d # c => unary'[d] = unary[d] /\ held'[d] = held[d]
      BY <2>8, <2>13, <3>1
    <3>3. Uncounted' = Uncounted \union {x}
      <4>1. \A y : y \in Uncounted' <=> y \in Uncounted \union {x}
        BY <1>0, <3>2, UncountedMember, UncountedMemberNext
      <4> QED
        BY <4>1
    <3>4. UnaryInv'
      <4>1. unary' \in [Caller -> {"idle", "count"}] /\ held' \in [Caller -> Nat]
        BY <2>6, <2>8, <2>13, <3>1
      <4>2. \A d \in Caller : held'[d] = 0 <=> unary'[d] = "idle"
        BY <2>6, <3>2 DEF CountInv, UnaryInv
      <4> QED
        BY <4>1, <4>2 DEF UnaryInv
    <3>5. PlacesInv'
      <4>1. \A d \in Caller : unary'[d] = "count" => held'[d] \in DOMAIN stored'
        BY <2>9, <3>2 DEF CountInv, PlacesInv
      <4> QED
        BY <1>0, <2>9, <3>2, <4>1 DEF CountInv, PlacesInv
    <3>6. Apart'
      <4>1. \A y \in exhausted' : y \notin Uncounted'
        BY <2>9, <2>10, <3>2, <3>3 DEF CountInv, Apart
      <4>2. /\ \A d \in Caller : unary[d] = "count" => held[d] # x
            /\ \A s \in Stream : stream[s] = "count" => x \notin placed[s]
        BY <2>9, <2>10, UncountedMember
      <4>3. \A a, d \in Caller :
              a # d /\ unary'[a] = "count" /\ unary'[d] = "count" => held'[a] # held'[d]
        BY <3>2, <4>2 DEF CountInv, Apart
      <4>4. \A d \in Caller, s \in Stream :
              unary'[d] = "count" /\ stream'[s] = "count" => held'[d] \notin placed'[s]
        BY <1>0, <3>2, <4>2 DEF CountInv, Apart
      <4>5. \A s, t \in Stream : s # t /\ stream'[s] = "count" /\ stream'[t] = "count"
              => placed'[s] \cap placed'[t] = {}
        BY <1>0 DEF CountInv, Apart
      <4> QED
        BY <4>1, <4>3, <4>4, <4>5 DEF Apart
    <3>7. DOMAIN stored' \ (Uncounted' \union exhausted')
            = DOMAIN stored \ (Uncounted \union exhausted)
      BY <2>9, <2>10, <3>2, <3>3
    <3>8. Tally'
      BY <1>0, <3>7 DEF CountInv, Tally
    <3> QED
      BY <2>11, <3>4, <3>5, <3>6, <3>8 DEF CountInv
  <2> QED
    BY <1>2, <2>12, <2>13
<1> QED
  <2>1. PICK request \in Requests : \E p \in ProcessEvent(request) :
          IF p.status # "ok"
          THEN UNCHANGED <<ringVars, stored, unaryVars, exhausted>>
          ELSE /\ PushEvents(p.events)
               /\ IF dropped' > dropped
                  THEN exhausted' = exhausted \union Places(p.events) /\ UNCHANGED unaryVars
                  ELSE /\ unary' = [unary EXCEPT ![c] = "count"]
                       /\ held' = [held EXCEPT ![c] = Len(stored')]
                       /\ UNCHANGED exhausted
    BY DEF SendEvent, EventRequests
  <2> QED
    BY <1>1, <1>2, <2>1

(* A unary call counts its event. *)
LEMMA CountEventCount ==
    ASSUME Storage, StreamsInv, CountInv, NEW c \in Caller, CountEvent(c)
    PROVE  CountInv'
<1>0. /\ unary[c] = "count" /\ events_processed' = events_processed + 1
      /\ unary' = [unary EXCEPT ![c] = "idle"] /\ held' = [held EXCEPT ![c] = 0]
      /\ stream' = stream /\ reply' = reply /\ due' = due /\ placed' = placed
      /\ stored' = stored /\ exhausted' = exhausted
  BY DEF CountEvent, streamVars, streamHistory, intake
<1>1. unary \in [Caller -> {"idle", "count"}] /\ held \in [Caller -> Nat]
  BY DEF CountInv, UnaryInv
<1>2. /\ unary'[c] = "idle" /\ held'[c] = 0
      /\ \A d \in Caller : d # c => unary'[d] = unary[d] /\ held'[d] = held[d]
  BY <1>0, <1>1
<1>3. PICK x : x = held[c]
  OBVIOUS
<1>4. x \in Uncounted
  BY <1>0, <1>3, UncountedMember
<1>5. Uncounted' = Uncounted \ {x}
  <2>1. \A d \in Caller : d # c /\ unary[d] = "count" => held[d] # x
    BY <1>0, <1>3 DEF CountInv, Apart
  <2>2. \A s \in Stream : stream[s] = "count" => x \notin placed[s]
    BY <1>0, <1>3 DEF CountInv, Apart
  <2>3. \A y : y \in Uncounted' <=> y \in Uncounted \ {x}
    BY <1>0, <1>2, <1>3, <2>1, <2>2, UncountedMember, UncountedMemberNext
  <2> QED
    BY <2>3
<1>6. UnaryInv'
  <2>1. unary' \in [Caller -> {"idle", "count"}] /\ held' \in [Caller -> Nat]
    BY <1>0, <1>1
  <2>2. \A d \in Caller : held'[d] = 0 <=> unary'[d] = "idle"
    BY <1>2 DEF CountInv, UnaryInv
  <2> QED
    BY <2>1, <2>2 DEF UnaryInv
<1>7. PlacesInv'
  BY <1>0, <1>2 DEF CountInv, PlacesInv
<1>8. Promised'
  BY <1>0 DEF CountInv, Promised, StoredTogether
<1>9. Apart'
  BY <1>0, <1>2, <1>5 DEF CountInv, Apart
<1>10. Tally'
  <2>1. PICK all, told : all = DOMAIN stored /\ told = exhausted
    OBVIOUS
  <2>2. PICK done : done = all \ (Uncounted \union told)
    OBVIOUS
  <2>3. IsFiniteSet(all) /\ Uncounted \subseteq all
    BY <2>1, StoredPlaces, UncountedStored DEF Storage
  <2>4. IsFiniteSet(done)
    BY <2>2, <2>3, FS_Subset
  <2>5. x \notin done /\ x \in all /\ x \notin told
    BY <1>4, <2>1, <2>2, <2>3 DEF CountInv, Apart
  <2>6. all \ (Uncounted' \union told) = done \union {x}
    BY <1>4, <1>5, <2>2, <2>5
  <2>7. Cardinality(done \union {x}) = Cardinality(done) + 1
    BY <2>4, <2>5, FS_AddElement
  <2>8. events_processed = Cardinality(done)
    BY <2>1, <2>2 DEF CountInv, Tally
  <2>9. events_processed' = Cardinality(all \ (Uncounted' \union told))
    BY <1>0, <2>6, <2>7, <2>8
  <2> QED
    BY <1>0, <2>1, <2>9 DEF Tally
<1> QED
  BY <1>6, <1>7, <1>8, <1>9, <1>10 DEF CountInv

(* A batch is stored. *)
LEMMA RecvCount ==
    ASSUME Storage, StreamsInv, CountInv, NEW s \in Stream, RecvBatch(s)
    PROVE  CountInv'
<1>0. /\ stream[s] = "recv" /\ events_processed' = events_processed
      /\ unary' = unary /\ held' = held /\ exhausted' = exhausted
  BY DEF RecvBatch, unaryVars
<1>1. /\ stream \in [Stream -> StreamState] /\ reply \in [Stream -> Answers \union {None}]
      /\ due \in [Stream -> Seq(Answers)] /\ placed \in [Stream -> SUBSET Nat]
  BY DEF StreamsInv, CountInv, PlacesInv
<1>2. PICK p \in UNION {ProcessBatch(request) : request \in Requests} :
        /\ reply' = [reply EXCEPT ![s] = Answer(p)]
        /\ placed' = [placed EXCEPT ![s] = Places(p.events)]
        /\ due' = [due EXCEPT ![s] = IF listening[s] THEN Append(due[s], Answer(p)) ELSE <<>>]
        /\ IF p.events = <<>>
           THEN stream' = [stream EXCEPT ![s] = "send"] /\ stored' = stored
           ELSE stream' = [stream EXCEPT ![s] = "count"] /\ PushEvents(p.events)
  BY DEF RecvBatch
<1>3. PICK request \in Requests : p \in ProcessBatch(request)
  BY Zenon
<1>4. PICK events, new, a : events = p.events /\ new = Places(p.events) /\ a = Answer(p)
  OBVIOUS
<1>5. StoredType /\ messages \in Seq(Wire) /\ dropped \in Nat /\ stored \in Seq(Event)
  BY DEF Storage, StoredType
<1>6. Fits(events) /\ a \in Answers /\ a.event_ids = Ids(events)
  BY <1>3, <1>4, <1>5, BatchLemma DEF Answer
<1>7. events \in Seq(Event) /\ Len(Ids(events)) = Len(events) /\ Ids(events) \in Seq(STRING)
  BY <1>6, IdsType DEF Fits
<1>8. new \cap DOMAIN stored = {} /\ DOMAIN (stored \o events) = DOMAIN stored \union new
  BY <1>4, <1>5, <1>6, NewPlaces
<1>9. Cardinality(new) = Len(events) /\ new \subseteq Nat
  BY <1>4, <1>5, <1>6, NewPlaces
<1>10. stored' = stored \o events
  <2>1. CASE events = <<>>
    BY <1>2, <1>4, <1>5, <2>1, ConcatEmptySeq
  <2>2. CASE events # <<>>
    BY <1>2, <1>4, <1>5, <1>6, <2>2, PushEventsLemma
  <2> QED
    BY <2>1, <2>2
<1>11. DOMAIN stored' = DOMAIN stored \union new
  BY <1>8, <1>10
<1>12. /\ reply'[s] = a /\ stream'[s] = (IF events = <<>> THEN "send" ELSE "count")
       /\ placed'[s] = new
       /\ \A t \in Stream : t # s => /\ stream'[t] = stream[t] /\ reply'[t] = reply[t]
                                     /\ due'[t] = due[t] /\ placed'[t] = placed[t]
       /\ due'[s] = IF listening[s] THEN Append(due[s], a) ELSE <<>>
  BY <1>1, <1>2, <1>4
<1>13. Uncounted' = Uncounted \union new
  <2>1. events = <<>> => new = {}
    <3>1. events = <<>> => DOMAIN (stored \o events) = DOMAIN stored
      BY <1>5, ConcatEmptySeq
    <3> QED
      BY <1>8, <3>1
  <2>2. \A x : x \in Uncounted' <=> x \in Uncounted \union new
    BY <1>0, <1>12, <2>1, UncountedMember, UncountedMemberNext
  <2> QED
    BY <2>2
<1>14. Uncounted \subseteq DOMAIN stored /\ exhausted \subseteq DOMAIN stored
  BY UncountedStored DEF CountInv, PlacesInv
<1>15. UnaryInv'
  BY <1>0 DEF CountInv, UnaryInv
<1>16. PlacesInv'
  <2>1. placed' \in [Stream -> SUBSET Nat]
    BY <1>1, <1>2, <1>4, <1>9
  <2>2. \A c \in Caller : unary'[c] = "count" => held'[c] \in DOMAIN stored'
    BY <1>0, <1>11 DEF CountInv, PlacesInv
  <2>3. ASSUME NEW t \in Stream, stream'[t] = "count"
        PROVE  /\ placed'[t] \subseteq DOMAIN stored'
               /\ Cardinality(placed'[t]) = Len(reply'[t].event_ids)
    <3>1. CASE t = s
      BY <1>6, <1>7, <1>9, <1>11, <1>12, <3>1
    <3>2. CASE t # s
      BY <1>11, <1>12, <2>3, <3>2 DEF CountInv, PlacesInv
    <3> QED
      BY <3>1, <3>2
  <2>4. exhausted' \subseteq DOMAIN stored'
    BY <1>0, <1>11, <1>14
  <2> QED
    BY <2>1, <2>2, <2>3, <2>4 DEF PlacesInv
<1>17. Promised'
  <2>1. /\ \A ids \in Seq(STRING) : StoredTogether(ids) => StoredTogether(ids)'
        /\ StoredTogether(Ids(events))'
    BY <1>5, <1>6, <1>10, TogetherLemma
  <2> DEFINE Kept(ids) == \E q \in 0 .. Len(stored') - Len(ids) :
                            \A k \in DOMAIN ids : ids[k] = stored'[q + k].id
  <2>2. \A ids : StoredTogether(ids)' <=> Kept(ids)
    BY DEF StoredTogether
  <2>3. \A t \in Stream : \A k \in DOMAIN due[t] : due[t][k].event_ids \in Seq(STRING)
    BY DueIds
  <2>4. \A t \in Stream : \A k \in DOMAIN due[t] : Kept(due[t][k].event_ids)
    BY <2>1, <2>2, <2>3 DEF CountInv, Promised
  <2>5. Kept(a.event_ids)
    BY <1>6, <2>1, <2>2
  <2> HIDE DEF Kept
  <2>6. \A k \in DOMAIN due'[s] : Kept(due'[s][k].event_ids)
    <3>1. CASE ~listening[s]
      <4>1. due'[s] = <<>>
        BY <1>12, <3>1
      <4> QED
        BY <4>1
    <3>2. CASE listening[s]
      <4>1. PICK d : d = due[s]
        OBVIOUS
      <4>2. d \in Seq(Answers) /\ due'[s] = Append(d, a)
        BY <1>1, <1>12, <3>2, <4>1
      <4>3. /\ Len(d) \in Nat /\ DOMAIN d = 1 .. Len(d)
            /\ Append(d, a) \in Seq(Answers) /\ Len(Append(d, a)) = Len(d) + 1
            /\ \A k \in 1 .. Len(d) : Append(d, a)[k] = d[k]
            /\ Append(d, a)[Len(d) + 1] = a
        BY <1>6, <4>2, LenProperties, AppendProperties
      <4>4. DOMAIN Append(d, a) = 1 .. Len(d) + 1
        BY <4>3, LenProperties
      <4>5. ASSUME NEW k \in 1 .. Len(d) + 1 PROVE Kept(Append(d, a)[k].event_ids)
        <5>1. CASE k = Len(d) + 1
          BY <2>5, <4>3, <5>1
        <5>2. CASE k \in 1 .. Len(d)
          BY <2>4, <4>1, <4>3, <5>2
        <5> QED
          BY <4>3, <5>1, <5>2
      <4> QED
        BY <4>2, <4>4, <4>5
    <3>3. listening[s] \in BOOLEAN
      BY StreamSame
    <3> QED
      BY <3>1, <3>2, <3>3
  <2>7. \A t \in Stream : \A k \in DOMAIN due'[t] : Kept(due'[t][k].event_ids)
    BY <1>12, <2>4, <2>6
  <2> QED
    BY <2>7 DEF Promised, Kept, StoredTogether
<1>18. Apart'
  <2>1. \A x \in exhausted' : x \notin Uncounted'
    BY <1>0, <1>8, <1>13, <1>14 DEF CountInv, Apart
  <2>2. /\ \A c \in Caller : unary[c] = "count" => held[c] \notin new
        /\ \A t \in Stream : stream[t] = "count" => placed[t] \cap new = {}
    <3>1. \A x \in new : x \notin Uncounted
      BY <1>8, <1>14
    <3> QED
      BY <3>1, UncountedMember
  <2>3. \A c, d \in Caller :
          c # d /\ unary'[c] = "count" /\ unary'[d] = "count" => held'[c] # held'[d]
    BY <1>0 DEF CountInv, Apart
  <2>4. \A c \in Caller, t \in Stream :
          unary'[c] = "count" /\ stream'[t] = "count" => held'[c] \notin placed'[t]
    BY <1>0, <1>12, <2>2 DEF CountInv, Apart
  <2>5. \A t, u \in Stream : t # u /\ stream'[t] = "count" /\ stream'[u] = "count"
          => placed'[t] \cap placed'[u] = {}
    BY <1>12, <2>2 DEF CountInv, Apart
  <2> QED
    BY <2>1, <2>3, <2>4, <2>5 DEF Apart
<1>19. Tally'
  <2>1. DOMAIN stored' \ (Uncounted' \union exhausted')
          = DOMAIN stored \ (Uncounted \union exhausted)
    BY <1>0, <1>8, <1>11, <1>13, <1>14
  <2> QED
    BY <1>0, <2>1 DEF CountInv, Tally
<1> QED
  BY <1>15, <1>16, <1>17, <1>18, <1>19 DEF CountInv

(* A batch is counted. *)
LEMMA CountBatchCount ==
    ASSUME Storage, StreamsInv, CountInv, NEW s \in Stream, CountBatch(s)
    PROVE  CountInv'
<1>0. /\ stream[s] = "count" /\ stream' = [stream EXCEPT ![s] = "send"]
      /\ events_processed' = events_processed + Len(reply[s].event_ids)
      /\ placed' = [placed EXCEPT ![s] = {}]
      /\ unary' = unary /\ held' = held /\ exhausted' = exhausted
      /\ reply' = reply /\ due' = due /\ stored' = stored
  BY DEF CountBatch, unaryVars, intake, streamHistory
<1>1. placed \in [Stream -> SUBSET Nat]
  BY DEF CountInv, PlacesInv
<1>2. /\ stream'[s] = "send"
      /\ \A t \in Stream : t # s => stream'[t] = stream[t] /\ placed'[t] = placed[t]
  BY <1>0, <1>1 DEF StreamsInv
<1>3. PICK new : new = placed[s]
  OBVIOUS
<1>4. new \subseteq Uncounted /\ Cardinality(new) = Len(reply[s].event_ids)
  BY <1>0, <1>3, UncountedMember DEF CountInv, PlacesInv
<1>5. Uncounted' = Uncounted \ new
  <2>1. \A c \in Caller : unary[c] = "count" => held[c] \notin new
    BY <1>0, <1>3 DEF CountInv, Apart
  <2>2. \A t \in Stream : t # s /\ stream[t] = "count" => placed[t] \cap new = {}
    BY <1>0, <1>3 DEF CountInv, Apart
  <2>3. \A x : x \in Uncounted' <=> x \in Uncounted \ new
    BY <1>0, <1>2, <1>3, <2>1, <2>2, UncountedMember, UncountedMemberNext
  <2> QED
    BY <2>3
<1>6. UnaryInv'
  BY <1>0 DEF CountInv, UnaryInv
<1>7. PlacesInv'
  <2>1. placed' \in [Stream -> SUBSET Nat]
    BY <1>0, <1>1
  <2>2. \A t \in Stream : stream'[t] = "count" =>
          placed'[t] \subseteq DOMAIN stored' /\ Cardinality(placed'[t]) = Len(reply'[t].event_ids)
    BY <1>0, <1>2 DEF CountInv, PlacesInv
  <2> QED
    BY <1>0, <2>1, <2>2 DEF CountInv, PlacesInv
<1>8. Promised'
  BY <1>0, ZenonT(60) DEF CountInv, Promised, StoredTogether
<1>9. Apart'
  BY <1>0, <1>2, <1>5 DEF CountInv, Apart
<1>10. Tally'
  <2>1. PICK all, told : all = DOMAIN stored /\ told = exhausted
    OBVIOUS
  <2>2. PICK done : done = all \ (Uncounted \union told)
    OBVIOUS
  <2>3. IsFiniteSet(all) /\ Uncounted \subseteq all
    BY <2>1, StoredPlaces, UncountedStored DEF Storage
  <2>4. IsFiniteSet(done) /\ IsFiniteSet(new)
    <3>1. done \in SUBSET all /\ new \in SUBSET all
      BY <1>4, <2>2, <2>3
    <3> QED
      BY <2>3, <3>1, FS_Subset
  <2>5. done \cap new = {} /\ new \cap told = {}
    BY <1>4, <2>1, <2>2 DEF CountInv, Apart
  <2>6. all \ (Uncounted' \union told) = done \union new
    BY <1>4, <1>5, <2>2, <2>3, <2>5
  <2>7. Cardinality(done \union new) = Cardinality(done) + Cardinality(new)
    <3>1. Cardinality(done \union new)
            = Cardinality(done) + Cardinality(new) - Cardinality(done \cap new)
      BY <2>4, FS_Union
    <3>2. Cardinality(done \cap new) = 0
      BY <2>5, FS_EmptySet
    <3>3. Cardinality(done) \in Nat /\ Cardinality(new) \in Nat
      BY <2>4, FS_CardinalityType
    <3> QED
      BY <3>1, <3>2, <3>3
  <2>8. events_processed = Cardinality(done)
    BY <2>1, <2>2 DEF CountInv, Tally
  <2>9. events_processed' = Cardinality(all \ (Uncounted' \union told))
    BY <1>0, <1>4, <2>6, <2>7, <2>8
  <2> QED
    BY <1>0, <2>1, <2>9 DEF Tally
<1> QED
  BY <1>6, <1>7, <1>8, <1>9, <1>10 DEF CountInv

(* The steps that neither store nor count. *)
LEMMA QuietCount ==
    ASSUME StreamsInv, CountInv,
           UNCHANGED <<stored, exhausted, unaryVars, events_processed, placed>>,
           \A s \in Stream :
             /\ stream'[s] = "count" <=> stream[s] = "count"
             /\ stream[s] = "count" => reply'[s] = reply[s]
             /\ \A k \in DOMAIN due'[s] : \E j \in DOMAIN due[s] : due'[s][k] = due[s][j]
    PROVE  CountInv'
<1>1. /\ stored' = stored /\ exhausted' = exhausted /\ unary' = unary /\ held' = held
      /\ events_processed' = events_processed /\ placed' = placed
  BY DEF unaryVars
<1>2. Uncounted' = Uncounted
  <2>1. \A x : x \in Uncounted' <=> x \in Uncounted
    BY <1>1, UncountedMember, UncountedMemberNext
  <2> QED
    BY <2>1
<1>3. UnaryInv'
  BY <1>1 DEF CountInv, UnaryInv
<1>4. PlacesInv'
  <2>1. \A s \in Stream : stream'[s] = "count" =>
          placed'[s] \subseteq DOMAIN stored' /\ Cardinality(placed'[s]) = Len(reply'[s].event_ids)
    BY <1>1 DEF CountInv, PlacesInv
  <2> QED
    BY <1>1, <2>1 DEF CountInv, PlacesInv
<1>5. Promised'
  <2>1. \A s \in Stream : \A k \in DOMAIN due'[s] : StoredTogether(due'[s][k].event_ids)
    BY DEF CountInv, Promised
  <2> QED
    BY <1>1, <2>1 DEF Promised, StoredTogether
<1>6. Apart'
  BY <1>1, <1>2 DEF CountInv, Apart
<1>7. Tally'
  BY <1>1, <1>2 DEF CountInv, Tally
<1> QED
  BY <1>3, <1>4, <1>5, <1>6, <1>7 DEF CountInv

(* Every step keeps the count. *)
LEMMA CountStep ==
    ASSUME Storage, StreamsInv, CountInv, [Next]_vars
    PROVE  CountInv'
<1> USE DEF intake, registryVars
<1>1. ASSUME NEW c \in Caller, UnaryNext(c) PROVE CountInv'
  BY <1>1, SendEventCount, CountEventCount DEF UnaryNext
<1>2. ASSUME NEW s \in Stream, RecvBatch(s) \/ CountBatch(s) PROVE CountInv'
  BY <1>2, RecvCount, CountBatchCount
<1>3. /\ stream \in [Stream -> StreamState] /\ reply \in [Stream -> Answers \union {None}]
      /\ acks \in [Stream -> Seq(Answers)] /\ due \in [Stream -> Seq(Answers)]
  BY DEF StreamsInv
<1>4. ASSUME NEW s \in Stream, SendReply(s) \/ SendFails(s) PROVE CountInv'
  <2>1. /\ stream[s] = "send" /\ reply' = [reply EXCEPT ![s] = None] /\ due' = due
        /\ \E at \in {"recv", "ended"} : stream' = [stream EXCEPT ![s] = at]
        /\ UNCHANGED <<stored, exhausted, unaryVars, events_processed, placed>>
    BY <1>4 DEF SendReply, SendFails, streamHistory
  <2>2. \A t \in Stream :
          /\ stream'[t] = "count" <=> stream[t] = "count"
          /\ stream[t] = "count" => reply'[t] = reply[t]
    BY <1>3, <2>1
  <2>3. \A t \in Stream : \A k \in DOMAIN due'[t] : \E j \in DOMAIN due[t] : due'[t][k] = due[t][j]
    BY <2>1
  <2> QED
    BY <2>1, <2>2, <2>3, QuietCount
<1>5. ASSUME NEW s \in Stream, OpenStream(s) \/ EndStream(s) PROVE CountInv'
  <2>1. /\ stream[s] \in {"closed", "recv"} /\ reply' = reply /\ due' = due
        /\ \E at \in {"recv", "ended"} : stream' = [stream EXCEPT ![s] = at]
        /\ UNCHANGED <<stored, exhausted, unaryVars, events_processed, placed>>
    BY <1>5 DEF OpenStream, EndStream, streamHistory
  <2>2. \A t \in Stream :
          /\ stream'[t] = "count" <=> stream[t] = "count"
          /\ stream[t] = "count" => reply'[t] = reply[t]
    BY <1>3, <2>1
  <2>3. \A t \in Stream : \A k \in DOMAIN due'[t] : \E j \in DOMAIN due[t] : due'[t][k] = due[t][j]
    BY <2>1
  <2> QED
    BY <2>1, <2>2, <2>3, QuietCount
<1>6. ASSUME NEW s \in Stream, Disconnect(s) PROVE CountInv'
  <2>1. /\ due' = [due EXCEPT ![s] = <<>>] /\ stream' = stream /\ reply' = reply
        /\ UNCHANGED <<stored, exhausted, unaryVars, events_processed, placed>>
    BY <1>6 DEF Disconnect
  <2>2. \A t \in Stream : \A k \in DOMAIN due'[t] : \E j \in DOMAIN due[t] : due'[t][k] = due[t][j]
    <3>1. due'[s] = <<>> /\ \A t \in Stream : t # s => due'[t] = due[t]
      BY <1>3, <2>1
    <3>2. DOMAIN <<>> = {}
      OBVIOUS
    <3> QED
      BY <3>1, <3>2
  <2> QED
    BY <2>1, <2>2, QuietCount
<1>7. ASSUME NEW s \in Stream, ReadAnswer(s) PROVE CountInv'
  <2>1. /\ due' = [due EXCEPT ![s] = Tail(due[s])] /\ stream' = stream /\ reply' = reply
        /\ listening[s] /\ acks[s] # <<>>
        /\ UNCHANGED <<stored, exhausted, unaryVars, events_processed, placed>>
    BY <1>7 DEF ReadAnswer
  <2>2. PICK d : d = due[s]
    OBVIOUS
  <2>3. d \in Seq(Answers)
    BY <1>3, <2>2
  <2>4. d # <<>>
    <3>1. PICK q, w : q = acks[s] /\ w = InWork(reply[s])
      OBVIOUS
    <3>2. q \in Seq(Answers) /\ w \in Seq(Answers) /\ d = q \o w
      <4>1. reply[s] \in Answers \union {None}
        BY <1>3
      <4>2. w \in Seq(Answers)
        BY <3>1, <4>1, EmptySeq DEF InWork
      <4> QED
        BY <1>3, <2>1, <2>2, <3>1, <4>2, StreamSame
    <3>3. Len(d) = Len(q) + Len(w) /\ Len(q) \in Nat /\ Len(w) \in Nat /\ Len(q) # 0
      BY <2>1, <3>1, <3>2, ConcatProperties, LenProperties, EmptySeq
    <3>4. Len(d) # 0
      BY <3>3
    <3> QED
      BY <3>4, EmptySeq
  <2>5. /\ Len(d) \in Nat /\ DOMAIN d = 1 .. Len(d)
        /\ Tail(d) \in Seq(Answers) /\ Len(Tail(d)) = Len(d) - 1
        /\ \A k \in 1 .. Len(Tail(d)) : Tail(d)[k] = d[k + 1]
    BY <2>3, <2>4, LenProperties, HeadTailProperties
  <2>6. DOMAIN Tail(d) = 1 .. Len(Tail(d))
    BY <2>5, LenProperties
  <2>7. \A k \in DOMAIN Tail(d) : \E j \in DOMAIN d : Tail(d)[k] = d[j]
    <3>1. \A k \in 1 .. Len(d) - 1 : k + 1 \in 1 .. Len(d)
      BY <2>5
    <3> QED
      BY <2>5, <2>6, <3>1
  <2>8. due'[s] = Tail(d) /\ \A t \in Stream : t # s => due'[t] = due[t]
    BY <1>3, <2>1, <2>2
  <2>9. \A t \in Stream : \A k \in DOMAIN due'[t] : \E j \in DOMAIN due[t] : due'[t][k] = due[t][j]
    <3>1. ASSUME NEW t \in Stream
          PROVE  \A k \in DOMAIN due'[t] : \E j \in DOMAIN due[t] : due'[t][k] = due[t][j]
      <4>1. CASE t = s
        <5>1. PICK r : r = Tail(d)
          OBVIOUS
        <5>2. \A k \in DOMAIN r : \E j \in DOMAIN d : r[k] = d[j]
          BY <2>7, <5>1
        <5>3. due'[t] = r /\ due[t] = d
          BY <2>2, <2>8, <4>1, <5>1
        <5> QED
          BY <5>2, <5>3
      <4>2. CASE t # s
        BY <2>8, <4>2
      <4> QED
        BY <4>1, <4>2
    <3> QED
      BY <3>1
  <2> QED
    BY <2>1, <2>9, QuietCount
<1>8. ASSUME UNCHANGED <<stored, exhausted, unaryVars, events_processed, streamVars>> PROVE CountInv'
  <2>1. stream' = stream /\ reply' = reply /\ due' = due /\ placed' = placed
    BY <1>8 DEF streamVars, streamHistory
  <2> QED
    BY <1>8, <2>1, QuietCount
<1>9. CASE Forward \/ Emit
  BY <1>8, <1>9 DEF Forward, Emit
<1>10. CASE Signal \/ CloseEmitter \/ StopAccepting \/ Exit
  BY <1>8, <1>10 DEF Signal, CloseEmitter, StopAccepting, Exit
<1>11. CASE UNCHANGED vars
  BY <1>8, <1>11 DEF vars
<1> QED
  BY <1>1, <1>2, <1>4, <1>5, <1>6, <1>7, <1>9, <1>10, <1>11 DEF Next, StreamNext, StreamTask

--------------------------------------------------------------------------------
(* The process. *)

ServerInv ==
    /\ server \in {"serving", "closing", "stopping", "exited"}
    /\ closing \in 0 .. Len(Emitters) + 1
    /\ down \subseteq DOMAIN Emitters

(* The shutdown sequence stays within its range. *)
LEMMA ServerStep ==
    ASSUME ServerInv, [Next]_vars
    PROVE  ServerInv'
<1> USE DEF intake, registryVars
<1>1. Len(Emitters) \in Nat /\ DOMAIN Emitters = 1 .. Len(Emitters)
  BY RegistryAssumption, LenProperties
<1>2. CASE Signal
  <2>1. server' = "closing" /\ closing' = 1 /\ down' = down
    BY <1>2 DEF Signal
  <2> QED
    BY <1>1, <2>1 DEF ServerInv
<1>3. CASE CloseEmitter
  <2>1. /\ closing \in DOMAIN Emitters /\ closing' = closing + 1 /\ down' = down \union {closing}
        /\ server' = server
    BY <1>3 DEF CloseEmitter, ShutdownEmitter, AfterShutdown
  <2> QED
    BY <1>1, <2>1 DEF ServerInv
<1>4. CASE StopAccepting \/ Exit
  <2>1. closing' = closing /\ down' = down /\ server' \in {"stopping", "exited"}
    BY <1>4 DEF StopAccepting, Exit
  <2> QED
    BY <2>1 DEF ServerInv
<1>5. ASSUME UNCHANGED <<closing, down, server>> PROVE ServerInv'
  BY <1>5 DEF ServerInv
<1>6. ASSUME NEW c \in Caller, UnaryNext(c) PROVE UNCHANGED <<closing, down, server>>
  BY <1>6 DEF UnaryNext, SendEvent, CountEvent
<1>7. ASSUME NEW s \in Stream, StreamNext(s) PROVE UNCHANGED <<closing, down, server>>
  BY <1>7, SMTT(30) DEF StreamNext, OpenStream, RecvBatch, StreamTask, CountBatch, SendReply, SendFails,
              EndStream, ReadAnswer, Disconnect
<1>8. CASE Forward \/ Emit
  BY <1>5, <1>8 DEF Forward, BeginEmit, Emit, CallEmitter
<1>9. CASE UNCHANGED vars
  BY <1>5, <1>9 DEF vars
<1> QED
  BY <1>2, <1>3, <1>4, <1>5, <1>6, <1>7, <1>8, <1>9 DEF Next

--------------------------------------------------------------------------------
(* A client that has left. *)

(* Where a task is that took a good batch of a client that had left: it    *)
(* has not sent the Ack yet, or has ended.                                 *)
LastBatch(at, answer) ==
    at = "ended" \/ (at \in {"count", "send"} /\ answer.status = "ok")

OrphansInv ==
    /\ orphans \in [Stream -> {0, 1}]
    /\ \A s \in Stream : orphans[s] = 1 => ~listening[s] /\ LastBatch(stream[s], reply[s])

(* Every step keeps a left client's batches to one. *)
LEMMA OrphansStep ==
    ASSUME StreamsInv, OrphansInv, StoredType, [Next]_vars
    PROVE  OrphansInv'
<1> USE DEF streamHistory
<1>0. /\ stream \in [Stream -> StreamState] /\ reply \in [Stream -> Answers \union {None}]
      /\ listening \in [Stream -> BOOLEAN] /\ orphans \in [Stream -> {0, 1}]
  BY DEF StreamsInv, OrphansInv
<1>1. ASSUME NEW s \in Stream, orphans' = orphans, OrphansInv,
             \A t \in Stream : t # s => /\ stream'[t] = stream[t] /\ reply'[t] = reply[t]
                                        /\ listening'[t] = listening[t],
             orphans[s] = 1 => ~listening'[s] /\ LastBatch(stream'[s], reply'[s])
      PROVE  OrphansInv'
  <2>1. \A t \in Stream : orphans'[t] = 1 => ~listening'[t] /\ LastBatch(stream'[t], reply'[t])
    BY <1>1 DEF OrphansInv
  <2> QED
    BY <1>0, <1>1, <2>1 DEF OrphansInv, LastBatch
<1>2. ASSUME NEW s \in Stream, RecvBatch(s) PROVE OrphansInv'
  <2>1. PICK p : /\ reply' = [reply EXCEPT ![s] = Answer(p)]
                 /\ orphans' = [orphans EXCEPT ![s] =
                                  IF ~listening[s] /\ p.status = "ok" THEN orphans[s] + 1 ELSE orphans[s]]
                 /\ \E at \in {"send", "count"} : stream' = [stream EXCEPT ![s] = at]
    BY <1>2 DEF RecvBatch
  <2>2. PICK at \in {"send", "count"} : stream' = [stream EXCEPT ![s] = at]
    BY <2>1
  <2>3. stream[s] = "recv" /\ listening' = listening
    BY <1>2 DEF RecvBatch
  <2>4. orphans[s] = 0
    BY <1>0, <2>3 DEF OrphansInv, LastBatch
  <2>5. /\ reply'[s].status = p.status /\ stream'[s] = at
        /\ orphans'[s] = IF ~listening[s] /\ p.status = "ok" THEN 1 ELSE 0
        /\ \A t \in Stream : t # s => /\ stream'[t] = stream[t] /\ reply'[t] = reply[t]
                                      /\ orphans'[t] = orphans[t]
    BY <1>0, <2>1, <2>2, <2>4 DEF Answer
  <2>6. orphans' \in [Stream -> {0, 1}]
    BY <1>0, <2>1, <2>4
  <2>7. \A t \in Stream : orphans'[t] = 1 => ~listening'[t] /\ LastBatch(stream'[t], reply'[t])
    BY <2>2, <2>3, <2>5 DEF OrphansInv, LastBatch
  <2> QED
    BY <2>6, <2>7 DEF OrphansInv, LastBatch
<1>3. ASSUME NEW s \in Stream, CountBatch(s) PROVE OrphansInv'
  <2>1. /\ stream[s] = "count" /\ stream' = [stream EXCEPT ![s] = "send"]
        /\ orphans' = orphans /\ reply' = reply /\ listening' = listening
    BY <1>3 DEF CountBatch
  <2>2. orphans[s] = 1 => ~listening'[s] /\ LastBatch(stream'[s], reply'[s])
    BY <1>0, <2>1 DEF OrphansInv, LastBatch
  <2>3. \A t \in Stream : t # s => stream'[t] = stream[t]
    BY <1>0, <2>1
  <2> QED
    BY <1>1, <2>1, <2>2, <2>3
<1>4. ASSUME NEW s \in Stream, SendReply(s) PROVE OrphansInv'
  <2>1. /\ listening[s] /\ stream' = [stream EXCEPT ![s] = "recv"]
        /\ reply' = [reply EXCEPT ![s] = None]
        /\ orphans' = orphans /\ listening' = listening
    BY <1>4 DEF SendReply
  <2>2. orphans[s] # 1
    BY <2>1 DEF OrphansInv
  <2>3. \A t \in Stream : t # s => stream'[t] = stream[t] /\ reply'[t] = reply[t]
    BY <1>0, <2>1
  <2> QED
    BY <1>1, <2>1, <2>2, <2>3
<1>5. ASSUME NEW s \in Stream, SendFails(s) PROVE OrphansInv'
  <2>1. /\ ~listening[s] /\ stream[s] = "send" /\ reply' = [reply EXCEPT ![s] = None]
        /\ stream' = [stream EXCEPT ![s] = IF reply[s].status = "ok" THEN "ended" ELSE "recv"]
        /\ orphans' = orphans /\ listening' = listening
    BY <1>5 DEF SendFails
  <2>2. orphans[s] = 1 => ~listening'[s] /\ LastBatch(stream'[s], reply'[s])
    BY <1>0, <2>1 DEF OrphansInv, LastBatch
  <2>3. \A t \in Stream : t # s => stream'[t] = stream[t] /\ reply'[t] = reply[t]
    BY <1>0, <2>1
  <2> QED
    BY <1>1, <2>1, <2>2, <2>3
<1>6. ASSUME NEW s \in Stream, OpenStream(s) \/ EndStream(s) PROVE OrphansInv'
  <2>1. /\ stream[s] \in {"closed", "recv"} /\ orphans' = orphans /\ reply' = reply
        /\ \E at : stream' = [stream EXCEPT ![s] = at]
        /\ \E hears : listening' = [listening EXCEPT ![s] = hears]
    <3>1. listening = [listening EXCEPT ![s] = listening[s]]
      BY <1>0
    <3> QED
      BY <1>6, <3>1 DEF OpenStream, EndStream
  <2>2. orphans[s] # 1
    BY <2>1 DEF OrphansInv, LastBatch
  <2>3. \A t \in Stream : t # s => stream'[t] = stream[t] /\ listening'[t] = listening[t]
    BY <1>0, <2>1
  <2> QED
    BY <1>1, <2>1, <2>2, <2>3
<1>7. ASSUME NEW s \in Stream, Disconnect(s) PROVE OrphansInv'
  <2>1. /\ listening' = [listening EXCEPT ![s] = FALSE]
        /\ orphans' = orphans /\ reply' = reply /\ stream' = stream
    BY <1>7 DEF Disconnect
  <2>2. orphans[s] = 1 => ~listening'[s] /\ LastBatch(stream'[s], reply'[s])
    BY <1>0, <2>1 DEF OrphansInv
  <2>3. \A t \in Stream : t # s => listening'[t] = listening[t]
    BY <1>0, <2>1
  <2> QED
    BY <1>1, <2>1, <2>2, <2>3
<1>8. ASSUME UNCHANGED <<stream, reply, listening, orphans>> PROVE OrphansInv'
  BY <1>8 DEF OrphansInv, LastBatch
<1>9. ASSUME NEW s \in Stream, ReadAnswer(s) PROVE OrphansInv'
  BY <1>8, <1>9 DEF ReadAnswer
<1>10. ASSUME NEW c \in Caller, UnaryNext(c) PROVE OrphansInv'
  BY <1>8, <1>10 DEF UnaryNext, SendEvent, CountEvent, streamVars
<1>11. CASE Forward \/ Emit
  BY <1>8, <1>11 DEF Forward, Emit, streamVars
<1>12. CASE Signal \/ CloseEmitter \/ StopAccepting \/ Exit
  BY <1>8, <1>12 DEF Signal, CloseEmitter, StopAccepting, Exit, streamVars
<1>13. CASE UNCHANGED vars
  BY <1>8, <1>13 DEF vars, streamVars
<1> QED
  BY <1>2, <1>3, <1>4, <1>5, <1>6, <1>7, <1>9, <1>10, <1>11, <1>12, <1>13
     DEF Next, StreamNext, StreamTask

(* The inductive invariant. *)
Inv == Storage /\ RegistryInv /\ StreamsInv /\ CountInv /\ ServerInv /\ OrphansInv

(* The initial state of the process satisfies the invariant. *)
LEMMA InitInv == Init => Inv
<1> SUFFICES ASSUME Init PROVE Inv
  OBVIOUS
<1> USE DEF Init, RingInit, RegistryInit
<1>1. <<>> \in Seq(Event) /\ <<>> \in Seq(Wire) /\ <<>> \in Seq(Call) /\ <<>> \in Seq(Answers)
      /\ Len(<<>>) = 0 /\ DOMAIN <<>> = {} /\ <<>> \o <<>> = <<>>
  BY EmptySeq, ConcatEmptySeq
<1>2. ToSet(<<>>) = {}
  BY <1>1 DEF ToSet
<1>3. Storage
  <2>1. StoredType
    BY <1>1, GatewayAssumption DEF StoredType
  <2>2. Events(messages) = <<>>
    <3>1. Events(<<>>) \in Seq(Event) /\ Len(Events(<<>>)) = 0
      BY <1>1, EventsType
    <3> QED
      BY <3>1, EmptySeq
  <2>3. \E gone \in Seq(Event) : stored = gone \o Events(messages) /\ IsSubsequence(handed, gone)
    <3>1. IsSubsequence(<<>>, <<>>)
      <4>1. PICK none : none = [k \in {} |-> k]
        OBVIOUS
      <4>2. none \in [{} -> {}]
        BY <4>1
      <4> QED
        BY <1>1, <4>2 DEF IsSubsequence
    <3> QED
      BY <1>1, <2>2, <3>1
  <2>4. messages \in Seq(Wire) /\ dropped \in Nat /\ drained \in Nat
    BY <1>1
  <2>6. Len(stored) = Len(messages) + Len(handed) + dropped
    <3>1. Len(stored) = 0 /\ Len(messages) = 0 /\ Len(handed) = 0 /\ dropped = 0
      BY <1>1
    <3> QED
      BY <3>1
  <2> QED
    BY <2>1, <2>3, <2>4, <2>6 DEF Storage
<1>4. RegistryInv
  <2>1. RegistryType
    BY <1>1, <1>2 DEF RegistryType
  <2>2. ASSUME NEW i \in DOMAIN Emitters PROVE FanOut(i)
    <3>1. Pending(<<>>, i) = <<>> /\ Gather(<<>>, Share(Emitters[i])) = <<>>
      BY GatherOne DEF Pending
    <3>2. Due(i) = <<>>
      BY <1>1, <3>1 DEF Due
    <3>3. Keep(<<>>, OnRoutes) = <<>>
      BY KeepOne
    <3> QED
      BY <1>1, <3>1, <3>2, <3>3 DEF FanOut
  <2> QED
    BY <2>1, <2>2 DEF RegistryInv
<1>5. StreamsInv
  <2>1. InWork(None) = <<>>
    BY DEF InWork
  <2>2. 0 <= AckCapacity
    BY GatewayAssumption
  <2> QED
    BY <1>1, <2>1, <2>2 DEF StreamsInv, InOrder, StreamState
<1>6. Uncounted = {}
  <2>1. \A x : x \notin Uncounted
    BY UncountedMember
  <2> QED
    BY <2>1
<1>7. CountInv
  <2>1. UnaryInv
    BY DEF UnaryInv
  <2>2. Promised /\ PlacesInv
    BY <1>1 DEF Promised, PlacesInv
  <2>3. Apart
    BY <1>6 DEF Apart
  <2>4. Tally
    <3>1. DOMAIN stored \ (Uncounted \union exhausted) = {}
      BY <1>1
    <3>2. Cardinality({}) = 0
      BY FS_EmptySet
    <3> QED
      BY <3>1, <3>2 DEF Tally
  <2> QED
    BY <2>1, <2>2, <2>3, <2>4 DEF CountInv
<1>8. ServerInv
  <2>1. Len(Emitters) \in Nat
    BY RegistryAssumption, LenProperties
  <2> QED
    BY <2>1 DEF ServerInv
<1>9. OrphansInv
  BY DEF OrphansInv
<1> QED
  BY <1>3, <1>4, <1>5, <1>7, <1>8, <1>9 DEF Inv

(* Every step preserves the invariant. *)
LEMMA InvStep == Inv /\ [Next]_vars => Inv'
<1> SUFFICES ASSUME Inv, [Next]_vars PROVE Inv'
  OBVIOUS
<1>1. Storage /\ RegistryInv /\ StreamsInv /\ CountInv /\ ServerInv /\ OrphansInv
  BY DEF Inv
<1>2. Storage'
  BY <1>1, StorageStep DEF RegistryInv, RegistryType
<1>3. RegistryInv'
  BY <1>1, RegistryStep
<1>4. StreamsInv'
  BY <1>1, StreamsStep DEF Storage
<1>5. CountInv'
  BY <1>1, CountStep
<1>6. ServerInv'
  BY <1>1, ServerStep
<1>7. OrphansInv'
  BY <1>1, OrphansStep DEF Storage
<1> QED
  BY <1>2, <1>3, <1>4, <1>5, <1>6, <1>7 DEF Inv

(* The inductive invariant holds in every reachable state. *)
THEOREM InvHolds == Spec => []Inv
<1>1. Init => Inv
  BY InitInv
<1>2. Inv /\ [Next]_vars => Inv'
  BY InvStep
<1> QED
  BY <1>1, <1>2, PTL DEF Spec

--------------------------------------------------------------------------------
(* What follows. *)

(* Type correctness of the process; a stream's channel keeps its bound, and *)
(* the count of health() that of the events.                               *)
THEOREM TypeCorrect == Spec => []TypeOK
<1>1. Inv => TypeOK
  <2> SUFFICES ASSUME Inv PROVE TypeOK
    OBVIOUS
  <2>1. Storage /\ RegistryInv /\ StreamsInv /\ CountInv /\ ServerInv
    BY DEF Inv
  <2>2. RegistryTypeOK
    <3>1. calls \in Seq(Call) /\ \A call \in ToSet(calls) : call.events # <<>>
      BY <2>1 DEF RegistryInv, RegistryType
    <3>2. ASSUME NEW k \in DOMAIN calls
          PROVE  calls[k].emitter \in DOMAIN Emitters /\ calls[k].events # <<>>
      <4>1. calls[k] \in Call /\ calls[k] \in ToSet(calls)
        BY <3>1, LenProperties, ElementOfSeq DEF ToSet
      <4> QED
        BY <3>1, <4>1 DEF Call
    <3> QED
      BY <2>1, <3>2 DEF RegistryTypeOK, RegistryInv, RegistryType, ServerInv
  <2>3. \A k \in DOMAIN messages : IsMessage(messages[k])
    BY <2>1, EventsType DEF Storage
  <2>4. events_processed \in 0 .. MaxEvents
    <3>1. PICK all, done : /\ all = DOMAIN stored
                           /\ done = DOMAIN stored \ (Uncounted \union exhausted)
      OBVIOUS
    <3>2. IsFiniteSet(all) /\ Cardinality(all) = Len(stored)
      BY <2>1, <3>1, StoredPlaces DEF Storage
    <3>3. done \in SUBSET all
      BY <3>1
    <3>4. IsFiniteSet(done) /\ Cardinality(done) <= Cardinality(all)
      BY <3>2, <3>3, FS_Subset
    <3>5. Cardinality(done) \in Nat
      BY <3>4, FS_CardinalityType
    <3>6. events_processed = Cardinality(done)
      BY <2>1, <3>1 DEF CountInv, Tally
    <3>7. Len(stored) <= MaxEvents /\ Len(stored) \in Nat /\ MaxEvents \in Nat
      BY <2>1, LenProperties, GatewayAssumption DEF Storage, StoredType
    <3> QED
      BY <3>2, <3>4, <3>5, <3>6, <3>7
  <2>5. /\ unary \in [Caller -> {"idle", "count"}]
        /\ \A c \in Caller : held[c] = 0 <=> unary[c] = "idle"
    BY <2>1 DEF CountInv, UnaryInv
  <2>6. /\ stream \in [Stream -> {"closed", "recv", "count", "send", "ended"}]
        /\ \A s \in Stream : reply[s] = None <=> stream[s] \notin {"count", "send"}
        /\ \A s \in Stream : Len(acks[s]) <= AckCapacity
    BY <2>1 DEF StreamsInv, InOrder, StreamState
  <2>7. server \in {"serving", "closing", "stopping", "exited"}
    BY <2>1 DEF ServerInv
  <2> QED
    BY <2>2, <2>3, <2>4, <2>5, <2>6, <2>7 DEF TypeOK
<1> QED
  BY <1>1, InvHolds, PTL

(* What has left the buffer is what was stored before what it holds. *)
LEMMA DepartedIs ==
    ASSUME messages \in Seq(Wire), NEW gone \in Seq(Event), stored = gone \o Events(messages)
    PROVE  Departed = gone
<1>1. PICK kept : kept = Events(messages)
  OBVIOUS
<1>2. kept \in Seq(Event) /\ Len(kept) = Len(messages)
  BY <1>1, EventsType
<1>3. PICK m, n, all : m = Len(gone) /\ n = Len(kept) /\ all = gone \o kept
  OBVIOUS
<1>4. m \in Nat /\ n \in Nat
  BY <1>2, <1>3, LenProperties
<1>5. /\ Len(all) = m + n /\ (m + n) - n = m
      /\ \A k \in 1 .. m : all[k] = gone[k] /\ gone[k] \in Event
  <2>1. \A k \in 1 .. m : k \in 1 .. m + n /\ k <= m
    BY <1>4
  <2>2. Len(all) = Len(gone) + Len(kept) /\ (m + n) - n = m
    <3>1. Len(gone \o kept) = Len(gone) + Len(kept)
      BY <1>2, ConcatProperties, Zenon
    <3> QED
      BY <1>3, <1>4, <3>1
  <2>3. \A k \in 1 .. Len(gone) + Len(kept) :
          (gone \o kept)[k] = IF k <= Len(gone) THEN gone[k] ELSE kept[k - Len(gone)]
    BY <1>2, ConcatProperties, Zenon
  <2>4. \A k \in 1 .. m : all[k] = gone[k]
    BY <1>3, <2>1, <2>3, Zenon
  <2>5. \A k \in 1 .. m : gone[k] \in Event
    BY <1>3, ElementOfSeq, Zenon
  <2> QED
    BY <1>3, <2>2, <2>4, <2>5
<1>6. Departed = SubSeq(all, 1, m)
  BY <1>1, <1>2, <1>3, <1>5 DEF Departed
<1>7. PICK front : front = SubSeq(all, 1, m)
  OBVIOUS
<1>8. front \in Seq(Event) /\ Len(front) = m /\ \A k \in 1 .. m : front[k] = all[k]
  <2>1. 1 \in Int /\ m \in Int /\ m - 1 + 1 = m /\ \A k \in 1 .. m : 1 + k - 1 = k
    BY <1>4
  <2>2. \A k \in 1 .. m : all[k] \in Event
    BY <1>5
  <2>3. CASE 1 <= m
    BY <1>7, <2>1, <2>2, <2>3, SubSeqProperties
  <2>4. CASE m = 0
    BY <1>7, <2>4, SubSeqEmpty, EmptySeq
  <2> QED
    BY <1>4, <2>3, <2>4
<1>9. front = gone
  BY <1>3, <1>5, <1>8, SeqEqual
<1> QED
  BY <1>6, <1>7, <1>9

(* A stored event leaves the buffer once, in order: to the emitters, or by *)
(* an eviction that is counted; and an Ack that is due names events stored *)
(* together.  send_event(), stream_events() and RingBuffer::push in any    *)
(* interleaving, with any events, sent any number of times.                *)
THEOREM AckedIsStored == Spec => []AckedStored
<1>1. Inv => AckedStored
  <2> SUFFICES ASSUME Inv PROVE AckedStored
    OBVIOUS
  <2>1. Storage /\ CountInv
    BY DEF Inv
  <2>2. PICK gone \in Seq(Event) : stored = gone \o Events(messages) /\ IsSubsequence(handed, gone)
    BY <2>1 DEF Storage
  <2>3. IsSuffix(Events(messages), stored)
    <3>1. Events(messages) \in Seq(Event)
      BY <2>1, EventsType DEF Storage
    <3> QED
      BY <2>2, <3>1, SuffixLemma
  <2>4. IsSubsequence(handed, Departed)
    BY <2>1, <2>2, DepartedIs DEF Storage
  <2>5. Capacity > 0 => Len(stored) = Len(messages) + Len(handed) + dropped
    BY <2>1 DEF Storage
  <2>6. \A s \in Stream : \A k \in DOMAIN due[s] : StoredTogether(due[s][k].event_ids)
    BY <2>1 DEF CountInv, Promised
  <2> QED
    BY <2>3, <2>4, <2>5, <2>6 DEF AckedStored, Events
<1> QED
  BY <1>1, InvHolds, PTL

(* The count that health() reports: no event is counted twice or missed,   *)
(* although storing and counting are two steps of calls that interleave.   *)
THEOREM ProcessedIsCounted == Spec => []ProcessedCount
<1>1. Inv => ProcessedCount
  <2> SUFFICES ASSUME Inv PROVE ProcessedCount
    OBVIOUS
  <2>1. Storage /\ StreamsInv /\ CountInv
    BY DEF Inv
  <2>2. PICK all, open, told : all = DOMAIN stored /\ open = Uncounted /\ told = exhausted
    OBVIOUS
  <2>3. PICK done, rest : done = all \ (open \union told) /\ rest = open \union told
    OBVIOUS
  <2>4. IsFiniteSet(all) /\ Cardinality(all) = Len(stored)
    BY <2>1, <2>2, StoredPlaces DEF Storage
  <2>5. open \in SUBSET all /\ told \in SUBSET all /\ rest \in SUBSET all /\ done \in SUBSET all
    BY <2>1, <2>2, <2>3, UncountedStored DEF CountInv, PlacesInv
  <2>6. IsFiniteSet(open) /\ IsFiniteSet(told) /\ IsFiniteSet(rest) /\ IsFiniteSet(done)
    BY <2>4, <2>5, FS_Subset
  <2>7. open \cap told = {} /\ done \cap rest = {} /\ done \union rest = all
    BY <2>1, <2>2, <2>3, <2>5 DEF CountInv, Apart
  <2>8. Cardinality({}) = 0
    BY FS_EmptySet
  <2>9. Cardinality(rest) = Cardinality(open) + Cardinality(told) - 0
    BY <2>3, <2>6, <2>7, <2>8, FS_Union
  <2>10. Cardinality(all) = Cardinality(done) + Cardinality(rest) - 0
    BY <2>6, <2>7, <2>8, FS_Union
  <2>11. /\ Cardinality(open) \in Nat /\ Cardinality(told) \in Nat
         /\ Cardinality(rest) \in Nat /\ Cardinality(done) \in Nat
    BY <2>6, FS_CardinalityType
  <2>12. events_processed = Cardinality(done)
    BY <2>1, <2>2, <2>3 DEF CountInv, Tally
  <2>13. events_processed + Cardinality(open) + Cardinality(told) = Len(stored)
    BY <2>4, <2>9, <2>10, <2>11, <2>12
  <2> QED
    BY <2>2, <2>13 DEF ProcessedCount
<1> QED
  BY <1>1, InvHolds, PTL

(* A listening client is answered in the order of its batches: the task    *)
(* that stream_events() spawns, its bounded channel, and the client.       *)
THEOREM AnswersInOrder == Spec => []StreamAnswersInOrder
<1>1. Inv => StreamAnswersInOrder
  BY DEF Inv, StreamsInv, InOrder, InWork, StreamAnswersInOrder
<1> QED
  BY <1>1, InvHolds, PTL

(* After its client has left, a stream's task takes at most one more good  *)
(* batch: the Ack it cannot send ends its loop (server.rs:143 and :170).   *)
THEOREM OneOrphanAtMost == Spec => []OrphansBounded
<1>1. Inv => OrphansBounded
  <2>1. OrphansInv => \A s \in Stream : orphans[s] \in {0, 1}
    BY DEF OrphansInv
  <2> QED
    BY <2>1 DEF Inv, OrphansBounded
<1> QED
  BY <1>1, InvHolds, PTL

(* Between calls of emit_with_routing(), every emitter has been called     *)
(* with the broadcast events and those that name it, whatever the others   *)
(* answered.                                                               *)
THEOREM RegistryDelivers == Spec => []RegistryFanOut
<1>1. Inv => RegistryFanOut
  <2> SUFFICES ASSUME Inv, calls = <<>>, NEW i \in DOMAIN Emitters
               PROVE  /\ Broadcast(offered[i]) = Broadcast(handed)
                      /\ Routed(offered[i]) = RoutedTo(handed, Emitters[i])
                      /\ Emitters[i] = "stdout" => emitted_count[i] = Len(offered[i])
    BY DEF RegistryFanOut
  <2>1. PICK old : old = offered[i]
    OBVIOUS
  <2>2. old \in Seq(Event) /\ handed \in Seq(Event)
    BY <2>1 DEF Inv, RegistryInv, RegistryType
  <2>3. FanOut(i)
    BY DEF Inv, RegistryInv
  <2>4. Pending(<<>>, i) = <<>>
    BY GatherOne DEF Pending
  <2>5. Due(i) = old
    <3>1. old \o <<>> = old
      BY <2>2, ConcatEmptySeq
    <3> QED
      BY <2>1, <2>4, <3>1 DEF Due
  <2>6. Broadcast(old) = Keep(old, OnAll) /\ Routed(old) = Keep(old, OnRoutes)
    BY <2>2, Shares
  <2>7. /\ Broadcast(handed) = Keep(handed, OnAll)
        /\ RoutedTo(handed, Emitters[i]) = Gather(handed, Share(Emitters[i]))
    BY <2>2, Shares
  <2> QED
    BY <2>1, <2>3, <2>5, <2>6, <2>7 DEF FanOut
<1> QED
  BY <1>1, InvHolds, PTL
===============================================================================
