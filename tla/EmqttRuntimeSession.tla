------------------------ MODULE EmqttRuntimeSession -------------------------
(***************************************************************************)
(* The session as the owner sees it: the publishes it waits for, the       *)
(* request it waits for, and what READY says about the broker.  The        *)
(* notices that are queued and the one the worker has in hand are seen     *)
(* together, as the news the owner has not yet taken.                      *)
(***************************************************************************)
EXTENDS EmqttRuntimeProofs

-----------------------------------------------------------------------------
(***************************************************************************)
(* Control of a session.                                                   *)
(***************************************************************************)

\* The worker names a packet only while it posts: outside post its notice says
\* nothing yet but when it arrived (emqtt.c:217-236).
IdleNotice == worker.pc \notin {"post", "drop"} =>
                 worker.n.id = NoId /\ worker.n.kind = "NONE" /\ worker.n.error = "NONE"

\* What the public state says about the session, and when the owner is inside a
\* resubscription; the worker keeps a connection only while it is meant to run.
StateControl ==
    /\ ~started => state \in {"STOPPED", "FAILED"} /\ awaiting = {}
    /\ faulted => state = "FAILED" /\ owner.pc \in {"idle", "stop", "join"}
    /\ owner.pc = "submit" => started
    /\ owner.pc # "join" /\ sdk.link => sdk.run

\* The session goes on: nothing has been lost and nothing is about to end it.
Going == /\ started /\ ~faulted /\ ~LossFlagged
         /\ owner.pc # "join" /\ (owner.pc = "stop" => owner.after # "fail")

\* A callback that begins or returns leaves the worker with such a notice.
LEMMA IdleNoticeStep ==
    ASSUME TypeOK, ControlInv, IdleNotice, [Next]_vars
    PROVE  IdleNotice'
<1>0. /\ NoNotice.id = NoId /\ NoNotice.kind = "NONE" /\ NoNotice.error = "NONE"
      /\ Arrived.id = NoId /\ Arrived.kind = "NONE" /\ Arrived.error = "NONE"
      /\ WorkerIdle.n = NoNotice
  BY DEF NoNotice, Arrived, WorkerIdle
<1>1. CASE Application \/ Stopping \/ Poll \/ DeadlinePasses \/ UNCHANGED vars
  BY <1>1, OwnerActs DEF IdleNotice, DeadlinePasses, vars
<1>2. ASSUME NEW n, NEW then, Callback(n, then) PROVE IdleNotice'
  BY <1>2, CallbackPost DEF IdleNotice
<1>3. ASSUME NEW w, Fragment(w) PROVE IdleNotice'
  BY <1>0, <1>3 DEF Fragment, IdleNotice, WorkerIdle
<1>4. CASE SdkEvent \/ SdkAbort
  BY <1>2, <1>3, <1>4 DEF SdkEvent, SdkAbort, SdkConnected, SdkDisconnected, Abort, SdkError,
     SdkStartError, SdkSuback, SdkUnsuback, SdkPuback, SdkExpired, SdkPublish
<1>5. CASE SdkNextFragment
  BY <1>3, <1>5 DEF SdkNextFragment
<1>6. CASE ReceiveRejected \/ ReceiveComplete
  BY <1>2, <1>6 DEF ReceiveRejected, ReceiveComplete
<1>7. CASE SdkExit
  BY <1>7 DEF SdkExit, IdleNotice
<1>8. CASE SdkReadTimeout \/ ReceiveNoSlot
  BY <1>0, <1>8 DEF SdkReadTimeout, ReceiveNoSlot, IdleNotice
<1>9. CASE AllocFails \/ ReceiveMore
  BY <1>0, <1>9, AfterFragmentControl DEF AllocFails, ReceiveMore, IdleNotice
<1>10. CASE Allocated
  BY <1>10 DEF Allocated, IdleNotice, TypeOK, TypeRecords, WorkerControl
<1>11. CASE Posted \/ Dropped
  BY <1>0, <1>11, ReturnedControl DEF Posted, Dropped, IdleNotice
<1>12. CASE PostFull
  BY <1>12 DEF PostFull, IdleNotice, TypeOK, TypeRecords, WorkerControl
<1>13. QED
  BY <1>1, <1>4, <1>5, <1>6, <1>7, <1>8, <1>9, <1>10, <1>11, <1>12 DEF Next, SdkStep

\* The three requests the owner can wait for, and how each is recorded.
Asked(o) == /\ sdk.link /\ LockFree /\ o \in OutboxItem /\ o.id \in FreshIds
            /\ outbox' = outbox \cup {o} /\ notices' = Restarted(notices)
            /\ state' = "SUBSCRIBING" /\ owner' = OwnerAt("idle") /\ UNCHANGED overflow

AskedToAdd(o, f) ==
    /\ Asked(o) /\ owner.pc = "idle" /\ state = "READY"
    /\ f \in Filters \ Range(subscriptions)
    /\ o.type = "SUBSCRIBE" /\ o.topics = <<f>>
    /\ pending'.subscribe = o.id /\ pending'.count = 1 /\ pending'.dynamic
    /\ pending'.subscription = f /\ pending'.unsubscribe = NoId

AskedAgain(o) ==
    /\ Asked(o) /\ owner.pc = "submit"
    /\ o.type = "SUBSCRIBE" /\ o.topics = subscriptions
    /\ pending'.subscribe = o.id /\ pending'.count = Len(subscriptions) /\ ~pending'.dynamic
    /\ pending'.unsubscribe = NoId

AskedToRemove(o, k) ==
    /\ Asked(o) /\ owner.pc = "idle" /\ state = "READY"
    /\ k \in DOMAIN subscriptions
    /\ o.type = "UNSUBSCRIBE" /\ o.topics = <<subscriptions[k]>>
    /\ pending'.subscribe = NoId /\ ~pending'.dynamic
    /\ pending'.unsubscribe = o.id /\ pending'.index = k

\* The request failed: the SDK may have stored the packet all the same.
AskedInVain ==
    /\ owner' = FailClosed /\ state' = "FAILED" /\ UNCHANGED <<pending, confirmed>>
    /\ \/ UNCHANGED <<outbox, notices, overflow>>
       \/ /\ PostTransportError /\ LockFree
          /\ \E o \in OutboxItem : o.id \in FreshIds /\ outbox' = outbox \cup {o}
                                   /\ o.type # "PUBLISH"

\* A request is one of these.
LEMMA RequestKinds ==
    ASSUME TypeOK, Subscribe \/ Unsubscribe \/ Resubscribe
    PROVE  /\ UNCHANGED <<started, faulted, subscriptions, worker, sdk, broker, awaiting>>
           /\ owner.pc \in {"idle", "submit"} /\ (owner.pc = "idle" => state = "READY")
           /\ \/ \E o, f : AskedToAdd(o, f)
              \/ \E o : AskedAgain(o)
              \/ \E o, k : AskedToRemove(o, k)
              \/ AskedInVain
<1>0. /\ subscriptions \in Seq(Filters) /\ FreshIds \subseteq Ids
      /\ \A k \in DOMAIN subscriptions : subscriptions[k] \in Filters
  BY DEF TypeOK, TypeQueues, FreshIds
<1>1. ASSUME NEW type \in {"SUBSCRIBE", "UNSUBSCRIBE"}, NEW topics \in Seq(Filters), LockFree,
             RequestRefused(type, topics)
      PROVE  AskedInVain /\ UNCHANGED faulted
  <2>1. ASSUME NEW id \in FreshIds PROVE Message(type, id, topics) \in OutboxItem
                                   /\ Message(type, id, topics).id = id
                                   /\ Message(type, id, topics).type # "PUBLISH"
    BY <1>0, <2>1 DEF Message, OutboxItem
  <2>2. QED  BY <1>1, <2>1 DEF RequestRefused, AskedInVain
<1>2. ASSUME NEW type \in {"SUBSCRIBE", "UNSUBSCRIBE"}, NEW topics \in Seq(Filters), LockFree,
             NEW id \in FreshIds, NEW request,
             RequestSent(type, topics, id, request)
      PROVE  /\ Asked(Message(type, id, topics)) /\ pending' = request /\ UNCHANGED faulted
             /\ Message(type, id, topics).id = id /\ Message(type, id, topics).type = type
             /\ Message(type, id, topics).topics = topics
  <2>1. Message(type, id, topics) \in OutboxItem /\ Message(type, id, topics).id = id
        /\ Message(type, id, topics).type = type /\ Message(type, id, topics).topics = topics
    BY <1>0, <1>2 DEF Message, OutboxItem
  <2>2. QED  BY <1>2, <2>1 DEF RequestSent, Asked, Restarted
<1>4. CASE Subscribe
  <2>1. PICK f \in Filters \ Range(subscriptions) : SubmitSubscriptions(<<f>>, TRUE, f)
    BY <1>4 DEF Subscribe
  <2>2. <<f>> \in Seq(Filters) /\ Len(<<f>>) = 1
    OBVIOUS
  <2>3. CASE RequestRefused("SUBSCRIBE", <<f>>)
    BY <1>1, <1>4, <2>1, <2>2, <2>3 DEF SubmitSubscriptions, Subscribe
  <2>4. CASE ~RequestRefused("SUBSCRIBE", <<f>>)
    <3> DEFINE ask(id) == [ClearedPending EXCEPT !.subscribe = id, !.count = Len(<<f>>),
                              !.dynamic = TRUE, !.subscription = f]
    <3>1. PICK id \in FreshIds : RequestSent("SUBSCRIBE", <<f>>, id, ask(id))
      BY <2>1, <2>4 DEF SubmitSubscriptions
    <3>2. /\ ask(id).subscribe = id /\ ask(id).count = 1 /\ ask(id).dynamic
          /\ ask(id).subscription = f /\ ask(id).unsubscribe = NoId
      BY <2>2 DEF ClearedPending
    <3>3. LockFree
      BY <2>1 DEF SubmitSubscriptions
    <3> HIDE DEF ask
    <3> DEFINE o == Message("SUBSCRIBE", id, <<f>>)
    <3>7. /\ Asked(o) /\ pending' = ask(id) /\ UNCHANGED faulted
          /\ o.id = id /\ o.type = "SUBSCRIBE" /\ o.topics = <<f>>
      BY <1>2, <2>2, <3>1, <3>3
    <3> HIDE DEF o
    <3>8. owner.pc = "idle" /\ state = "READY"
      BY <1>4 DEF Subscribe
    <3>5. AskedToAdd(o, f)
      BY <3>2, <3>7, <3>8 DEF AskedToAdd
    <3>6. QED  BY <2>1, <3>5, <3>7, <3>8 DEF SubmitSubscriptions
  <2>5. QED  BY <2>3, <2>4
<1>5. CASE Resubscribe
  <2>1. SubmitSubscriptions(subscriptions, FALSE, NoFilter) /\ owner.pc = "submit"
    BY <1>5 DEF Resubscribe
  <2>3. CASE RequestRefused("SUBSCRIBE", subscriptions)
    BY <1>0, <1>1, <2>1, <2>3 DEF SubmitSubscriptions
  <2>4. CASE ~RequestRefused("SUBSCRIBE", subscriptions)
    <3> DEFINE ask(id) == [ClearedPending EXCEPT !.subscribe = id, !.count = Len(subscriptions),
                              !.dynamic = FALSE, !.subscription = NoFilter]
    <3>1. PICK id \in FreshIds : RequestSent("SUBSCRIBE", subscriptions, id, ask(id))
      BY <2>1, <2>4 DEF SubmitSubscriptions
    <3>2. /\ ask(id).subscribe = id /\ ask(id).count = Len(subscriptions) /\ ~ask(id).dynamic
          /\ ask(id).unsubscribe = NoId
      BY DEF ClearedPending
    <3>3. LockFree
      BY <2>1 DEF SubmitSubscriptions
    <3> HIDE DEF ask
    <3>5. AskedAgain(Message("SUBSCRIBE", id, subscriptions)) /\ UNCHANGED faulted
      BY <1>0, <1>2, <2>1, <3>1, <3>2, <3>3 DEF AskedAgain
    <3>6. QED  BY <2>1, <3>5 DEF SubmitSubscriptions
  <2>5. QED  BY <2>3, <2>4
<1>6. CASE Unsubscribe
  <2> DEFINE ask(id, k) == [ClearedPending EXCEPT !.unsubscribe = id, !.index = k]
  <2>1. PICK k \in DOMAIN subscriptions :
            \/ \E id \in FreshIds : RequestSent("UNSUBSCRIBE", <<subscriptions[k]>>, id, ask(id, k))
            \/ RequestRefused("UNSUBSCRIBE", <<subscriptions[k]>>)
    BY <1>6 DEF Unsubscribe
  <2>2. <<subscriptions[k]>> \in Seq(Filters) /\ k \in Nat
    BY <1>0
  <2>6. /\ LockFree /\ owner.pc = "idle" /\ state = "READY"
        /\ UNCHANGED <<started, subscriptions, worker, sdk, broker, awaiting>>
    BY <1>6 DEF Unsubscribe
  <2>3. CASE RequestRefused("UNSUBSCRIBE", <<subscriptions[k]>>)
    BY <1>1, <2>2, <2>3, <2>6
  <2>4. CASE ~RequestRefused("UNSUBSCRIBE", <<subscriptions[k]>>)
    <3>1. PICK id \in FreshIds : RequestSent("UNSUBSCRIBE", <<subscriptions[k]>>, id, ask(id, k))
      BY <2>1, <2>4
    <3>2. /\ ask(id, k).unsubscribe = id /\ ask(id, k).index = k /\ ~ask(id, k).dynamic
          /\ ask(id, k).subscribe = NoId
      BY DEF ClearedPending
    <3> HIDE DEF ask
    <3> DEFINE o == Message("UNSUBSCRIBE", id, <<subscriptions[k]>>)
    <3>7. /\ Asked(o) /\ pending' = ask(id, k) /\ UNCHANGED faulted
          /\ o.id = id /\ o.type = "UNSUBSCRIBE" /\ o.topics = <<subscriptions[k]>>
      BY <1>2, <2>2, <2>6, <3>1
    <3> HIDE DEF o
    <3>5. AskedToRemove(o, k)
      BY <2>6, <3>2, <3>7 DEF AskedToRemove
    <3>6. QED  BY <2>6, <3>5, <3>7
  <2>5. QED  BY <2>3, <2>4
<1>7. QED  BY <1>4, <1>5, <1>6

\* Every step keeps state, session and connection together.
LEMMA StateControlStep ==
    ASSUME TypeOK, ControlInv, QuietWhenStopped, StateControl, [Next]_vars
    PROVE  StateControl'
<1>0. /\ sdk \in [run : BOOLEAN, link : BOOLEAN, task : {"none", "alive", "exited"}]
      /\ ~started => notices = << >> /\ ~sdk.run /\ ~sdk.link /\ sdk.task = "none"
      /\ sdk.link => sdk.task = "alive"
  BY DEF TypeOK, TypeSdk, SdkControl, ControlInv, SessionControl, QuietWhenStopped
<1>1. CASE Create
  BY <1>0, <1>1 DEF Create, Drain, OwnerAt, sdkVars, history, StateControl, ControlInv,
     SessionControl
<1>2. CASE Start
  BY <1>0, <1>2 DEF Start, Drain, history, StateControl
<1>3. CASE Stop
  BY <1>3 DEF Stop, ownerVars, sdkVars, history, StateControl
<1>4. CASE Subscribe \/ Unsubscribe \/ Resubscribe
  <2>1. started /\ ~faulted /\ owner.pc \in {"idle", "submit"}
    BY <1>4, RequestKinds DEF StateControl
  <2>2. UNCHANGED <<started, faulted, sdk>> /\ owner'.pc \in {"idle", "stop"}
    BY <1>4, RequestKinds, RequestSteps DEF OwnerAt, FailClosed
  <2>3. QED  BY <2>1, <2>2 DEF StateControl
<1>6. CASE Enqueue
  BY <1>6 DEF Enqueue, ownerVars, StateControl
<1>7. CASE StopNotStarted \/ StopJoined
  BY <1>0, <1>7 DEF StopNotStarted, StopJoined, Stopped, Drain, OwnerAt, sdkVars, StateControl
<1>8. CASE StopCall
  BY <1>0, <1>8 DEF StopCall, ownerVars, history, StateControl
<1>9. CASE StopRefused
  BY <1>0, <1>9 DEF StopRefused, OwnerAt, sdkVars, history, StateControl
<1>10. CASE PollBegin \/ PollEmpty \/ ReleaseMessage
  <2>1. UNCHANGED <<state, started, faulted, sdk, awaiting>> /\ ~faulted /\ owner.pc # "join"
    BY <1>10 DEF PollBegin, PollEmpty, ReleaseMessage, ownerVars, sdkVars, history, StateControl
  <2>2. owner'.pc \in {"recv", "idle", "stop"}
    BY <1>10 DEF PollBegin, PollEmpty, ReleaseMessage, OwnerAt, FailClosed
  <2>3. QED  BY <2>1, <2>2 DEF StateControl
<1>11. CASE \/ PollLate \/ PollConnected \/ PollSuback \/ PollUnsubscribed
            \/ PollDisconnected \/ PollMessage \/ PollError \/ PollCompletion
  <2>1. UNCHANGED <<started, faulted, sdk>> /\ owner.pc = "recv" /\ notices # << >>
    BY <1>11 DEF PollLate, PollConnected, PollSuback, PollUnsubscribed, PollDisconnected,
       PollMessage, PollError, PollCompletion, Handles, Taken, sdkVars
  <2>2. started /\ ~faulted
    BY <1>0, <2>1 DEF StateControl
  <2>3. owner'.pc # "join"
    BY <1>11 DEF PollLate, PollConnected, PollSuback, PollUnsubscribed, PollDisconnected,
       PollMessage, PollError, PollCompletion, OwnerAt, FailClosed, Acknowledged
  <2>4. QED  BY <2>1, <2>2, <2>3 DEF StateControl
<1>12. CASE SdkEvent \/ SdkStep
  <2>1. started /\ UNCHANGED <<state, started, faulted, owner>>
    BY <1>12, WorkerActs, SMTT(40)
  <2>2. sdk'.link => sdk'.run \/ (sdk.link /\ sdk'.run = sdk.run)
    BY <1>0, <1>12 DEF SdkEvent, SdkStep, SdkConnected, SdkDisconnected, SdkAbort, Abort,
       SdkError, SdkStartError, SdkSuback, SdkUnsuback, SdkPuback, SdkExpired, SdkPublish,
       SdkExit, SdkNextFragment, SdkReadTimeout, AllocFails, Allocated, ReceiveMore,
       ReceiveRejected, ReceiveNoSlot, ReceiveComplete, Posted, PostFull, Dropped, Fragment,
       sdkVars
  <2>3. QED  BY <2>1, <2>2 DEF StateControl
<1>13. CASE DeadlinePasses \/ UNCHANGED vars
  BY <1>13 DEF DeadlinePasses, vars, ownerVars, sdkVars, history, StateControl
<1>14. QED
  BY <1>1, <1>2, <1>3, <1>4, <1>6, <1>7, <1>8, <1>9, <1>10, <1>11, <1>12, <1>13
     DEF Next, Application, Stopping, Poll

-----------------------------------------------------------------------------
(***************************************************************************)
(* News: the notices the owner has not taken.                              *)
(***************************************************************************)
News == Range(notices) \cup {worker.n}

\* Two notices say the same but for the time of arrival.
Like(m, n) == m.kind = n.kind /\ m.id = n.id /\ m.codes = n.codes /\ m.error = n.error

\* It names no packet; only an error can be about a fragment.
Plain(m) == m.id = NoId /\ (m.error = "FRAGMENT" => m.kind = "ERROR")

\* Nothing new about any packet.
OldNews == \A m \in News' : Plain(m) \/ \E n \in News : Like(m, n)

\* The answer to a packet, or its expiry, comes.
Grants(topics, codes) == {topics[i] : i \in {j \in DOMAIN codes : codes[j] <= 1}}

Answered(o) ==
    /\ o \in outbox /\ outbox' = outbox \ {o} /\ UNCHANGED <<notices, sdk, awaiting>>
    /\ worker.n.id = NoId /\ worker.n.kind = "NONE"
    /\ worker'.n.id = o.id /\ worker'.pc = "post" /\ worker'.n.error # "FRAGMENT"
    /\ \/ /\ o.type = "SUBSCRIBE" /\ worker'.n.kind = "SUBACK"
          /\ worker'.n.codes \in [DOMAIN o.topics -> SubackCodes] \cup {<< >>}
          /\ broker' = broker \cup Grants(o.topics, worker'.n.codes)
          /\ confirmed' = IF o.id = pending.subscribe
                          THEN confirmed \cup Grants(o.topics, worker'.n.codes) ELSE confirmed
       \/ /\ o.type = "UNSUBSCRIBE" /\ worker'.n.kind = "UNSUBSCRIBED"
          /\ broker' = broker \ Range(o.topics)
          /\ confirmed' = IF o.id = pending.unsubscribe
                          THEN confirmed \ Range(o.topics) ELSE confirmed
       \/ /\ worker'.n.kind \in {"PUBACK", "DELETED"}
          /\ UNCHANGED <<broker, confirmed>>

\* What is in the queue after each operation on it.
LEMMA NewsQueue ==
    ASSUME NEW q \in Seq(Notice)
    PROVE  /\ q # << >> => Range(q) = Range(Tail(q)) \cup {Head(q)}
           /\ \A n \in Notice : Range(Append(q, n)) = Range(q) \cup {n}
           /\ \A m \in Range(Restarted(q)) : \E n \in Range(q) : Like(m, n)
           /\ \A n \in Range(q) : \E m \in Range(Restarted(q)) : Like(m, n)
           /\ Range(q) \subseteq Notice
<1>1. ASSUME q # << >>
      PROVE  Range(q) = Range(Tail(q)) \cup {Head(q)}
  <2> DEFINE p == Tail(q)
  <2>1. /\ DOMAIN p = 1 .. Len(q) - 1 /\ DOMAIN q = 1 .. Len(q)
        /\ Len(q) \in Nat /\ Len(q) > 0
        /\ \A i \in 1 .. Len(q) - 1 : p[i] = q[i + 1]
        /\ Head(q) = q[1]
    BY <1>1
  <2> HIDE DEF p
  <2>2. \A m \in Range(p) \cup {Head(q)} : m \in Range(q)
    BY <2>1 DEF Range
  <2>3. ASSUME NEW m \in Range(q) PROVE m \in Range(p) \cup {Head(q)}
    <3>1. PICK i \in DOMAIN q : m = q[i]
      BY <2>3 DEF Range
    <3>2. i = 1 \/ (i - 1 \in DOMAIN p /\ m = p[i - 1])
      BY <2>1, <3>1
    <3>3. QED  BY <2>1, <3>1, <3>2 DEF Range
  <2>4. QED  BY <2>2, <2>3 DEF p
<1>2. ASSUME NEW n \in Notice
      PROVE  Range(Append(q, n)) = Range(q) \cup {n}
  <2> DEFINE p == Append(q, n)
  <2>1. /\ DOMAIN p = 1 .. Len(q) + 1 /\ DOMAIN q = 1 .. Len(q) /\ Len(q) \in Nat
        /\ \A i \in 1 .. Len(q) : p[i] = q[i]
        /\ p[Len(q) + 1] = n
    OBVIOUS
  <2> HIDE DEF p
  <2>2. \A m \in Range(p) : m \in Range(q) \cup {n}
    BY <2>1 DEF Range
  <2>3. \A m \in Range(q) \cup {n} : m \in Range(p)
    BY <2>1 DEF Range
  <2>4. QED  BY <2>2, <2>3 DEF p
<1>3. ASSUME NEW i \in DOMAIN q
      PROVE  /\ i \in DOMAIN Restarted(q) /\ Like(Restarted(q)[i], q[i])
             /\ q[i] \in Notice
  <2>1. q[i] \in Notice
    BY <1>3
  <2>2. Restarted(q)[i] = [q[i] EXCEPT !.late = FALSE] /\ i \in DOMAIN Restarted(q)
    BY <1>3 DEF Restarted
  <2>3. QED  BY <2>1, <2>2 DEF Like, Notice
<1>4. DOMAIN Restarted(q) = DOMAIN q
  BY DEF Restarted
<1>5. QED  BY <1>1, <1>2, <1>3, <1>4 DEF Range

\* A fragment names no packet; a bad one is an error of its own class.
LEMMA FragmentNotice ==
    ASSUME NEW w, Fragment(w)
    PROVE  Plain(worker'.n) /\ (worker'.n.kind = "NONE" \/ worker'.n.error = "FRAGMENT")
<1>1. worker'.n = Arrived \/ worker'.n = [Arrived EXCEPT !.kind = "ERROR", !.error = "FRAGMENT"]
  <2>1. CASE receiver.buffer
    BY <2>1 DEF Fragment, WorkerIdle
  <2>2. CASE ~receiver.buffer /\ w.total > PayloadMax
    BY <2>2 DEF Fragment, WorkerIdle
  <2>3. CASE ~receiver.buffer /\ ~(w.total > PayloadMax)
    BY <2>3 DEF Fragment, WorkerIdle
  <2>4. QED  BY <2>1, <2>2, <2>3
<1>2. QED  BY <1>1 DEF Arrived, NoNotice, Plain

\* An acknowledgement or an expiry is the answer to one packet of the outbox.
LEMMA AnswerSteps ==
    ASSUME TypeOK, IdleNotice, SdkSuback \/ SdkUnsuback \/ SdkPuback \/ SdkExpired
    PROVE  \E o \in outbox : Answered(o)
<1>1. ASSUME Alive PROVE worker.n.id = NoId /\ worker.n.kind = "NONE"
  BY <1>1 DEF Alive, IdleNotice
<1>2. CASE SdkSuback
  <2>1. PICK o \in outbox : \E codes \in [DOMAIN o.topics -> SubackCodes] \cup {<< >>} :
          /\ o.type = "SUBSCRIBE" /\ outbox' = outbox \ {o}
          /\ broker' = broker \cup Grants(o.topics, codes)
          /\ confirmed' = IF o.id = pending.subscribe THEN confirmed \cup Grants(o.topics, codes)
                          ELSE confirmed
          /\ Callback([Arrived EXCEPT !.kind = "SUBACK", !.id = o.id, !.codes = codes], "free")
    BY <1>2 DEF SdkSuback, Grants
  <2>7. PICK codes \in [DOMAIN o.topics -> SubackCodes] \cup {<< >>} :
          /\ o.type = "SUBSCRIBE" /\ outbox' = outbox \ {o}
          /\ broker' = broker \cup Grants(o.topics, codes)
          /\ confirmed' = IF o.id = pending.subscribe THEN confirmed \cup Grants(o.topics, codes)
                          ELSE confirmed
          /\ Callback([Arrived EXCEPT !.kind = "SUBACK", !.id = o.id, !.codes = codes], "free")
    BY <2>1
  <2>2. /\ worker'.n = [Arrived EXCEPT !.kind = "SUBACK", !.id = o.id, !.codes = codes]
        /\ worker'.pc = "post"
    BY <2>7, CallbackPost
  <2>3. worker'.n.kind = "SUBACK" /\ worker'.n.id = o.id /\ worker'.n.codes = codes
        /\ worker'.n.error # "FRAGMENT"
    BY <2>2, SMTT(40) DEF Arrived, NoNotice
  <2>4. UNCHANGED <<notices, sdk, awaiting>> /\ worker.n.id = NoId /\ worker.n.kind = "NONE"
    BY <1>1, <1>2 DEF SdkSuback, sharedVars
  <2>5. Answered(o)
    BY <2>2, <2>3, <2>4, <2>7 DEF Answered
  <2>6. QED  BY <2>5, SMTT(40)
<1>3. CASE SdkUnsuback
  <2>1. PICK o \in outbox :
          /\ o.type = "UNSUBSCRIBE" /\ outbox' = outbox \ {o}
          /\ broker' = broker \ Range(o.topics)
          /\ confirmed' = IF o.id = pending.unsubscribe THEN confirmed \ Range(o.topics)
                          ELSE confirmed
          /\ Callback([Arrived EXCEPT !.kind = "UNSUBSCRIBED", !.id = o.id], "free")
    BY <1>3 DEF SdkUnsuback
  <2>2. /\ worker'.n = [Arrived EXCEPT !.kind = "UNSUBSCRIBED", !.id = o.id]
        /\ worker'.pc = "post"
    BY <2>1, CallbackPost
  <2>3. /\ worker'.n.kind = "UNSUBSCRIBED" /\ worker'.n.id = o.id
        /\ worker'.n.error # "FRAGMENT"
    BY <2>2 DEF Arrived, NoNotice
  <2>4. UNCHANGED <<notices, sdk, awaiting>> /\ worker.n.id = NoId /\ worker.n.kind = "NONE"
    BY <1>1, <1>3 DEF SdkUnsuback, sharedVars
  <2>5. Answered(o)
    BY <2>1, <2>2, <2>3, <2>4, SMTT(40) DEF Answered
  <2>6. QED  BY <2>5
<1>4. CASE SdkPuback \/ SdkExpired
  <2>1. PICK o \in outbox :
          /\ outbox' = outbox \ {o}
          /\ \/ Callback([Arrived EXCEPT !.kind = "PUBACK", !.id = o.id], "free")
             \/ Callback([Arrived EXCEPT !.kind = "DELETED", !.id = o.id, !.error = "EXPIRED"],
                         "free")
    BY <1>4 DEF SdkPuback, SdkExpired
  <2>2. /\ \/ worker'.n = [Arrived EXCEPT !.kind = "PUBACK", !.id = o.id]
           \/ worker'.n = [Arrived EXCEPT !.kind = "DELETED", !.id = o.id, !.error = "EXPIRED"]
        /\ worker'.pc = "post"
    BY <2>1, CallbackPost
  <2>3. /\ worker'.n.kind \in {"PUBACK", "DELETED"} /\ worker'.n.id = o.id
        /\ worker'.n.error # "FRAGMENT"
    BY <2>2 DEF Arrived, NoNotice
  <2>4. UNCHANGED <<notices, sdk, awaiting, broker, confirmed>> /\ worker.n.id = NoId /\ worker.n.kind = "NONE"
    BY <1>1, <1>4 DEF SdkPuback, SdkExpired, sharedVars, history
  <2>5. Answered(o)
    BY <2>1, <2>2, <2>3, <2>4 DEF Answered
  <2>6. QED  BY <2>5
<1>5. QED  BY <1>2, <1>3, <1>4

\* The steps of the worker bring nothing new, or an answer.
LEMMA WorkerNews ==
    ASSUME TypeOK, ControlInv, IdleNotice, SdkEvent \/ SdkStep
    PROVE  \/ /\ OldNews /\ outbox' \subseteq outbox /\ UNCHANGED <<awaiting, confirmed>>
           \/ \E o \in outbox : Answered(o)
<1>0. /\ Plain(NoNotice) /\ WorkerIdle.n = NoNotice
      /\ Arrived \in Notice /\ notices \in Seq(Notice) /\ worker.n \in Notice
  BY ArrivedType DEF NoNotice, Plain, WorkerIdle, TypeOK, TypeQueues, TypeRecords,
     WorkerControl
<1>1. ASSUME UNCHANGED notices, Plain(worker'.n) \/ worker'.n = worker.n PROVE OldNews
  BY <1>1 DEF OldNews, News, Like
<1>2. ASSUME NEW n, NEW then, Callback(n, then), Plain(n), UNCHANGED notices PROVE OldNews
  BY <1>1, <1>2, CallbackPost
<1>3. ASSUME NEW w, Fragment(w)
      PROVE OldNews /\ UNCHANGED <<outbox, awaiting, confirmed>>
  <2>1. Plain(worker'.n)
    BY <1>3, FragmentNotice
  <2>2. QED  BY <1>1, <1>3, <2>1 DEF Fragment, sdkVars, history
<1>4. CASE SdkConnected \/ SdkDisconnected \/ SdkAbort \/ SdkError \/ SdkStartError
  <2>1. /\ Plain([Arrived EXCEPT !.kind = "CONNECTED"])
        /\ Plain([Arrived EXCEPT !.kind = "DISCONNECTED"])
        /\ Plain([Arrived EXCEPT !.kind = "ERROR", !.error = "SDK"])
    BY DEF Arrived, NoNotice, Plain
  <2>2. UNCHANGED <<notices, awaiting, confirmed>> /\ outbox' \subseteq outbox
    BY <1>4 DEF SdkConnected, SdkDisconnected, SdkAbort, Abort, SdkError, SdkStartError,
       sharedVars, sdkVars, history
  <2>3. OldNews
    BY <1>2, <1>4, <2>1, <2>2 DEF SdkConnected, SdkDisconnected, SdkAbort, Abort, SdkError,
       SdkStartError
  <2>4. QED  BY <2>2, <2>3
<1>5. CASE SdkPublish \/ SdkNextFragment
  BY <1>3, <1>5 DEF SdkPublish, SdkNextFragment
<1>7. CASE SdkSuback \/ SdkUnsuback \/ SdkPuback \/ SdkExpired
  BY <1>7, AnswerSteps
<1>10. CASE SdkExit \/ SdkReadTimeout \/ ReceiveNoSlot
  BY <1>0, <1>1, <1>10 DEF SdkExit, SdkReadTimeout, ReceiveNoSlot, sharedVars, sdkVars, history
<1>11. CASE AllocFails \/ ReceiveMore
  BY <1>0, <1>1, <1>11, AfterFragmentControl DEF AllocFails, ReceiveMore, sharedVars, sdkVars,
     history
<1>12. CASE Allocated \/ PostFull
  <2>1. worker'.n = worker.n
    BY <1>12 DEF Allocated, PostFull, TypeOK, TypeRecords, WorkerControl
  <2>2. QED  BY <1>1, <1>12, <2>1 DEF Allocated, PostFull, sharedVars, sdkVars, history
<1>13. CASE ReceiveRejected \/ ReceiveComplete
  <2>1. worker.n.id = NoId /\ worker.n.error = "NONE"
    BY <1>13 DEF ReceiveRejected, ReceiveComplete, IdleNotice
  <2>2. \/ worker'.n = [worker.n EXCEPT !.kind = "ERROR", !.error = "FRAGMENT"]
        \/ \E s : worker'.n = [worker.n EXCEPT !.kind = "MESSAGE", !.slot = s]
    BY <1>13, CallbackPost DEF ReceiveRejected, ReceiveComplete
  <2>3. Plain(worker'.n)
    BY <1>0, <2>1, <2>2 DEF Notice, Plain
  <2>4. QED  BY <1>1, <1>13, <2>3 DEF ReceiveRejected, ReceiveComplete, sdkVars, history
<1>14. CASE Dropped
  BY <1>0, <1>1, <1>14, ReturnedControl DEF Dropped, sdkVars, history
<1>15. CASE Posted
  <2>1. Plain(worker'.n)
    BY <1>0, <1>15, ReturnedControl DEF Posted
  <2>2. Range(notices') = Range(notices) \cup {worker.n}
    BY <1>0, <1>15, NewsQueue DEF Posted
  <2>3. OldNews
    BY <2>1, <2>2 DEF OldNews, News, Like
  <2>4. QED  BY <1>15, <2>3 DEF Posted, sdkVars, history
<1>16. QED
  BY <1>4, <1>5, <1>7, <1>10, <1>11, <1>12, <1>13, <1>14, <1>15 DEF SdkEvent, SdkStep

\* The owner takes news, or restarts the clock of it; the error of a failed
\* write names no packet.
LEMMA OwnerNews ==
    ASSUME TypeOK, ControlInv, Application \/ Stopping \/ Poll
    PROVE  OldNews
<1>0. notices \in Seq(Notice) /\ UNCHANGED worker
  BY OwnerActs DEF TypeOK, TypeQueues
<1>1. CASE UNCHANGED notices \/ notices' = << >>
  BY <1>0, <1>1 DEF OldNews, News, Like, Range
<1>2. CASE notices # << >> /\ notices' = Tail(notices)
  BY <1>0, <1>2, NewsQueue DEF OldNews, News, Like
<1>3. CASE notices' = Restarted(notices)
  BY <1>0, <1>3, NewsQueue DEF OldNews, News, Like
<1>4. CASE PostTransportError
  <2> DEFINE n == [NoNotice EXCEPT !.kind = "ERROR", !.error = "SDK", !.late = deadlineHit]
  <2>1. n \in Notice
    BY ConstantTypes DEF Notice, Kinds, Errors, TypeOK, TypeFlags
  <2>2. Plain(n)
    BY DEF NoNotice, Plain
  <2>3. notices' = Append(notices, n) \/ UNCHANGED notices
    BY <1>4 DEF PostTransportError
  <2> HIDE DEF n
  <2>4. CASE notices' = Append(notices, n)
    BY <1>0, <2>1, <2>2, <2>4, NewsQueue DEF OldNews, News, Like
  <2>5. QED  BY <1>1, <2>3, <2>4
<1>5. CASE Create \/ Start \/ StopNotStarted \/ StopJoined
  BY <1>1, <1>5 DEF Create, Start, StopNotStarted, StopJoined, Stopped, Drain
<1>6. CASE Subscribe \/ Unsubscribe \/ Resubscribe
  <2>1. UNCHANGED notices \/ notices' = Restarted(notices) \/ PostTransportError
    BY <1>6, RequestKinds DEF AskedToAdd, AskedAgain, AskedToRemove, Asked, AskedInVain
  <2>2. QED  BY <1>1, <1>3, <1>4, <2>1
<1>7. CASE StopCall
  BY <1>1, <1>4, <1>7 DEF StopCall
<1>8. CASE Stop \/ Enqueue \/ StopRefused \/ PollBegin \/ PollEmpty \/ ReleaseMessage
  BY <1>1, <1>8 DEF Stop, Enqueue, StopRefused, PollBegin, PollEmpty, ReleaseMessage, sharedVars
<1>9. CASE \/ PollLate \/ PollConnected \/ PollSuback \/ PollUnsubscribed
           \/ PollDisconnected \/ PollMessage \/ PollError \/ PollCompletion
  BY <1>2, <1>9 DEF PollLate, PollConnected, PollSuback, PollUnsubscribed, PollDisconnected,
     PollMessage, PollError, PollCompletion, Handles, Taken
<1>10. QED  BY <1>5, <1>6, <1>7, <1>8, <1>9 DEF Application, Stopping, Poll

-----------------------------------------------------------------------------
(***************************************************************************)
(* Which packet a notice can answer.                                       *)
(***************************************************************************)

\* Only a publish is awaited: neither a request nor its answer carries the
\* identifier of a publish the application waits for.
AwaitInv ==
    /\ \A o \in outbox : o.type # "PUBLISH" => o.id \notin awaiting
    /\ \A n \in News : n.kind \notin {"PUBACK", "DELETED"} => n.id \notin awaiting

\* The request that is pending: the list has no filter twice, the filter to add
\* is not in it, only one request waits, and the packet of that request asks for
\* what the owner will do when it is acknowledged (emqtt.c:357-366, 595-632).
RequestInv ==
    /\ IsInjective(subscriptions)
    /\ pending.dynamic => pending.subscription \notin Range(subscriptions)
    /\ pending.subscribe # NoId => pending.unsubscribe = NoId /\ pending.count = Len(Requested)
    /\ \A o \in outbox :
          /\ o.type = "SUBSCRIBE" /\ o.id = pending.subscribe => o.topics = Requested
          /\ o.type = "UNSUBSCRIBE" /\ o.id = pending.unsubscribe
                => o.topics = <<subscriptions[pending.index]>>

\* An acknowledgement the owner will accept was sent for what is confirmed.
AckTrue(n) ==
    /\ /\ n.kind = "SUBACK" /\ n.id = pending.subscribe /\ n.id # NoId /\ pending.dynamic
       /\ SubackValid(n.codes, Requested, pending.count)
       => pending.subscription \in confirmed
    /\ n.kind = "UNSUBSCRIBED" /\ n.id = pending.unsubscribe /\ n.id # NoId
       => subscriptions[pending.index] \notin confirmed

AckInv == \A n \in News : AckTrue(n)

\* Only an error is about a fragment.
FragmentErrors == \A n \in News : n.error = "FRAGMENT" => n.kind = "ERROR"

PacketInv == AwaitInv /\ RequestInv /\ AckInv /\ FragmentErrors

\* No request is pending any more.
Over == /\ pending' = ClearedPending /\ IsInjective(subscriptions')
        /\ awaiting' \subseteq awaiting /\ outbox' \subseteq outbox /\ OldNews

\* Nothing changes what is pending.
Passive == /\ UNCHANGED <<subscriptions, pending, confirmed>>
           /\ awaiting' \subseteq awaiting /\ outbox' \subseteq outbox /\ OldNews

\* Steps that leave no request pending keep the invariant.
LEMMA PacketOver ==
    ASSUME TypeOK, TypeOK', PacketInv, Over
    PROVE  PacketInv'
<1>0. /\ NoId \notin Ids /\ awaiting \subseteq Ids /\ \A o \in outbox : o.id \in Ids
  BY IdsAssumption DEF TypeOK, TypeSdk, OutboxItem
<1>1. AwaitInv'
  BY <1>0 DEF PacketInv, AwaitInv, Over, OldNews, Like, Plain
<1>2. pending'.subscribe = NoId /\ pending'.unsubscribe = NoId /\ ~pending'.dynamic
  BY DEF Over, ClearedPending
<1>3. RequestInv'
  BY <1>0, <1>2 DEF RequestInv, Over
<1>4. AckInv'
  BY <1>2 DEF AckInv, AckTrue
<1>5. FragmentErrors'
  BY DEF PacketInv, FragmentErrors, Over, OldNews, Like, Plain
<1>6. QED  BY <1>1, <1>3, <1>4, <1>5 DEF PacketInv

\* So do steps that leave it alone.
LEMMA PacketPassive ==
    ASSUME TypeOK, PacketInv, Passive
    PROVE  PacketInv'
<1>0. /\ NoId \notin Ids /\ awaiting \subseteq Ids
  BY IdsAssumption DEF TypeOK, TypeSdk
<1>1. AwaitInv'
  BY <1>0 DEF PacketInv, AwaitInv, Passive, OldNews, Like, Plain
<1>2. RequestInv'
  BY DEF PacketInv, RequestInv, Passive, Requested
<1>3. ASSUME NEW m \in News' PROVE AckTrue(m)'
  <2>1. Requested' = Requested
    BY DEF Passive, Requested
  <2>2. CASE m.id = NoId
    BY <2>2 DEF AckTrue
  <2>3. CASE m.id # NoId
    <3>1. PICK n \in News : Like(m, n)
      BY <1>3, <2>3 DEF Passive, OldNews, Plain
    <3>2. AckTrue(n)
      BY DEF PacketInv, AckInv
    <3>3. QED  BY <2>1, <3>1, <3>2 DEF AckTrue, Like, Passive
  <2>4. QED  BY <2>2, <2>3
<1>4. FragmentErrors'
  BY DEF PacketInv, FragmentErrors, Passive, OldNews, Like, Plain
<1>5. QED  BY <1>1, <1>2, <1>3, <1>4 DEF PacketInv, AckInv

\* The broker's answer to a packet, or the packet's end.
LEMMA PacketAnswered ==
    ASSUME TypeOK, TypeOK', PacketInv, UNCHANGED <<subscriptions, pending>>,
           NEW o \in outbox, Answered(o)
    PROVE  PacketInv'
<1>0. /\ NoId \notin Ids /\ o.id \in Ids
      /\ o.type \in {"PUBLISH", "SUBSCRIBE", "UNSUBSCRIBE"}
  BY IdsAssumption DEF TypeOK, TypeSdk, OutboxItem
<1>1. /\ outbox' \subseteq outbox /\ awaiting' = awaiting /\ Requested' = Requested
      /\ News' \subseteq News \cup {worker'.n} /\ worker'.n.id = o.id
  BY DEF Answered, Requested, News
<1>2. AwaitInv'
  <2>1. worker'.n.kind \notin {"PUBACK", "DELETED"} => o.type # "PUBLISH"
    BY DEF Answered
  <2>2. QED  BY <1>1, <2>1 DEF PacketInv, AwaitInv
<1>3. RequestInv'
  BY <1>1 DEF PacketInv, RequestInv
<1>4. ASSUME NEW n \in News, n.id = pending.subscribe \/ n.id = pending.unsubscribe, n.id # NoId
      PROVE  AckTrue(n)'
  <2>1. AckTrue(n)
    BY DEF PacketInv, AckInv
  <2>2. CASE n.id = pending.subscribe
    <3>1. pending.unsubscribe = NoId
      BY <1>4, <2>2 DEF PacketInv, RequestInv
    <3>2. confirmed \subseteq confirmed'
      BY <1>0, <3>1 DEF Answered
    <3>3. QED  BY <1>1, <1>4, <2>1, <2>2, <3>1, <3>2 DEF AckTrue
  <2>3. CASE n.id = pending.unsubscribe
    <3>1. pending.subscribe = NoId
      BY <1>4, <2>3 DEF PacketInv, RequestInv
    <3>2. confirmed' \subseteq confirmed
      BY <1>0, <3>1 DEF Answered
    <3>3. QED  BY <1>1, <1>4, <2>1, <2>3, <3>1, <3>2 DEF AckTrue
  <2>4. QED  BY <1>4, <2>2, <2>3
<1>5. ASSUME NEW n \in News PROVE AckTrue(n)'
  BY <1>4, <1>5 DEF AckTrue
<1>6. ASSUME worker'.n.kind = "SUBACK", o.id = pending.subscribe, pending.dynamic,
             SubackValid(worker'.n.codes, Requested, pending.count)
      PROVE  pending.subscription \in confirmed'
  <2> DEFINE codes == worker'.n.codes
  <2>1. o.type = "SUBSCRIBE" /\ confirmed' = confirmed \cup Grants(o.topics, codes)
    BY <1>6 DEF Answered
  <2>2. o.topics = <<pending.subscription>> /\ pending.count = 1
    BY <1>0, <1>6, <2>1 DEF PacketInv, RequestInv, Requested
  <2>3. codes \in Seq(SubackCodes)
    BY DEF TypeOK, TypeRecords, WorkerControl, Notice
  <2>4. Len(codes) = 1 /\ codes[1] <= 1
    BY <1>6, <2>2 DEF SubackValid
  <2>5. 1 \in {j \in DOMAIN codes : codes[j] <= 1} /\ o.topics[1] = pending.subscription
    BY <2>2, <2>3, <2>4
  <2> HIDE DEF codes
  <2>6. QED  BY <2>1, <2>5 DEF Grants
<1>7. ASSUME worker'.n.kind = "UNSUBSCRIBED", o.id = pending.unsubscribe
      PROVE  subscriptions[pending.index] \notin confirmed'
  <2>1. o.type = "UNSUBSCRIBE" /\ confirmed' = confirmed \ Range(o.topics)
    BY <1>7 DEF Answered
  <2>2. o.topics = <<subscriptions[pending.index]>>
    BY <1>7, <2>1 DEF PacketInv, RequestInv
  <2>3. o.topics[1] = subscriptions[pending.index] /\ 1 \in DOMAIN o.topics
    BY <2>2
  <2>4. QED  BY <2>1, <2>3 DEF Range
<1>8. AckTrue(worker.n)'
  BY <1>1, <1>6, <1>7 DEF AckTrue
<1>9. AckInv'
  <2>1. ASSUME NEW m \in News' PROVE AckTrue(m)'
    BY <1>1, <1>5, <1>8, <2>1
  <2>2. QED  BY <2>1 DEF AckInv
<1>10. FragmentErrors'
  BY <1>1 DEF PacketInv, FragmentErrors, Answered
<1>11. QED  BY <1>2, <1>3, <1>9, <1>10 DEF PacketInv

\* A packet with a new identifier: no notice names it, and no other packet.
LEMMA FreshId ==
    ASSUME TypeOK, IdleNotice, LockFree, NEW id \in FreshIds
    PROVE  /\ id \in Ids /\ id # NoId /\ id \notin awaiting
           /\ id # pending.subscribe /\ id # pending.unsubscribe
           /\ \A o \in outbox : o.id # id
           /\ \A n \in News : n.id # id
<1>1. worker.n.id = NoId
  BY DEF LockFree, IdleNotice
<1>2. QED  BY <1>1, IdsAssumption DEF FreshIds, OutboxIds, News, Range

\* A request that the SDK refuses, or stores in vain.
LEMMA PacketInVain ==
    ASSUME TypeOK, IdleNotice, PacketInv, AskedInVain, OldNews,
           UNCHANGED <<subscriptions, awaiting>>
    PROVE  PacketInv'
<1>1. CASE UNCHANGED outbox
  BY <1>1, PacketPassive DEF AskedInVain, Passive
<1>2. CASE ~UNCHANGED outbox
  <2>1. PICK o \in OutboxItem : o.id \in FreshIds /\ outbox' = outbox \cup {o} /\ LockFree
    BY <1>2 DEF AskedInVain
  <2>2. UNCHANGED <<subscriptions, pending, confirmed, awaiting>> /\ Requested' = Requested
    BY DEF AskedInVain, Requested
  <2>3. o.id \notin awaiting /\ o.id # pending.subscribe /\ o.id # pending.unsubscribe
    BY <2>1, FreshId
  <2>4. NoId \notin awaiting
    BY IdsAssumption DEF TypeOK, TypeSdk
  <2>5. AwaitInv'
    BY <2>1, <2>2, <2>3, <2>4 DEF PacketInv, AwaitInv, OldNews, Like, Plain
  <2>6. RequestInv'
    BY <2>1, <2>2, <2>3 DEF PacketInv, RequestInv
  <2>7. ASSUME NEW m \in News' PROVE AckTrue(m)'
    <3>1. CASE m.id = NoId
      BY <3>1 DEF AckTrue
    <3>2. CASE m.id # NoId
      <4>1. PICK n \in News : Like(m, n)
        BY <2>7, <3>2 DEF OldNews, Plain
      <4>2. AckTrue(n)
        BY DEF PacketInv, AckInv
      <4>3. QED  BY <2>2, <4>1, <4>2 DEF AckTrue, Like
    <3>3. QED  BY <3>1, <3>2
  <2>8. FragmentErrors'
    BY DEF PacketInv, FragmentErrors, OldNews, Like, Plain
  <2>9. QED  BY <2>5, <2>6, <2>7, <2>8 DEF PacketInv, AckInv
<1>3. QED  BY <1>1, <1>2

\* A request that is under way.
LEMMA PacketAsked ==
    ASSUME TypeOK, IdleNotice, PacketInv, OldNews, UNCHANGED <<subscriptions, awaiting>>,
           \/ \E o, f : AskedToAdd(o, f)
           \/ \E o : AskedAgain(o)
           \/ \E o, k : AskedToRemove(o, k)
    PROVE  PacketInv'
<1>1. PICK o : /\ Asked(o) /\ o.type \in {"SUBSCRIBE", "UNSUBSCRIBE"}
               /\ \/ \E f : AskedToAdd(o, f)
                  \/ AskedAgain(o)
                  \/ \E k : AskedToRemove(o, k)
  BY DEF AskedToAdd, AskedAgain, AskedToRemove
<1>2. /\ LockFree /\ o.id \in FreshIds /\ outbox' = outbox \cup {o}
  BY <1>1 DEF Asked
<1>3. /\ o.id # NoId /\ o.id \notin awaiting /\ NoId \notin awaiting /\ NoId \notin Ids
      /\ \A p \in outbox : p.id # o.id /\ p.id \in Ids
      /\ \A n \in News : n.id # o.id
  BY <1>2, FreshId, IdsAssumption DEF TypeOK, TypeSdk, OutboxItem
<1>4. AwaitInv'
  BY <1>2, <1>3 DEF PacketInv, AwaitInv, OldNews, Like, Plain
<1>5. pending'.subscribe \in {o.id, NoId} /\ pending'.unsubscribe \in {o.id, NoId}
  BY <1>1 DEF AskedToAdd, AskedAgain, AskedToRemove
<1>6. \A m \in News' : m.id # o.id
  BY <1>3 DEF OldNews, Like, Plain
<1>7. AckInv'
  <2>1. ASSUME NEW m \in News' PROVE AckTrue(m)'
    BY <1>5, <1>6, <2>1 DEF AckTrue
  <2>2. QED  BY <2>1 DEF AckInv
<1>8. IsInjective(subscriptions)'
  BY DEF PacketInv, RequestInv
<1>9. ASSUME NEW f, AskedToAdd(o, f) PROVE RequestInv'
  <2>1. Requested' = <<f>> /\ Len(<<f>>) = 1
    BY <1>9 DEF AskedToAdd, Requested
  <2>2. /\ pending'.subscription \notin Range(subscriptions')
        /\ pending'.subscribe = o.id /\ pending'.unsubscribe = NoId /\ pending'.count = 1
        /\ o.topics = <<f>> /\ o.type = "SUBSCRIBE"
    BY <1>9 DEF AskedToAdd
  <2>3. QED  BY <1>2, <1>3, <1>8, <2>1, <2>2 DEF RequestInv
<1>10. ASSUME AskedAgain(o) PROVE RequestInv'
  <2>1. Requested' = subscriptions' /\ ~pending'.dynamic
    BY <1>10 DEF AskedAgain, Requested
  <2>2. /\ pending'.subscribe = o.id /\ pending'.unsubscribe = NoId
        /\ pending'.count = Len(subscriptions')
        /\ o.topics = subscriptions' /\ o.type = "SUBSCRIBE"
    BY <1>10 DEF AskedAgain
  <2>3. QED  BY <1>2, <1>3, <1>8, <2>1, <2>2 DEF RequestInv
<1>11. ASSUME NEW k, AskedToRemove(o, k) PROVE RequestInv'
  <2>1. /\ pending'.subscribe = NoId /\ ~pending'.dynamic
        /\ pending'.unsubscribe = o.id /\ pending'.index = k
        /\ o.topics = <<subscriptions'[k]>> /\ o.type = "UNSUBSCRIBE"
    BY <1>11 DEF AskedToRemove
  <2>2. QED  BY <1>2, <1>3, <1>8, <2>1 DEF RequestInv
<1>12. RequestInv'
  BY <1>1, <1>9, <1>10, <1>11
<1>13. FragmentErrors'
  BY DEF PacketInv, FragmentErrors, OldNews, Like, Plain
<1>14. QED  BY <1>4, <1>7, <1>12, <1>13 DEF PacketInv

\* A publish is stored: its identifier is new.
LEMMA PacketEnqueued ==
    ASSUME TypeOK, IdleNotice, PacketInv, Enqueue
    PROVE  PacketInv'
<1>1. PICK id \in FreshIds : /\ outbox' = outbox \cup {Message("PUBLISH", id, << >>)}
                             /\ awaiting' = awaiting \cup {id}
  BY DEF Enqueue
<1>2. /\ \A o \in outbox : o.id # id
      /\ \A n \in News : n.id # id
      /\ id # pending.subscribe /\ id # pending.unsubscribe
  BY <1>1, FreshId DEF Enqueue
<1>3. /\ UNCHANGED <<subscriptions, pending, confirmed>> /\ Requested' = Requested
      /\ News' = News
  BY DEF Enqueue, ownerVars, sharedVars, Requested, News
<1>4. /\ Message("PUBLISH", id, << >>).type = "PUBLISH"
      /\ Message("PUBLISH", id, << >>).id = id
  BY DEF Message
<1>5. AwaitInv'
  BY <1>1, <1>2, <1>3, <1>4 DEF PacketInv, AwaitInv
<1>6. RequestInv'
  BY <1>1, <1>2, <1>3, <1>4 DEF PacketInv, RequestInv
<1>7. AckInv'
  BY <1>3 DEF PacketInv, AckInv, AckTrue
<1>8. FragmentErrors'
  BY <1>3 DEF PacketInv, FragmentErrors
<1>9. QED  BY <1>5, <1>6, <1>7, <1>8 DEF PacketInv

\* A filter that is added or removed leaves a list without repetition.
LEMMA ListChanged ==
    ASSUME NEW s \in Seq(Filters), IsInjective(s)
    PROVE  /\ \A f \in Filters \ Range(s) : /\ IsInjective(Append(s, f))
                                            /\ Range(Append(s, f)) = Range(s) \cup {f}
           /\ \A k \in DOMAIN s : /\ IsInjective(RemoveAt(s, k))
                                  /\ Range(RemoveAt(s, k)) = Range(s) \ {s[k]}
<1>1. ASSUME NEW f \in Filters \ Range(s)
      PROVE  IsInjective(Append(s, f)) /\ Range(Append(s, f)) = Range(s) \cup {f}
  <2> DEFINE p == Append(s, f)
  <2>1. /\ DOMAIN p = 1 .. Len(s) + 1 /\ DOMAIN s = 1 .. Len(s) /\ Len(s) \in Nat
        /\ \A i \in 1 .. Len(s) : p[i] = s[i]
        /\ p[Len(s) + 1] = f
    OBVIOUS
  <2>2. \A i \in DOMAIN s : s[i] # f
    BY DEF Range
  <2> HIDE DEF p
  <2>3. IsInjective(p)
    BY <2>1, <2>2 DEF IsInjective
  <2>4. \A m \in Range(p) : m \in Range(s) \cup {f}
    BY <2>1 DEF Range
  <2>5. \A m \in Range(s) \cup {f} : m \in Range(p)
    BY <2>1 DEF Range
  <2>6. QED  BY <2>3, <2>4, <2>5 DEF p
<1>2. ASSUME NEW k \in DOMAIN s
      PROVE  IsInjective(RemoveAt(s, k)) /\ Range(RemoveAt(s, k)) = Range(s) \ {s[k]}
  <2> DEFINE left  == SubSeq(s, 1, k - 1)
             right == SubSeq(s, k + 1, Len(s))
             p == RemoveAt(s, k)
  <2>1. k \in Nat /\ Len(s) \in Nat /\ k \in 1 .. Len(s) /\ DOMAIN s = 1 .. Len(s)
    OBVIOUS
  <2>2. left \in Seq(Filters) /\ Len(left) = k - 1 /\ \A i \in 1 .. k - 1 : left[i] = s[i]
    OBVIOUS
  <2>3. /\ right \in Seq(Filters) /\ Len(right) = Len(s) - k
        /\ \A i \in 1 .. Len(s) - k : right[i] = s[k + i]
    OBVIOUS
  <2>4. p = left \o right
    BY DEF RemoveAt
  <2> HIDE DEF left, right, p
  <2>5. /\ p \in Seq(Filters) /\ Len(p) = Len(left) + Len(right)
        /\ \A i \in 1 .. Len(left) + Len(right) :
              p[i] = IF i <= Len(left) THEN left[i] ELSE right[i - Len(left)]
    BY <2>2, <2>3, <2>4, ConcatProperties, Zenon
  <2>6. DOMAIN p = 1 .. Len(s) - 1
    BY <2>1, <2>2, <2>3, <2>5
  <2>7. ASSUME NEW i \in 1 .. Len(s) - 1
        PROVE  p[i] = IF i < k THEN s[i] ELSE s[i + 1]
    <3>1. p[i] = IF i <= k - 1 THEN left[i] ELSE right[i - (k - 1)]
      BY <2>1, <2>2, <2>3, <2>5, SMTT(40)
    <3>2. CASE i < k
      BY <2>1, <2>2, <3>1, <3>2
    <3>3. CASE i >= k
      <4> DEFINE m == i - (k - 1)
      <4>1. m \in 1 .. Len(s) - k /\ k + m = i + 1
        BY <2>1, <3>3
      <4>2. right[m] = s[k + m]
        BY <2>3, <4>1
      <4>3. right[m] = s[i + 1] /\ ~(i <= k - 1) /\ ~(i < k)
        BY <2>1, <3>3, <4>1, <4>2
      <4>4. QED  BY <3>1, <4>3
    <3>4. QED  BY <2>1, <3>2, <3>3
  <2>8. IsInjective(p)
    BY <2>1, <2>6, <2>7, SMTT(40) DEF IsInjective
  <2>9. ASSUME NEW m \in Range(p) PROVE m \in Range(s) \ {s[k]}
    <3>1. PICK i \in DOMAIN p : m = p[i]
      BY <2>9 DEF Range
    <3>2. PICK j \in DOMAIN s : m = s[j] /\ j # k
      <4>1. CASE i < k
        BY <2>1, <2>6, <2>7, <3>1, <4>1
      <4>2. CASE i >= k
        <5>1. i + 1 \in DOMAIN s /\ m = s[i + 1] /\ i + 1 # k
          BY <2>1, <2>6, <2>7, <3>1, <4>2
        <5>2. QED  BY <5>1
      <4>3. QED  BY <2>1, <2>6, <4>1, <4>2
    <3>3. QED  BY <3>2 DEF Range, IsInjective
  <2>10. ASSUME NEW m \in Range(s) \ {s[k]} PROVE m \in Range(p)
    <3>1. PICK j \in DOMAIN s : m = s[j] /\ j # k
      BY <2>10 DEF Range
    <3>2. PICK i \in DOMAIN p : m = p[i]
      <4>1. CASE j < k
        BY <2>1, <2>6, <2>7, <3>1, <4>1
      <4>2. CASE j > k
        <5>1. j - 1 \in 1 .. Len(s) - 1 /\ p[j - 1] = s[j]
          BY <2>1, <2>7, <4>2
        <5>2. QED  BY <2>6, <3>1, <5>1
      <4>3. QED  BY <2>1, <3>1, <4>1, <4>2
    <3>3. QED  BY <3>2 DEF Range
  <2>11. QED  BY <2>8, <2>9, <2>10 DEF p
<1>3. QED  BY <1>1, <1>2


\* Every step keeps what is known of the packets.
LEMMA PacketStep ==
    ASSUME TypeOK, TypeOK', ControlInv, QuietWhenStopped, IdleNotice, StateControl, PacketInv,
           [Next]_vars
    PROVE  PacketInv'
<1>0. /\ subscriptions \in Seq(Filters) /\ IsInjective(subscriptions)
      /\ IsInjective(ConfigSubs) /\ IsInjective(<< >>)
  BY FiltersAssumption DEF TypeOK, TypeQueues, PacketInv, RequestInv, IsInjective
<1>1. CASE Create \/ Start \/ StopNotStarted \/ StopJoined
  <2>1. OldNews
    BY <1>1, OwnerNews DEF Application, Stopping
  <2>2. pending' = ClearedPending /\ UNCHANGED outbox /\ awaiting' \subseteq awaiting
    BY <1>1 DEF Create, Start, StopNotStarted, StopJoined, Stopped, Drain, sdkVars, history
  <2>3. subscriptions' \in {subscriptions, ConfigSubs, << >>}
    BY <1>1 DEF Create, Start, StopNotStarted, StopJoined, Stopped
  <2>4. QED  BY <1>0, <2>1, <2>2, <2>3, PacketOver DEF Over
<1>2. CASE PollConnected \/ PollSuback \/ PollUnsubscribed \/ PollDisconnected
  <2>1. OldNews
    BY <1>2, OwnerNews DEF Poll
  <2>2. pending' = ClearedPending /\ UNCHANGED <<outbox, awaiting>>
    BY <1>2 DEF PollConnected, PollSuback, PollUnsubscribed, PollDisconnected, Acknowledged,
       Handles, Taken, sdkVars
  <2>3. IsInjective(subscriptions')
    <3>1. CASE UNCHANGED subscriptions
      BY <1>0, <3>1
    <3>2. CASE PollSuback /\ ~UNCHANGED subscriptions
      <4>1. pending.dynamic /\ subscriptions' = Append(subscriptions, pending.subscription)
        BY <3>2 DEF PollSuback, Acknowledged
      <4>2. pending.subscription \in Filters \ Range(subscriptions)
        BY <4>1 DEF ControlInv, PendingFits, PacketInv, RequestInv
      <4>3. QED  BY <1>0, <4>1, <4>2, ListChanged
    <3>3. CASE PollUnsubscribed /\ ~UNCHANGED subscriptions
      <4>1. UnsubackAccepted /\ subscriptions' = RemoveAt(subscriptions, pending.index)
        BY <3>3 DEF PollUnsubscribed, Acknowledged
      <4>2. pending.index \in DOMAIN subscriptions
        BY <4>1 DEF ControlInv, PendingFits, UnsubackAccepted
      <4>3. QED  BY <1>0, <4>1, <4>2, ListChanged
    <3>4. QED  BY <1>2, <3>1, <3>2, <3>3 DEF PollConnected, PollDisconnected
  <2>4. QED  BY <2>1, <2>2, <2>3, PacketOver DEF Over
<1>3. CASE \/ Stop \/ StopCall \/ StopRefused \/ PollBegin \/ PollEmpty \/ ReleaseMessage
           \/ PollLate \/ PollMessage \/ PollError \/ PollCompletion
  <2>1. OldNews
    BY <1>3, OwnerNews DEF Application, Stopping, Poll
  <2>2. UNCHANGED <<subscriptions, pending, confirmed, outbox>> /\ awaiting' \subseteq awaiting
    BY <1>3 DEF Stop, StopCall, StopRefused, PollBegin, PollEmpty, ReleaseMessage, PollLate,
       PollMessage, PollError, PollCompletion, Handles, Taken, ownerVars, sdkVars, history
  <2>3. QED  BY <2>1, <2>2, PacketPassive DEF Passive
<1>4. CASE Subscribe \/ Unsubscribe \/ Resubscribe
  <2>1. OldNews
    BY <1>4, OwnerNews DEF Application, Poll
  <2>2. QED  BY <1>4, <2>1, RequestKinds, PacketInVain, PacketAsked
<1>5. CASE Enqueue
  BY <1>5, PacketEnqueued
<1>6. CASE SdkEvent \/ SdkStep
  <2>1. UNCHANGED <<subscriptions, pending>>
    BY <1>6, WorkerActs
  <2>2. QED  BY <1>6, <2>1, WorkerNews, PacketPassive, PacketAnswered DEF Passive
<1>7. CASE DeadlinePasses \/ UNCHANGED vars
  <2>1. UNCHANGED <<subscriptions, pending, confirmed, outbox, awaiting, notices, worker>>
    BY <1>7 DEF DeadlinePasses, vars, ownerVars, sharedVars, sdkVars, history
  <2>2. OldNews
    BY <2>1 DEF OldNews, News, Like
  <2>3. QED  BY <2>1, <2>2, PacketPassive DEF Passive
<1>8. QED
  BY <1>1, <1>2, <1>3, <1>4, <1>5, <1>6, <1>7 DEF Next, Application, Stopping, Poll

SessionInv == RuntimeInv /\ IdleNotice /\ StateControl /\ PacketInv

\* A fresh runtime has no news and waits for nothing.
LEMMA SessionInvInit == Init => SessionInv
<1> SUFFICES ASSUME Init PROVE SessionInv
  OBVIOUS
<1>1. RuntimeInv
  BY RuntimeInvInit
<1>2. IdleNotice /\ StateControl
  BY DEF Init, IdleNotice, StateControl, WorkerIdle, NoNotice, OwnerAt
<1>3. /\ News = {NoNotice} /\ outbox = {} /\ awaiting = {} /\ subscriptions = << >>
      /\ pending = ClearedPending
  BY DEF Init, News, WorkerIdle, Range
<1>4. AwaitInv
  BY <1>3 DEF AwaitInv
<1>5. RequestInv
  BY <1>3 DEF RequestInv, ClearedPending, IsInjective
<1>6. AckInv
  BY <1>3 DEF AckInv, AckTrue, NoNotice
<1>7. FragmentErrors
  BY <1>3 DEF FragmentErrors, NoNotice
<1>8. QED  BY <1>1, <1>2, <1>4, <1>5, <1>6, <1>7 DEF SessionInv, PacketInv

\* Every step keeps it.
LEMMA SessionInvStep == SessionInv /\ [Next]_vars => SessionInv'
<1> SUFFICES ASSUME SessionInv, [Next]_vars PROVE SessionInv'
  OBVIOUS
<1>1. RuntimeInv' /\ TypeOK'
  BY RuntimeInvStep DEF SessionInv, RuntimeInv
<1>2. IdleNotice'
  BY IdleNoticeStep DEF SessionInv, RuntimeInv
<1>3. StateControl'
  BY StateControlStep DEF SessionInv, RuntimeInv
<1>4. PacketInv'
  BY <1>1, PacketStep DEF SessionInv, RuntimeInv
<1>5. QED  BY <1>1, <1>2, <1>3, <1>4 DEF SessionInv

\* What the owner knows of its session holds in every reachable state: an
\* answer in the queue is the answer to the request it is taken for
\* (emqtt.c:217-260, 510-543).
THEOREM SessionInvariant == Spec => []SessionInv
BY SessionInvInit, SessionInvStep, PTL DEF Spec

\* The list changes in four places.
LEMMA ListSteps ==
    ASSUME SessionInv, [Next]_vars
    PROVE  \/ subscriptions' = subscriptions
           \/ owner.pc = "none" \/ owner'.pc = "none"
           \/ \E f \in confirmed : subscriptions' = Append(subscriptions, f)
           \/ \E k \in DOMAIN subscriptions :
                 /\ subscriptions[k] \notin confirmed
                 /\ subscriptions' = RemoveAt(subscriptions, k)
<1>0. TypeOK /\ ControlInv /\ PacketInv /\ notices \in Seq(Notice)
  BY DEF SessionInv, RuntimeInv, TypeOK, TypeQueues
<1>1. CASE Create \/ Start \/ StopNotStarted \/ StopJoined
  BY <1>1 DEF Create, Start, StopNotStarted, StopJoined, Stopped, OwnerAt
<1>2. CASE PollSuback
  <2>1. CASE ~SubackAccepted \/ ~pending.dynamic
    BY <1>2, <2>1 DEF PollSuback, Acknowledged
  <2>2. CASE SubackAccepted /\ pending.dynamic
    <3>1. subscriptions' = Append(subscriptions, pending.subscription)
      BY <1>2, <2>2 DEF PollSuback, Acknowledged
    <3>2. Notified \in News /\ Notified.kind = "SUBACK"
      BY <1>0, <1>2, NewsQueue DEF PollSuback, Handles, Taken, News, Notified
    <3>3. pending.subscription \in confirmed
      BY <1>0, <2>2, <3>2 DEF SubackAccepted, PacketInv, AckInv, AckTrue
    <3>4. QED  BY <3>1, <3>3
  <2>3. QED  BY <2>1, <2>2
<1>3. CASE PollUnsubscribed
  <2>1. CASE ~UnsubackAccepted
    BY <1>3, <2>1 DEF PollUnsubscribed, Acknowledged
  <2>2. CASE UnsubackAccepted
    <3>1. subscriptions' = RemoveAt(subscriptions, pending.index)
      BY <1>3, <2>2 DEF PollUnsubscribed, Acknowledged
    <3>2. Notified \in News /\ Notified.kind = "UNSUBSCRIBED"
      BY <1>0, <1>3, NewsQueue DEF PollUnsubscribed, Handles, Taken, News, Notified
    <3>3. subscriptions[pending.index] \notin confirmed
      BY <1>0, <2>2, <3>2 DEF UnsubackAccepted, PacketInv, AckInv, AckTrue
    <3>4. pending.index \in DOMAIN subscriptions
      BY <1>0, <2>2 DEF UnsubackAccepted, ControlInv, PendingFits
    <3>5. QED  BY <3>1, <3>3, <3>4
  <2>3. QED  BY <2>1, <2>2
<1>4. CASE \/ Stop \/ StopCall \/ StopRefused \/ Enqueue \/ PollBegin \/ PollEmpty
           \/ ReleaseMessage \/ PollLate \/ PollMessage \/ PollError \/ PollCompletion
           \/ PollConnected \/ PollDisconnected
  BY <1>4 DEF Stop, StopCall, StopRefused, Enqueue, PollBegin, PollEmpty, ReleaseMessage,
     PollLate, PollMessage, PollError, PollCompletion, PollConnected, PollDisconnected, ownerVars
<1>5. CASE Subscribe \/ Unsubscribe \/ Resubscribe
  BY <1>0, <1>5, RequestSteps
<1>6. CASE SdkEvent \/ SdkStep
  BY <1>0, <1>6, WorkerActs
<1>7. CASE DeadlinePasses \/ UNCHANGED vars
  BY <1>7 DEF DeadlinePasses, vars, ownerVars
<1>8. QED
  BY <1>1, <1>2, <1>3, <1>4, <1>5, <1>6, <1>7 DEF Next, Application, Stopping, Poll

\* The desired list changes only with an acknowledgement that the broker sent
\* for that very filter: no answer of an earlier request, of an earlier
\* connection or after a lost one can change it, however notices and requests
\* interleave (emqtt.h:44-46; emqtt.c:518-543).
THEOREM AcknowledgedChange == Spec => OnlyAcknowledgedChange
<1>1. SessionInv /\ [Next]_vars =>
        [ \/ subscriptions' = subscriptions
          \/ owner.pc = "none" \/ owner'.pc = "none"
          \/ \E f \in confirmed : subscriptions' = Append(subscriptions, f)
          \/ \E k \in DOMAIN subscriptions :
                /\ subscriptions[k] \notin confirmed
                /\ subscriptions' = RemoveAt(subscriptions, k) ]_vars
  BY ListSteps
<1>2. QED  BY <1>1, SessionInvariant, PTL DEF Spec, OnlyAcknowledgedChange

-----------------------------------------------------------------------------
(***************************************************************************)
(* No publish is lost in silence.                                          *)
(***************************************************************************)
KeptIds == OutboxIds \cup {n.id : n \in News}

CompletionInv == Going /\ sdk.task = "alive" => awaiting \subseteq KeptIds

\* Only a new session makes a lost one go on.
LEMMA GoesOn ==
    ASSUME SessionInv, [Next]_vars, Going', ~Start
    PROVE  Going /\ started
<1>0. TypeOK /\ ControlInv /\ QuietWhenStopped /\ StateControl
  BY DEF SessionInv, RuntimeInv
<1>1. CASE Application \/ Stopping \/ Poll
  <2>0. UNCHANGED worker
    BY <1>1, OwnerActs
  <2>1. CASE Create \/ StopNotStarted \/ StopJoined
    BY <2>1 DEF Create, StopNotStarted, StopJoined, Stopped, Going
  <2>2. CASE Stop \/ Enqueue
    <3>1. UNCHANGED <<started, faulted, overflow>> /\ owner.pc = "idle"
      BY <2>2 DEF Stop, Enqueue, ownerVars, sharedVars
    <3>2. QED  BY <2>0, <3>1 DEF Going, LossFlagged
  <2>3. CASE StopCall
    BY <1>0, <2>3 DEF StopCall, Going, TypeOK, TypeRecords, OwnerControl
  <2>4. CASE StopRefused
    BY <2>0, <2>4 DEF StopRefused, sharedVars, Going, LossFlagged
  <2>5. CASE PollBegin
    BY <2>0, <2>5 DEF PollBegin, FailClosed, ownerVars, Going, LossFlagged
  <2>6. CASE PollEmpty \/ ReleaseMessage
    <3>1. UNCHANGED <<started, faulted>> /\ owner.pc \in {"recv", "release"}
      BY <2>6 DEF PollEmpty, ReleaseMessage, ownerVars
    <3>2. overflow => overflow'
      BY <2>6 DEF PollEmpty, ReleaseMessage, sharedVars
    <3>3. QED  BY <2>0, <3>1, <3>2 DEF Going, LossFlagged
  <2>7. CASE \/ PollLate \/ PollConnected \/ PollSuback \/ PollUnsubscribed
             \/ PollDisconnected \/ PollMessage \/ PollError \/ PollCompletion
    <3>1. UNCHANGED <<started, faulted, overflow>> /\ owner.pc = "recv"
      BY <2>7 DEF PollLate, PollConnected, PollSuback, PollUnsubscribed, PollDisconnected,
         PollMessage, PollError, PollCompletion, Handles, Taken
    <3>2. QED  BY <2>0, <3>1 DEF Going, LossFlagged
  <2>8. CASE Subscribe \/ Unsubscribe \/ Resubscribe
    <3>1. UNCHANGED <<started, faulted>> /\ owner.pc \in {"idle", "submit"}
      BY <1>0, <2>8, RequestKinds
    <3>2. ~AskedInVain
      BY DEF AskedInVain, FailClosed, Going
    <3>3. UNCHANGED overflow
      BY <1>0, <2>8, <3>2, RequestKinds DEF AskedToAdd, AskedAgain, AskedToRemove, Asked
    <3>4. QED  BY <2>0, <3>1, <3>3 DEF Going, LossFlagged
  <2>9. QED
    BY <1>1, <2>1, <2>2, <2>3, <2>4, <2>5, <2>6, <2>7, <2>8 DEF Application, Stopping, Poll
<1>2. CASE SdkEvent \/ SdkStep
  <2>1. UNCHANGED <<started, faulted, owner>>
    BY <1>0, <1>2, WorkerActs, SMTT(40)
  <2>2. overflow => overflow'
    BY <1>2 DEF SdkEvent, SdkStep, SdkConnected, SdkDisconnected, SdkAbort, Abort,
       SdkError, SdkStartError, SdkSuback, SdkUnsuback, SdkPuback, SdkExpired, SdkPublish,
       SdkExit, SdkNextFragment, SdkReadTimeout, AllocFails, Allocated, ReceiveMore,
       ReceiveRejected, ReceiveNoSlot, ReceiveComplete, Posted, PostFull, Dropped, Fragment,
       ReleaseReceiver, sharedVars
  <2>3. worker.pc = "drop" => overflow'
    BY <1>2 DEF SdkEvent, SdkStep, SdkConnected, SdkDisconnected, SdkAbort,
       SdkError, SdkStartError, SdkSuback, SdkUnsuback, SdkPuback, SdkExpired, SdkPublish,
       SdkExit, SdkNextFragment, SdkReadTimeout, AllocFails, Allocated, ReceiveMore,
       ReceiveRejected, ReceiveNoSlot, ReceiveComplete, Posted, PostFull, Dropped, Alive
  <2>4. QED  BY <2>1, <2>2, <2>3 DEF Going, LossFlagged
<1>3. CASE DeadlinePasses \/ UNCHANGED vars
  <2>1. UNCHANGED <<started, faulted, overflow, owner, worker>>
    BY <1>3 DEF DeadlinePasses, vars, ownerVars, sharedVars
  <2>2. QED  BY <2>1 DEF Going, LossFlagged
<1>4. QED  BY <1>1, <1>2, <1>3 DEF Next, Going

\* A step of the worker that goes on keeps every awaited identifier: in the
\* outbox, in its hand or in the queue.
LEMMA WorkerKeeps ==
    ASSUME SessionInv, SdkEvent \/ SdkStep, Going', sdk'.task = "alive"
    PROVE  awaiting' = awaiting /\ awaiting \cap KeptIds \subseteq KeptIds'
<1>0. /\ TypeOK /\ ControlInv /\ IdleNotice /\ PacketInv /\ NoId \notin awaiting
      /\ notices \in Seq(Notice) /\ worker.n \in Notice
  BY IdsAssumption DEF SessionInv, RuntimeInv, TypeOK, TypeSdk, TypeQueues, TypeRecords,
     WorkerControl
<1>2. CASE \E o \in outbox : Answered(o)
  BY <1>0, <1>2 DEF Answered, KeptIds, OutboxIds, News
<1>3. CASE Posted
  <2>1. Range(notices') = Range(notices) \cup {worker.n}
    BY <1>0, <1>3, NewsQueue DEF Posted
  <2>2. UNCHANGED <<outbox, awaiting>>
    BY <1>3 DEF Posted, sdkVars, history
  <2>3. QED  BY <2>1, <2>2 DEF KeptIds, OutboxIds, News
<1>4. CASE PostFull
  <2>1. worker'.pc = "drop"
    BY <1>0, <1>4 DEF PostFull, TypeOK, TypeRecords, WorkerControl
  <2>2. QED  BY <2>1 DEF Going, LossFlagged
<1>5. CASE Dropped
  BY <1>5 DEF Dropped, Going, LossFlagged
<1>6. CASE SdkExit
  BY <1>0, <1>6 DEF SdkExit, TypeOK, TypeSdk, SdkControl
<1>7. CASE /\ ~\E o \in outbox : Answered(o)
           /\ ~Posted /\ ~PostFull /\ ~Dropped /\ ~SdkExit
  <2>1. OldNews /\ UNCHANGED awaiting
    BY <1>0, <1>7, WorkerNews, SMTT(40)
  <2>2. worker.pc \notin {"post", "drop"}
    BY <1>7 DEF SdkEvent, SdkStep, SdkConnected, SdkDisconnected, SdkAbort,
       SdkError, SdkStartError, SdkSuback, SdkUnsuback, SdkPuback, SdkExpired, SdkPublish,
       SdkNextFragment, SdkReadTimeout, AllocFails, Allocated, ReceiveMore,
       ReceiveRejected, ReceiveNoSlot, ReceiveComplete, Alive
  <2>3. worker.n.id = NoId
    BY <1>0, <2>2, SMTT(40) DEF IdleNotice
  <2>4. UNCHANGED notices
    BY <1>7 DEF SdkEvent, SdkStep, SdkConnected, SdkDisconnected, SdkAbort, Abort,
       SdkError, SdkStartError, SdkSuback, SdkUnsuback, SdkPuback, SdkExpired, SdkPublish,
       SdkNextFragment, SdkReadTimeout, AllocFails, Allocated, ReceiveMore,
       ReceiveRejected, ReceiveNoSlot, ReceiveComplete, Fragment, sharedVars
  <2>5. \A o \in outbox : o.id \in awaiting => o \in outbox'
    <3>1. CASE SdkDisconnected \/ SdkAbort
      <4>1. outbox' = outbox \ SessionRequests
        BY <3>1 DEF SdkDisconnected, SdkAbort, Abort
      <4>2. QED  BY <1>0, <4>1 DEF SessionRequests, PacketInv, AwaitInv
    <3>2. CASE SdkSuback \/ SdkUnsuback \/ SdkPuback \/ SdkExpired
      BY <1>0, <1>7, <3>2, AnswerSteps, SMTT(40)
    <3>3. CASE ~(\/ SdkDisconnected \/ SdkAbort \/ SdkSuback \/ SdkUnsuback
                 \/ SdkPuback \/ SdkExpired)
      BY <1>7, <3>3 DEF SdkEvent, SdkStep, SdkConnected,
         SdkError, SdkStartError, SdkPublish,
         SdkNextFragment, SdkReadTimeout, AllocFails, Allocated, ReceiveMore,
         ReceiveRejected, ReceiveNoSlot, ReceiveComplete, Fragment, sdkVars
    <3>4. QED  BY <3>1, <3>2, <3>3
  <2>6. QED  BY <1>0, <2>1, <2>3, <2>4, <2>5 DEF KeptIds, OutboxIds, News
<1>8. QED  BY <1>2, <1>3, <1>4, <1>5, <1>6, <1>7

\* The owner keeps them too, but for the one whose completion it hands over.
LEMMA OwnerKeeps ==
    ASSUME SessionInv, Application \/ Stopping \/ Poll, Going', ~Start
    PROVE  awaiting' \cap KeptIds \subseteq KeptIds'
<1>0. /\ TypeOK /\ ControlInv /\ PacketInv /\ NoId \notin awaiting
      /\ notices \in Seq(Notice) /\ UNCHANGED worker
  BY OwnerActs, IdsAssumption DEF SessionInv, RuntimeInv, TypeOK, TypeSdk, TypeQueues
<1>1. CASE Create \/ StopNotStarted \/ StopJoined
  BY <1>1 DEF Create, StopNotStarted, StopJoined, Stopped, Going
<1>2. CASE Stop \/ StopRefused \/ PollBegin \/ PollEmpty \/ ReleaseMessage
  BY <1>0, <1>2 DEF Stop, StopRefused, PollBegin, PollEmpty, ReleaseMessage, sharedVars,
     sdkVars, KeptIds, OutboxIds, News
<1>3. CASE StopCall
  BY <1>0, <1>3 DEF StopCall, Going, TypeOK, TypeRecords, OwnerControl
<1>4. CASE Enqueue
  BY <1>0, <1>4 DEF Enqueue, sharedVars, KeptIds, OutboxIds, News
<1>5. CASE Subscribe \/ Unsubscribe \/ Resubscribe
  <2>1. ~AskedInVain
    BY DEF AskedInVain, FailClosed, Going
  <2>2. notices' = Restarted(notices) /\ outbox \subseteq outbox'
    BY <1>0, <1>5, <2>1, RequestKinds DEF AskedToAdd, AskedAgain, AskedToRemove, Asked
  <2>3. \A n \in Range(notices) : \E m \in Range(notices') : m.id = n.id
    BY <1>0, <2>2, NewsQueue DEF Like
  <2>4. QED  BY <1>0, <2>2, <2>3 DEF KeptIds, OutboxIds, News
<1>6. CASE \/ PollLate \/ PollConnected \/ PollSuback \/ PollUnsubscribed
           \/ PollDisconnected \/ PollMessage \/ PollError \/ PollCompletion
  <2>1. notices # << >> /\ notices' = Tail(notices) /\ UNCHANGED outbox
    BY <1>6 DEF PollLate, PollConnected, PollSuback, PollUnsubscribed, PollDisconnected,
       PollMessage, PollError, PollCompletion, Handles, Taken, sdkVars
  <2>2. Range(notices) = Range(notices') \cup {Notified}
    BY <1>0, <2>1, NewsQueue DEF Notified
  <2>3. Notified.id \notin awaiting'
    <3>1. CASE PollLate
      BY <3>1 DEF PollLate, FailClosed, Going
    <3>2. CASE PollCompletion
      BY <3>2 DEF PollCompletion
    <3>3. CASE ~PollLate /\ ~PollCompletion
      <4>1. UNCHANGED awaiting /\ Notified.kind \notin {"PUBACK", "DELETED"}
        BY <1>6, <3>3 DEF PollConnected, PollSuback, PollUnsubscribed, PollDisconnected,
           PollMessage, PollError, Handles, Acknowledged
      <4>2. Notified \in News
        BY <2>2 DEF News
      <4>3. QED  BY <1>0, <4>1, <4>2 DEF PacketInv, AwaitInv
    <3>4. QED  BY <3>1, <3>2, <3>3
  <2>4. QED  BY <1>0, <2>1, <2>2, <2>3 DEF KeptIds, OutboxIds, News
<1>7. QED
  BY <1>1, <1>2, <1>3, <1>4, <1>5, <1>6 DEF Application, Stopping, Poll

\* The publishes the application waits for stay accounted for.
LEMMA CompletionStep ==
    ASSUME SessionInv, CompletionInv, [Next]_vars
    PROVE  CompletionInv'
<1>0. SUFFICES ASSUME Going', sdk'.task = "alive" PROVE awaiting' \subseteq KeptIds'
  BY DEF CompletionInv
<1>1. /\ TypeOK /\ ControlInv /\ StateControl /\ started \in BOOLEAN
      /\ started <=> sdk.task # "none"
  BY DEF SessionInv, RuntimeInv, TypeOK, TypeFlags, ControlInv, SessionControl
<1>2. CASE Start
  BY <1>1, <1>2 DEF Start, history, StateControl
<1>3. CASE SdkEvent \/ SdkStep
  <2>1. sdk.task = "alive" /\ Going
    BY <1>0, <1>1, <1>3, WorkerActs, GoesOn DEF Next, Start, StateControl
  <2>2. QED  BY <1>0, <1>3, <2>1, WorkerKeeps DEF CompletionInv
<1>4. CASE (Application \/ Stopping \/ Poll) /\ ~Start
  <2>1. Going
    BY <1>0, <1>4, GoesOn DEF Next
  <2>2. awaiting' \cap KeptIds \subseteq KeptIds'
    BY <1>0, <1>4, OwnerKeeps
  <2>3. sdk.task = "alive"
    <3>1. CASE Create \/ StopNotStarted \/ StopJoined
      BY <1>0, <3>1 DEF Create, StopNotStarted, StopJoined, Stopped, Going
    <3>2. CASE StopCall
      BY <1>0, <1>1, <3>2 DEF StopCall, Going, TypeOK, TypeRecords, OwnerControl
    <3>3. CASE ~(Create \/ StopNotStarted \/ StopJoined \/ StopCall)
      <4>1. UNCHANGED sdk
        BY <1>1, <1>4, <3>3, RequestSteps DEF Application, Stopping, Poll, Stop, Enqueue,
           StopRefused, PollBegin, PollEmpty, ReleaseMessage, PollLate, PollConnected,
           PollSuback, PollUnsubscribed, PollDisconnected, PollMessage, PollError,
           PollCompletion, Handles, Taken, sdkVars
      <4>2. QED  BY <1>0, <4>1
    <3>4. QED  BY <3>1, <3>2, <3>3
  <2>4. CASE Enqueue
    <3>1. PICK id \in FreshIds : /\ outbox' = outbox \cup {Message("PUBLISH", id, << >>)}
                                 /\ awaiting' = awaiting \cup {id}
      BY <2>4 DEF Enqueue
    <3>2. Message("PUBLISH", id, << >>).id = id
      BY DEF Message
    <3>3. id \in KeptIds'
      BY <3>1, <3>2 DEF KeptIds, OutboxIds
    <3>4. QED  BY <2>1, <2>2, <2>3, <3>1, <3>3 DEF CompletionInv
  <2>5. CASE ~Enqueue
    <3>1. awaiting' \subseteq awaiting
      BY <1>1, <1>4, <2>5, RequestKinds DEF Application, Stopping, Poll, Create, Stop,
         StopNotStarted, StopCall, StopRefused, StopJoined, Stopped, PollBegin, PollEmpty,
         ReleaseMessage, PollLate, PollConnected, PollSuback, PollUnsubscribed,
         PollDisconnected, PollMessage, PollError, PollCompletion, Acknowledged, history
    <3>2. QED  BY <2>1, <2>2, <2>3, <3>1 DEF CompletionInv
  <2>6. QED  BY <2>4, <2>5
<1>5. CASE DeadlinePasses \/ UNCHANGED vars
  <2>1. UNCHANGED <<started, faulted, overflow, owner, worker, notices, outbox, sdk, awaiting>>
    BY <1>5 DEF DeadlinePasses, vars, ownerVars, sharedVars, sdkVars, history
  <2>2. Going /\ KeptIds' = KeptIds
    BY <1>0, <2>1 DEF Going, LossFlagged, KeptIds, OutboxIds, News
  <2>3. QED  BY <1>0, <2>1, <2>2 DEF CompletionInv
<1>6. QED  BY <1>2, <1>3, <1>4, <1>5 DEF Next

\* Every publish that the application was told is queued is in the outbox, or
\* its PUBACK or expiry is in the queue or in the worker's hand, until the
\* session ends or reports a loss: for any queue lengths and any interleaving of
\* poll with the callback (emqtt.c:178-192, 484-492, 573-592).
THEOREM PublishesKept == Spec => []NoSilentLoss
<1>1. Init => CompletionInv
  BY DEF Init, CompletionInv
<1>2. SessionInv /\ CompletionInv /\ [Next]_vars => CompletionInv'
  BY CompletionStep
<1>3. SessionInv /\ CompletionInv => NoSilentLoss
  <2> SUFFICES ASSUME CompletionInv, started, ~faulted, ~LossFlagged, sdk.task = "alive",
                      owner.pc \in {"idle", "recv", "submit", "release"}
               PROVE  awaiting \subseteq OutboxIds \cup {worker.n.id}
                                           \cup {notices[i].id : i \in DOMAIN notices}
    BY DEF NoSilentLoss
  <2>1. awaiting \subseteq KeptIds
    BY DEF CompletionInv, Going
  <2>2. QED  BY <2>1 DEF KeptIds, News, Range
<1>4. QED  BY <1>1, <1>2, <1>3, SessionInvariant, PTL DEF Spec

-----------------------------------------------------------------------------
(***************************************************************************)
(* What READY says about the broker.  Only some notices tell about the     *)
(* session; what matters of the news is whether one of them is there,      *)
(* which one came last and whether it is the only one.                     *)
(***************************************************************************)
SessionKinds == {"CONNECTED", "DISCONNECTED", "SUBACK", "UNSUBSCRIBED", "ERROR"}
Tells(n) == n.kind \in SessionKinds /\ n.error # "FRAGMENT"

Hushed(q) == \A k \in DOMAIN q : ~Tells(q[k])
LastIn(q, n) == \E k \in DOMAIN q : /\ q[k] = n /\ Tells(n)
                                    /\ \A j \in DOMAIN q : j > k => ~Tells(q[j])
OnlyIn(q, n) == \E k \in DOMAIN q : /\ q[k] = n /\ Tells(n)
                                    /\ \A j \in DOMAIN q : j # k => ~Tells(q[j])

Silent == Hushed(notices) /\ ~Tells(worker.n)
LastTold(n) == IF Tells(worker.n) THEN n = worker.n ELSE LastIn(notices, n)
OnlyTold(n) == IF Tells(worker.n) THEN n = worker.n /\ Hushed(notices) ELSE OnlyIn(notices, n)

\* A posted notice is the last one.
LEMMA ToldAppend ==
    ASSUME NEW q \in Seq(Notice), NEW w \in Notice
    PROVE  /\ Hushed(Append(q, w)) => Hushed(q) /\ ~Tells(w)
           /\ \A n : LastIn(Append(q, w), n) => IF Tells(w) THEN n = w ELSE LastIn(q, n)
           /\ \A n : OnlyIn(Append(q, w), n)
                        => IF Tells(w) THEN n = w /\ Hushed(q) ELSE OnlyIn(q, n)
<1> DEFINE p == Append(q, w)
<1>1. /\ DOMAIN p = 1 .. Len(q) + 1 /\ DOMAIN q = 1 .. Len(q) /\ Len(q) \in Nat
      /\ \A i \in 1 .. Len(q) : p[i] = q[i]
      /\ p[Len(q) + 1] = w
  OBVIOUS
<1> HIDE DEF p
<1>2. Hushed(p) => Hushed(q) /\ ~Tells(w)
  BY <1>1 DEF Hushed
<1>3. ASSUME NEW n, LastIn(p, n)
      PROVE  IF Tells(w) THEN n = w ELSE LastIn(q, n)
  <2>1. PICK k \in DOMAIN p : /\ p[k] = n /\ Tells(n)
                              /\ \A j \in DOMAIN p : j > k => ~Tells(p[j])
    BY <1>3 DEF LastIn
  <2>2. CASE k = Len(q) + 1
    BY <1>1, <2>1, <2>2
  <2>3. CASE k # Len(q) + 1
    <3>1. k \in DOMAIN q /\ q[k] = n /\ Len(q) + 1 \in DOMAIN p /\ Len(q) + 1 > k
      BY <1>1, <2>1, <2>3
    <3>2. ~Tells(w)
      BY <1>1, <2>1, <3>1
    <3>3. \A j \in DOMAIN q : j > k => ~Tells(q[j])
      BY <1>1, <2>1
    <3>4. QED  BY <2>1, <3>1, <3>2, <3>3 DEF LastIn
  <2>4. QED  BY <2>2, <2>3
<1>4. ASSUME NEW n, OnlyIn(p, n)
      PROVE  IF Tells(w) THEN n = w /\ Hushed(q) ELSE OnlyIn(q, n)
  <2>1. PICK k \in DOMAIN p : /\ p[k] = n /\ Tells(n)
                              /\ \A j \in DOMAIN p : j # k => ~Tells(p[j])
    BY <1>4 DEF OnlyIn
  <2>2. CASE k = Len(q) + 1
    <3>1. \A j \in DOMAIN q : j \in DOMAIN p /\ j # k /\ p[j] = q[j]
      BY <1>1, <2>2
    <3>2. QED  BY <1>1, <2>1, <2>2, <3>1 DEF Hushed
  <2>3. CASE k # Len(q) + 1
    <3>1. k \in DOMAIN q /\ q[k] = n /\ Len(q) + 1 \in DOMAIN p
      BY <1>1, <2>1, <2>3
    <3>2. ~Tells(w)
      BY <1>1, <2>1, <2>3, <3>1
    <3>3. \A j \in DOMAIN q : j # k => ~Tells(q[j])
      BY <1>1, <2>1
    <3>4. QED  BY <2>1, <3>1, <3>2, <3>3 DEF OnlyIn
  <2>4. QED  BY <2>2, <2>3
<1>5. QED  BY <1>2, <1>3, <1>4 DEF p

\* The notice that is taken was the first one.
LEMMA ToldTail ==
    ASSUME NEW q \in Seq(Notice), q # << >>
    PROVE  /\ ~Tells(Head(q)) => /\ Hushed(Tail(q)) => Hushed(q)
                                 /\ \A n : OnlyIn(Tail(q), n) => OnlyIn(q, n)
           /\ Tells(Head(q)) /\ Hushed(Tail(q)) => LastIn(q, Head(q)) /\ OnlyIn(q, Head(q))
           /\ \A n : LastIn(Tail(q), n) => LastIn(q, n)
<1> DEFINE p == Tail(q)
<1>1. /\ DOMAIN p = 1 .. Len(q) - 1 /\ DOMAIN q = 1 .. Len(q)
      /\ Len(q) \in Nat /\ Len(q) > 0
      /\ \A i \in 1 .. Len(q) - 1 : p[i] = q[i + 1]
      /\ Head(q) = q[1]
  OBVIOUS
<1> HIDE DEF p
<1>2. ASSUME NEW j \in DOMAIN q
      PROVE  j = 1 \/ (j - 1 \in DOMAIN p /\ q[j] = p[j - 1])
  BY <1>1
<1>3. ~Tells(Head(q)) /\ Hushed(p) => Hushed(q)
  BY <1>1, <1>2 DEF Hushed
<1>4. ASSUME Tells(Head(q)), Hushed(p) PROVE LastIn(q, Head(q)) /\ OnlyIn(q, Head(q))
  <2>1. 1 \in DOMAIN q /\ \A j \in DOMAIN q : j # 1 => ~Tells(q[j])
    BY <1>1, <1>2, <1>4 DEF Hushed
  <2>2. \A j \in DOMAIN q : j > 1 => j # 1
    BY <1>1
  <2>3. QED  BY <1>1, <1>4, <2>1, <2>2 DEF LastIn, OnlyIn
<1>5. ASSUME NEW n, LastIn(p, n) PROVE LastIn(q, n)
  <2>1. PICK k \in DOMAIN p : /\ p[k] = n /\ Tells(n)
                              /\ \A j \in DOMAIN p : j > k => ~Tells(p[j])
    BY <1>5 DEF LastIn
  <2>2. k + 1 \in DOMAIN q /\ q[k + 1] = n
    BY <1>1, <2>1
  <2>3. ASSUME NEW j \in DOMAIN q, j > k + 1 PROVE ~Tells(q[j])
    <3>1. j - 1 \in DOMAIN p /\ q[j] = p[j - 1] /\ j - 1 > k
      BY <1>1, <2>3
    <3>2. QED  BY <2>1, <3>1
  <2>4. QED  BY <2>1, <2>2, <2>3 DEF LastIn
<1>6. ASSUME NEW n, OnlyIn(p, n), ~Tells(Head(q)) PROVE OnlyIn(q, n)
  <2>1. PICK k \in DOMAIN p : /\ p[k] = n /\ Tells(n)
                              /\ \A j \in DOMAIN p : j # k => ~Tells(p[j])
    BY <1>6 DEF OnlyIn
  <2>2. k + 1 \in DOMAIN q /\ q[k + 1] = n
    BY <1>1, <2>1
  <2>3. ASSUME NEW j \in DOMAIN q, j # k + 1 PROVE ~Tells(q[j])
    <3>1. CASE j = 1
      BY <1>1, <1>6, <3>1
    <3>2. CASE j # 1
      <4>1. j - 1 \in DOMAIN p /\ q[j] = p[j - 1] /\ j - 1 # k
        BY <1>1, <2>3, <3>2
      <4>2. QED  BY <2>1, <4>1
    <3>3. QED  BY <3>1, <3>2
  <2>4. QED  BY <2>1, <2>2, <2>3 DEF OnlyIn
<1>7. QED  BY <1>3, <1>4, <1>5, <1>6 DEF p

\* A new deadline changes nothing of what is told.
LEMMA ToldRestarted ==
    ASSUME NEW q \in Seq(Notice)
    PROVE  /\ Hushed(Restarted(q)) => Hushed(q)
           /\ \A n : LastIn(Restarted(q), n) => \E m : LastIn(q, m) /\ Like(n, m)
           /\ \A n : OnlyIn(Restarted(q), n) => \E m : OnlyIn(q, m) /\ Like(n, m)
<1>1. DOMAIN Restarted(q) = DOMAIN q
  BY DEF Restarted
<1>2. ASSUME NEW i \in DOMAIN q
      PROVE  Like(Restarted(q)[i], q[i]) /\ (Tells(Restarted(q)[i]) <=> Tells(q[i]))
  <2>1. q[i] \in Notice
    BY <1>2
  <2>2. Restarted(q)[i] = [q[i] EXCEPT !.late = FALSE]
    BY <1>2 DEF Restarted
  <2>3. Like(Restarted(q)[i], q[i])
    BY <2>1, <2>2 DEF Like, Notice
  <2>4. QED  BY <2>3 DEF Like, Tells
<1> HIDE DEF Restarted
<1>3. Hushed(Restarted(q)) => Hushed(q)
  BY <1>1, <1>2 DEF Hushed
<1>4. ASSUME NEW n, LastIn(Restarted(q), n) PROVE \E m : LastIn(q, m) /\ Like(n, m)
  <2>1. PICK k \in DOMAIN q : /\ Restarted(q)[k] = n /\ Tells(n)
                              /\ \A j \in DOMAIN q : j > k => ~Tells(Restarted(q)[j])
    BY <1>1, <1>4 DEF LastIn
  <2>2. LastIn(q, q[k]) /\ Like(n, q[k])
    BY <1>2, <2>1 DEF LastIn
  <2>3. QED  BY <2>2
<1>5. ASSUME NEW n, OnlyIn(Restarted(q), n) PROVE \E m : OnlyIn(q, m) /\ Like(n, m)
  <2>1. PICK k \in DOMAIN q : /\ Restarted(q)[k] = n /\ Tells(n)
                              /\ \A j \in DOMAIN q : j # k => ~Tells(Restarted(q)[j])
    BY <1>1, <1>5 DEF OnlyIn
  <2>2. OnlyIn(q, q[k]) /\ Like(n, q[k])
    BY <1>2, <2>1 DEF OnlyIn
  <2>3. QED  BY <2>2
<1>6. QED  BY <1>3, <1>4, <1>5

\* The connection is up and the broker's session holds exactly these filters.
Holds(S) == sdk.link /\ broker = S

\* What it holds while a request is under way: a new session starts empty.
Base == IF pending.subscribe # NoId /\ ~pending.dynamic THEN {} ELSE Range(subscriptions)

\* What it holds when the only news is the answer to that request.
Matches(n) ==
    /\ n.kind = "SUBACK" /\ n.id = pending.subscribe /\ n.id # NoId
          => Holds(Base \cup Grants(Requested, n.codes))
    /\ n.kind = "UNSUBSCRIBED" /\ n.id = pending.unsubscribe /\ n.id # NoId
          => Holds(Base \ {subscriptions[pending.index]})

Polls == owner.pc \in {"idle", "recv", "release"}

AfterConnect == \A n : LastTold(n) /\ n.kind = "CONNECTED" => Holds({})
WhenSilent == Silent => /\ Polls /\ state = "READY" => Holds(Range(subscriptions))
                        /\ Polls /\ state = "SUBSCRIBING" => Holds(Base)
                        /\ owner.pc = "submit" => Holds({})
WhenAnswered == Polls /\ state = "SUBSCRIBING" => \A n : OnlyTold(n) => Matches(n)

\* While the session goes on, what the owner has not seen explains every
\* difference between its view and the broker's.
BrokerInv == Going => AfterConnect /\ WhenSilent /\ WhenAnswered

\* Nothing is told.
Untold == /\ Silent' => Silent
          /\ \A n : LastTold(n)' => \E m : LastTold(m) /\ Like(n, m)
          /\ \A n : OnlyTold(n)' => \E m : OnlyTold(m) /\ Like(n, m)

\* The steps that tell nothing.
LEMMA UntoldSteps ==
    ASSUME notices \in Seq(Notice), worker.n \in Notice,
           \/ UNCHANGED notices /\ worker'.n = worker.n
           \/ UNCHANGED notices /\ ~Tells(worker.n) /\ ~Tells(worker'.n)
           \/ notices' = Append(notices, worker.n) /\ ~Tells(worker'.n)
           \/ notices # << >> /\ notices' = Tail(notices) /\ ~Tells(Notified) /\ UNCHANGED worker
           \/ notices' = Restarted(notices) /\ UNCHANGED worker
    PROVE  Untold
<1>0. \A n : Like(n, n)
  BY DEF Like
<1>1. CASE UNCHANGED notices /\ worker'.n = worker.n
  BY <1>0, <1>1 DEF Untold, Silent, LastTold, OnlyTold
<1>2. CASE UNCHANGED notices /\ ~Tells(worker.n) /\ ~Tells(worker'.n)
  BY <1>0, <1>2 DEF Untold, Silent, LastTold, OnlyTold
<1>3. CASE notices' = Append(notices, worker.n) /\ ~Tells(worker'.n)
  <2>1. Silent' => Silent
    BY <1>3, ToldAppend DEF Silent
  <2>2. \A n : LastTold(n)' => LastTold(n)
    BY <1>3, ToldAppend DEF LastTold
  <2>3. \A n : OnlyTold(n)' => OnlyTold(n)
    BY <1>3, ToldAppend DEF OnlyTold
  <2>4. QED  BY <1>0, <2>1, <2>2, <2>3 DEF Untold
<1>4. CASE notices # << >> /\ notices' = Tail(notices) /\ ~Tells(Notified) /\ UNCHANGED worker
  <2>1. /\ Hushed(notices') => Hushed(notices)
        /\ \A n : OnlyIn(notices', n) => OnlyIn(notices, n)
        /\ \A n : LastIn(notices', n) => LastIn(notices, n)
    BY <1>4, ToldTail DEF Notified
  <2>2. Silent' => Silent
    BY <1>4, <2>1 DEF Silent
  <2>3. \A n : LastTold(n)' => LastTold(n)
    BY <1>4, <2>1 DEF LastTold
  <2>4. \A n : OnlyTold(n)' => OnlyTold(n)
    BY <1>4, <2>1 DEF OnlyTold
  <2>5. QED  BY <1>0, <2>2, <2>3, <2>4 DEF Untold
<1>5. CASE notices' = Restarted(notices) /\ UNCHANGED worker
  <2>1. /\ Hushed(notices') => Hushed(notices)
        /\ \A n : LastIn(notices', n) => \E m : LastIn(notices, m) /\ Like(n, m)
        /\ \A n : OnlyIn(notices', n) => \E m : OnlyIn(notices, m) /\ Like(n, m)
    BY <1>5, ToldRestarted
  <2>2. Silent' => Silent
    BY <1>5, <2>1 DEF Silent
  <2>3. \A n : LastTold(n)' => \E m : LastTold(m) /\ Like(n, m)
    BY <1>0, <1>5, <2>1 DEF LastTold
  <2>4. \A n : OnlyTold(n)' => \E m : OnlyTold(m) /\ Like(n, m)
    BY <1>0, <1>5, <2>1 DEF OnlyTold
  <2>5. QED  BY <2>2, <2>3, <2>4 DEF Untold
<1>6. QED  BY <1>1, <1>2, <1>3, <1>4, <1>5

\* A step that tells nothing and changes neither list nor broker.
LEMMA BrokerUntold ==
    ASSUME BrokerInv, Going, Untold, UNCHANGED <<subscriptions, pending>>,
           sdk'.link = sdk.link, sdk.link => broker' = broker,
           Polls' /\ state' \in {"READY", "SUBSCRIBING"} => Polls /\ state' = state,
           owner'.pc = "submit" => owner.pc = "submit"
    PROVE  BrokerInv'
<1>0. AfterConnect /\ WhenSilent /\ WhenAnswered
  BY DEF BrokerInv
<1>1. \A S : Holds(S) => Holds(S)'
  BY DEF Holds
<1>2. Base' = Base /\ Requested' = Requested
  BY DEF Base, Requested
<1>3. AfterConnect'
  BY <1>0, <1>1 DEF AfterConnect, Untold, Like
<1>4. WhenSilent'
  BY <1>0, <1>1, <1>2 DEF WhenSilent, Untold
<1>5. WhenAnswered'
  <2> SUFFICES ASSUME Polls', state' = "SUBSCRIBING", NEW n, OnlyTold(n)' PROVE Matches(n)'
    BY DEF WhenAnswered
  <2>1. PICK m : OnlyTold(m) /\ Like(n, m)
    BY DEF Untold
  <2>2. Matches(m)
    BY <1>0, <2>1 DEF WhenAnswered
  <2>3. QED  BY <1>1, <1>2, <2>1, <2>2 DEF Matches, Like
<1>6. QED  BY <1>3, <1>4, <1>5 DEF BrokerInv

\* The worker tells something.
LEMMA BrokerTold ==
    ASSUME BrokerInv, ~Tells(worker.n), Tells(worker'.n), UNCHANGED notices,
           worker'.n.kind = "CONNECTED" => Holds({})',
           UNCHANGED <<state, owner>>,
           Silent /\ Polls /\ state = "SUBSCRIBING" => Matches(worker.n)'
    PROVE  BrokerInv'
<1>1. AfterConnect'
  BY DEF AfterConnect, LastTold
<1>2. WhenSilent'
  BY DEF WhenSilent, Silent
<1>3. WhenAnswered'
  <2> SUFFICES ASSUME Polls', state' = "SUBSCRIBING", NEW n, OnlyTold(n)' PROVE Matches(n)'
    BY DEF WhenAnswered
  <2>1. n = worker'.n /\ Hushed(notices)
    BY DEF OnlyTold
  <2>2. Silent /\ Polls
    BY <2>1 DEF Silent, Polls
  <2>3. QED  BY <2>1, <2>2
<1>4. QED  BY <1>1, <1>2, <1>3 DEF BrokerInv

\* An answer: the broker's session changes by what the answer says.
LEMMA BrokerAnswered ==
    ASSUME SessionInv, BrokerInv, Going, UNCHANGED <<subscriptions, pending, state, owner>>,
           NEW o \in outbox, Answered(o)
    PROVE  BrokerInv'
<1>0. /\ notices \in Seq(Notice) /\ worker.n \in Notice /\ ~Tells(worker.n)
      /\ UNCHANGED <<notices, sdk>> /\ Base' = Base /\ Requested' = Requested
  BY DEF SessionInv, RuntimeInv, TypeOK, TypeQueues, TypeRecords, WorkerControl, Answered, Tells,
     SessionKinds, Base, Requested
<1>1. o.id # NoId /\ RequestInv
  BY IdsAssumption DEF SessionInv, RuntimeInv, TypeOK, TypeSdk, OutboxItem, PacketInv
<1>2. CASE worker'.n.kind \in {"PUBACK", "DELETED"}
  <2>1. ~Tells(worker'.n) /\ broker' = broker
    BY <1>2 DEF Answered, Tells, SessionKinds
  <2>2. Untold
    BY <1>0, <2>1, UntoldSteps
  <2>3. QED  BY <1>0, <2>1, <2>2, BrokerUntold DEF Polls
<1>3. CASE worker'.n.kind = "SUBACK"
  <2>1. Tells(worker'.n) /\ o.type = "SUBSCRIBE" /\ worker'.n.id = o.id
        /\ broker' = broker \cup Grants(o.topics, worker'.n.codes)
    BY <1>3 DEF Answered, Tells, SessionKinds
  <2>2. ASSUME Silent, Polls, state = "SUBSCRIBING" PROVE Matches(worker.n)'
    <3>1. Holds(Base)
      BY <2>2 DEF BrokerInv, WhenSilent
    <3>2. o.id = pending.subscribe => o.topics = Requested
      BY <1>1, <2>1 DEF RequestInv
    <3>3. o.id = pending.subscribe => Holds(Base \cup Grants(Requested, worker.n.codes))'
      BY <1>0, <2>1, <3>1, <3>2 DEF Holds
    <3>4. QED  BY <1>3, <2>1, <3>3 DEF Matches
  <2>3. QED  BY <1>0, <1>3, <2>1, <2>2, BrokerTold
<1>4. CASE worker'.n.kind = "UNSUBSCRIBED"
  <2>1. Tells(worker'.n) /\ o.type = "UNSUBSCRIBE" /\ worker'.n.id = o.id
        /\ broker' = broker \ Range(o.topics)
    BY <1>4 DEF Answered, Tells, SessionKinds
  <2>2. ASSUME Silent, Polls, state = "SUBSCRIBING" PROVE Matches(worker.n)'
    <3>1. Holds(Base)
      BY <2>2 DEF BrokerInv, WhenSilent
    <3>2. o.id = pending.unsubscribe => o.topics = <<subscriptions[pending.index]>>
      BY <1>1, <2>1 DEF RequestInv
    <3>3. Range(<<subscriptions[pending.index]>>) = {subscriptions[pending.index]}
      BY DEF Range
    <3>4. o.id = pending.unsubscribe => Holds(Base \ {subscriptions[pending.index]})'
      BY <1>0, <2>1, <3>1, <3>2, <3>3 DEF Holds
    <3>5. QED  BY <1>4, <2>1, <3>4 DEF Matches
  <2>3. QED  BY <1>0, <1>4, <2>1, <2>2, BrokerTold
<1>5. QED  BY <1>2, <1>3, <1>4 DEF Answered

\* The worker keeps the owner's view explained.
LEMMA BrokerWorker ==
    ASSUME SessionInv, BrokerInv, SdkEvent \/ SdkStep, Going'
    PROVE  BrokerInv'
<1>0. /\ TypeOK /\ ControlInv /\ IdleNotice /\ StateControl
      /\ notices \in Seq(Notice) /\ worker.n \in Notice
      /\ sdk \in [run : BOOLEAN, link : BOOLEAN, task : {"none", "alive", "exited"}]
  BY DEF SessionInv, RuntimeInv, TypeOK, TypeQueues, TypeRecords, WorkerControl, TypeSdk,
     SdkControl
<1>1. started /\ UNCHANGED <<state, started, subscriptions, pending, owner>>
  BY <1>0, WorkerActs
<1>2. Going
  BY <1>1, GoesOn DEF Next, Start
<1>3. worker.pc \notin {"post", "drop"} => ~Tells(worker.n)
  BY <1>0 DEF IdleNotice, Tells, SessionKinds
<1>4. ASSUME Untold, sdk'.link = sdk.link, sdk.link => broker' = broker PROVE BrokerInv'
  BY <1>1, <1>2, <1>4, BrokerUntold DEF Polls
<1>5. ASSUME NEW w, Fragment(w), worker.pc \notin {"post", "drop"} PROVE BrokerInv'
  <2>1. ~Tells(worker'.n)
    BY <1>5, FragmentNotice DEF Tells, SessionKinds
  <2>2. UNCHANGED <<notices, sdk, broker>>
    BY <1>5 DEF Fragment, sdkVars
  <2>3. QED  BY <1>0, <1>3, <1>4, <1>5, <2>1, <2>2, UntoldSteps
<1>6. CASE SdkConnected
  <2>1. worker'.n = [Arrived EXCEPT !.kind = "CONNECTED"] /\ worker.pc = "free"
        /\ UNCHANGED notices /\ sdk' = [sdk EXCEPT !.link = TRUE] /\ broker' = {}
    BY <1>0, <1>6, CallbackPost DEF SdkConnected, Alive
  <2>2. worker'.n.kind = "CONNECTED" /\ worker'.n.error = "NONE"
    BY <2>1 DEF Arrived, NoNotice
  <2>3. Holds({})' /\ Matches(worker.n)' /\ Tells(worker'.n)
    BY <1>0, <2>1, <2>2 DEF Holds, Matches, Tells, SessionKinds
  <2>4. QED  BY <1>1, <1>3, <2>1, <2>3, BrokerTold
<1>7. CASE SdkDisconnected \/ SdkAbort \/ SdkError \/ SdkStartError
  <2>1. /\ \/ worker'.n = [Arrived EXCEPT !.kind = "DISCONNECTED"]
           \/ worker'.n = [Arrived EXCEPT !.kind = "ERROR", !.error = "SDK"]
        /\ worker.pc \in {"free", "abort", "reading"} /\ UNCHANGED notices
    BY <1>0, <1>7, CallbackPost DEF SdkDisconnected, SdkAbort, Abort, SdkError, SdkStartError,
       Alive, sharedVars
  <2>2. worker'.n.kind \in {"DISCONNECTED", "ERROR"} /\ worker'.n.error # "FRAGMENT"
    BY <2>1 DEF Arrived, NoNotice
  <2>3. Matches(worker.n)' /\ Tells(worker'.n) /\ worker'.n.kind # "CONNECTED"
    BY <2>2 DEF Matches, Tells, SessionKinds
  <2>4. QED  BY <1>1, <1>3, <2>1, <2>3, BrokerTold
<1>8. CASE SdkSuback \/ SdkUnsuback \/ SdkPuback \/ SdkExpired
  BY <1>0, <1>1, <1>2, <1>8, AnswerSteps, BrokerAnswered
<1>9. CASE SdkPublish \/ SdkNextFragment
  BY <1>5, <1>9 DEF SdkPublish, SdkNextFragment, Alive
<1>10. CASE SdkExit
  <2>1. ~sdk.link /\ ~sdk'.link
    BY <1>0, <1>2, <1>10 DEF SdkExit, StateControl, Going
  <2>2. Untold
    BY <1>0, <1>10, UntoldSteps DEF SdkExit, sharedVars
  <2>3. sdk'.link = sdk.link
    BY <1>0, <1>10, <2>1 DEF SdkExit
  <2>4. QED  BY <1>4, <2>1, <2>2, <2>3
<1>11. CASE SdkReadTimeout \/ ReceiveMore
  <2>1. worker'.n = NoNotice /\ UNCHANGED <<notices, sdk, broker>>
        /\ worker.pc \in {"reading", "receive"}
    BY <1>0, <1>11, AfterFragmentControl DEF SdkReadTimeout, ReceiveMore, WorkerIdle, sharedVars,
       sdkVars
  <2>2. ~Tells(worker'.n)
    BY <2>1 DEF NoNotice, Tells, SessionKinds
  <2>3. QED  BY <1>0, <1>3, <1>4, <2>1, <2>2, UntoldSteps
<1>12. CASE Allocated
  <2>1. worker'.n = worker.n /\ UNCHANGED <<notices, sdk, broker>>
    BY <1>0, <1>12 DEF Allocated, TypeOK, TypeRecords, WorkerControl, sharedVars, sdkVars
  <2>2. QED  BY <1>0, <1>4, <2>1, UntoldSteps
<1>13. CASE ReceiveRejected \/ ReceiveComplete
  <2>1. /\ \/ worker'.n = [worker.n EXCEPT !.kind = "ERROR", !.error = "FRAGMENT"]
           \/ \E s : worker'.n = [worker.n EXCEPT !.kind = "MESSAGE", !.slot = s]
        /\ worker.pc = "receive" /\ UNCHANGED <<notices, sdk, broker>>
    BY <1>0, <1>13, CallbackPost DEF ReceiveRejected, ReceiveComplete, sdkVars
  <2>2. ~Tells(worker'.n)
    BY <1>0, <2>1 DEF Notice, Tells, SessionKinds
  <2>3. QED  BY <1>0, <1>3, <1>4, <2>1, <2>2, UntoldSteps
<1>14. CASE Posted
  <2>1. notices' = Append(notices, worker.n) /\ UNCHANGED <<sdk, broker>>
        /\ worker'.n = NoNotice
    BY <1>0, <1>14, ReturnedControl DEF Posted, WorkerIdle, sdkVars
  <2>2. ~Tells(worker'.n)
    BY <2>1 DEF NoNotice, Tells, SessionKinds
  <2>3. QED  BY <1>0, <1>4, <2>1, <2>2, UntoldSteps
<1>15. CASE PostFull
  <2>1. worker'.pc = "drop"
    BY <1>0, <1>15 DEF PostFull, TypeOK, TypeRecords, WorkerControl
  <2>2. QED  BY <2>1 DEF Going, LossFlagged
<1>16. CASE Dropped \/ AllocFails \/ ReceiveNoSlot
  BY <1>16 DEF Dropped, AllocFails, ReceiveNoSlot, Going, LossFlagged
<1>17. QED
  BY <1>6, <1>7, <1>8, <1>9, <1>10, <1>11, <1>12, <1>13, <1>14, <1>15, <1>16
     DEF SdkEvent, SdkStep

\* A request starts from what the broker holds, and no news answers it yet.
LEMMA BrokerAsked ==
    ASSUME SessionInv, BrokerInv, Going, UNCHANGED <<subscriptions, worker, sdk, broker>>,
           \/ \E o, f : AskedToAdd(o, f)
           \/ \E o : AskedAgain(o)
           \/ \E o, k : AskedToRemove(o, k)
    PROVE  BrokerInv'
<1>0. /\ TypeOK /\ IdleNotice /\ notices \in Seq(Notice) /\ worker.n \in Notice
      /\ AfterConnect /\ WhenSilent
  BY DEF SessionInv, RuntimeInv, TypeOK, TypeQueues, TypeRecords, WorkerControl, BrokerInv
<1>1. PICK o : /\ Asked(o)
               /\ \/ \E f : AskedToAdd(o, f)
                  \/ AskedAgain(o)
                  \/ \E k : AskedToRemove(o, k)
  BY DEF AskedToAdd, AskedAgain, AskedToRemove
<1>2. /\ LockFree /\ o.id \in FreshIds /\ notices' = Restarted(notices)
      /\ state' = "SUBSCRIBING" /\ owner'.pc = "idle"
  BY <1>1 DEF Asked, OwnerAt
<1>3. o.id # NoId /\ \A n \in News : n.id # o.id
  BY <1>0, <1>2, FreshId
<1>4. Untold
  BY <1>0, <1>2, UntoldSteps
<1>5. \A S : Holds(S) => Holds(S)'
  BY DEF Holds
<1>6. AfterConnect'
  BY <1>0, <1>4, <1>5 DEF AfterConnect, Untold, Like
<1>7. Silent => Holds(Base')
  <2>1. ASSUME NEW f, AskedToAdd(o, f), Silent PROVE Holds(Base')
    <3>1. Base' = Range(subscriptions) /\ Polls /\ state = "READY"
      BY <2>1 DEF AskedToAdd, Base, Polls
    <3>2. QED  BY <1>0, <2>1, <3>1 DEF WhenSilent
  <2>2. ASSUME AskedAgain(o), Silent PROVE Holds(Base')
    <3>1. Base' = {} /\ owner.pc = "submit"
      BY <1>3, <2>2 DEF AskedAgain, Base
    <3>2. QED  BY <1>0, <2>2, <3>1 DEF WhenSilent
  <2>3. ASSUME NEW k, AskedToRemove(o, k), Silent PROVE Holds(Base')
    <3>1. Base' = Range(subscriptions) /\ Polls /\ state = "READY"
      BY <2>3 DEF AskedToRemove, Base, Polls
    <3>2. QED  BY <1>0, <2>3, <3>1 DEF WhenSilent
  <2>4. QED  BY <1>1, <2>1, <2>2, <2>3
<1>8. WhenSilent'
  <2>1. Silent' => Holds(Base)'
    BY <1>4, <1>5, <1>7 DEF Untold
  <2>2. QED  BY <1>2, <2>1 DEF WhenSilent
<1>9. WhenAnswered'
  <2> SUFFICES ASSUME NEW n, OnlyTold(n)' PROVE Matches(n)'
    BY DEF WhenAnswered
  <2>1. PICK m : OnlyTold(m) /\ Like(n, m)
    BY <1>4 DEF Untold
  <2>2. m \in News
    BY <2>1 DEF OnlyTold, OnlyIn, News, Range
  <2>3. n.id # o.id
    BY <1>3, <2>1, <2>2 DEF Like
  <2>4. pending'.subscribe \in {o.id, NoId} /\ pending'.unsubscribe \in {o.id, NoId}
    BY <1>1 DEF AskedToAdd, AskedAgain, AskedToRemove
  <2>5. QED  BY <2>3, <2>4 DEF Matches
<1>10. QED  BY <1>6, <1>8, <1>9 DEF BrokerInv

\* The codes of a valid SUBACK grant the whole request.
LEMMA GrantedAll ==
    ASSUME NEW codes \in Seq(SubackCodes), NEW topics \in Seq(Filters), NEW count,
           SubackValid(codes, topics, count), count = Len(topics)
    PROVE  Grants(topics, codes) = Range(topics)
<1>1. /\ Len(codes) = Len(topics) /\ \A i \in 1 .. Len(topics) : codes[i] <= 1
      /\ DOMAIN codes = 1 .. Len(codes) /\ DOMAIN topics = 1 .. Len(topics)
  BY DEF SubackValid
<1>2. {j \in DOMAIN codes : codes[j] <= 1} = DOMAIN topics
  BY <1>1
<1>3. QED  BY <1>2 DEF Grants, Range

\* The owner takes a notice about its session.
LEMMA BrokerTakes ==
    ASSUME SessionInv, BrokerInv, Going, Going',
           \/ PollConnected \/ PollSuback \/ PollUnsubscribed \/ PollDisconnected
           \/ PollError /\ Notified.error # "FRAGMENT",
           Tells(Notified)
    PROVE  BrokerInv'
<1>0. /\ TypeOK /\ ControlInv /\ PacketInv /\ notices \in Seq(Notice) /\ worker.n \in Notice
      /\ AfterConnect /\ WhenSilent /\ WhenAnswered /\ subscriptions \in Seq(Filters)
  BY DEF SessionInv, RuntimeInv, TypeOK, TypeQueues, TypeRecords, WorkerControl, BrokerInv
<1>1. /\ notices # << >> /\ notices' = Tail(notices) /\ UNCHANGED <<worker, sdk, broker>>
      /\ owner.pc = "recv"
  BY DEF PollConnected, PollSuback, PollUnsubscribed, PollDisconnected, PollError, Handles,
     Taken, sdkVars
<1>2. \A S : Holds(S) => Holds(S)'
  BY <1>1 DEF Holds
<1>3. \A n : LastTold(n)' => LastTold(n)
  BY <1>0, <1>1, ToldTail DEF LastTold
<1>4. AfterConnect'
  BY <1>0, <1>2, <1>3 DEF AfterConnect
<1>5. ASSUME Silent' PROVE LastTold(Notified) /\ OnlyTold(Notified)
  BY <1>0, <1>1, <1>5, ToldTail DEF Silent, LastTold, OnlyTold, Notified
<1>6. CASE PollConnected
  <2>1. \/ owner'.pc = "submit"
        \/ owner'.pc = "idle" /\ state' = "READY" /\ subscriptions = << >>
    BY <1>6 DEF PollConnected, OwnerAt
  <2>2. UNCHANGED subscriptions /\ Notified.kind = "CONNECTED"
    BY <1>6 DEF PollConnected, Handles
  <2>3. Silent' => Holds({})'
    BY <1>0, <1>2, <1>5, <2>2 DEF AfterConnect
  <2>4. Range(<< >>) = {}
    BY DEF Range
  <2>5. WhenSilent'
    BY <2>1, <2>2, <2>3, <2>4 DEF WhenSilent, Polls
  <2>6. WhenAnswered'
    BY <2>1 DEF WhenAnswered, Polls
  <2>7. QED  BY <1>4, <2>5, <2>6 DEF BrokerInv
<1>7. CASE PollSuback
  <2>1. /\ SubackAccepted /\ state' = "READY" /\ owner'.pc = "idle"
        /\ subscriptions' = IF pending.dynamic THEN Append(subscriptions, pending.subscription)
                            ELSE subscriptions
        /\ Notified.kind = "SUBACK"
    BY <1>7 DEF PollSuback, Acknowledged, Handles, OwnerAt, FailClosed, Going
  <2>2. Requested \in Seq(Filters) /\ pending.count = Len(Requested)
    BY <1>0, <2>1 DEF Requested, PacketInv, RequestInv, SubackAccepted, ControlInv, PendingFits
  <2>3. Notified.codes \in Seq(SubackCodes)
    BY <1>0, <1>1, NotifiedType DEF Notice
  <2>4. Grants(Requested, Notified.codes) = Range(Requested)
    BY <2>1, <2>2, <2>3, GrantedAll DEF SubackAccepted
  <2>5. Base \cup Range(Requested) = Range(subscriptions')
    <3>1. CASE pending.dynamic
      <4>1. pending.subscription \in Filters \ Range(subscriptions)
        BY <1>0, <3>1 DEF ControlInv, PendingFits, PacketInv, RequestInv
      <4>2. Range(subscriptions') = Range(subscriptions) \cup {pending.subscription}
        BY <1>0, <2>1, <3>1, <4>1, ListChanged DEF PacketInv, RequestInv
      <4>3. Base = Range(subscriptions) /\ Requested = <<pending.subscription>>
        BY <3>1 DEF Base, Requested
      <4>4. Range(<<pending.subscription>>) = {pending.subscription}
        BY DEF Range
      <4>5. QED  BY <4>2, <4>3, <4>4
    <3>2. CASE ~pending.dynamic
      BY <2>1, <3>2 DEF Base, Requested, SubackAccepted
    <3>3. QED  BY <3>1, <3>2
  <2>6. ASSUME Silent' PROVE Holds(Range(subscriptions'))
    <3>1. Matches(Notified)
      BY <1>0, <1>1, <1>5, <2>1, <2>6 DEF WhenAnswered, Polls, SubackAccepted
    <3>2. QED  BY <2>1, <2>4, <2>5, <3>1 DEF Matches, SubackAccepted
  <2>7. WhenSilent'
    BY <1>2, <2>1, <2>6 DEF WhenSilent
  <2>8. WhenAnswered'
    BY <2>1 DEF WhenAnswered
  <2>9. QED  BY <1>4, <2>7, <2>8 DEF BrokerInv
<1>8. CASE PollUnsubscribed
  <2>1. /\ UnsubackAccepted /\ state' = "READY" /\ owner'.pc = "idle"
        /\ subscriptions' = RemoveAt(subscriptions, pending.index)
        /\ Notified.kind = "UNSUBSCRIBED"
    BY <1>8 DEF PollUnsubscribed, Acknowledged, Handles, OwnerAt, FailClosed, Going
  <2>2. pending.subscribe = NoId /\ pending.index \in DOMAIN subscriptions
    BY <1>0, <2>1 DEF PacketInv, RequestInv, UnsubackAccepted, ControlInv, PendingFits
  <2>3. Base \ {subscriptions[pending.index]} = Range(subscriptions')
    BY <1>0, <2>1, <2>2, ListChanged DEF Base, PacketInv, RequestInv
  <2>4. ASSUME Silent' PROVE Holds(Range(subscriptions'))
    <3>1. Matches(Notified)
      BY <1>0, <1>1, <1>5, <2>1, <2>4 DEF WhenAnswered, Polls, UnsubackAccepted
    <3>2. QED  BY <2>1, <2>3, <3>1 DEF Matches, UnsubackAccepted
  <2>5. WhenSilent'
    BY <1>2, <2>1, <2>4 DEF WhenSilent
  <2>6. WhenAnswered'
    BY <2>1 DEF WhenAnswered
  <2>7. QED  BY <1>4, <2>5, <2>6 DEF BrokerInv
<1>9. CASE PollDisconnected
  <2>1. state' = "DISCONNECTED" /\ owner'.pc = "idle"
    BY <1>9 DEF PollDisconnected, OwnerAt
  <2>2. QED  BY <1>4, <2>1 DEF BrokerInv, WhenSilent, WhenAnswered
<1>10. CASE PollError /\ Notified.error # "FRAGMENT"
  <2>1. owner'.pc = "idle" /\ state' = "FAILED"
    BY <1>10 DEF PollError, OwnerAt, FailClosed, Going
  <2>2. QED  BY <1>4, <2>1 DEF BrokerInv, WhenSilent, WhenAnswered
<1>11. QED  BY <1>6, <1>7, <1>8, <1>9, <1>10

\* So does the owner.
LEMMA BrokerOwner ==
    ASSUME SessionInv, BrokerInv, Application \/ Stopping \/ Poll, ~Start, Going'
    PROVE  BrokerInv'
<1>0. /\ TypeOK /\ PacketInv /\ notices \in Seq(Notice) /\ worker.n \in Notice
      /\ UNCHANGED worker
  BY OwnerActs DEF SessionInv, RuntimeInv, TypeOK, TypeQueues, TypeRecords, WorkerControl
<1>1. Going
  BY GoesOn DEF Next
<1>2. CASE Create \/ StopNotStarted \/ StopJoined
  BY <1>2 DEF Create, StopNotStarted, StopJoined, Stopped, Going
<1>3. CASE StopCall
  BY <1>0, <1>3 DEF StopCall, Going, TypeOK, TypeRecords, OwnerControl
<1>4. CASE Stop \/ StopRefused \/ Enqueue \/ PollBegin \/ PollEmpty \/ ReleaseMessage
  <2>1. UNCHANGED <<notices, subscriptions, pending, sdk, broker>>
    BY <1>4 DEF Stop, StopRefused, Enqueue, PollBegin, PollEmpty, ReleaseMessage, ownerVars,
       sharedVars, sdkVars
  <2>2. Untold
    BY <1>0, <2>1, UntoldSteps
  <2>3. Polls' /\ state' \in {"READY", "SUBSCRIBING"} => Polls /\ state' = state
    BY <1>4 DEF Stop, StopRefused, Enqueue, PollBegin, PollEmpty, ReleaseMessage, ownerVars,
       Polls
  <2>4. owner'.pc = "submit" => owner.pc = "submit"
    BY <1>4 DEF Stop, StopRefused, Enqueue, PollBegin, PollEmpty, ReleaseMessage, OwnerAt,
       FailClosed
  <2>5. QED  BY <1>1, <2>1, <2>2, <2>3, <2>4, BrokerUntold
<1>5. CASE Subscribe \/ Unsubscribe \/ Resubscribe
  <2>1. ~AskedInVain
    BY DEF AskedInVain, FailClosed, Going
  <2>2. QED  BY <1>0, <1>1, <1>5, <2>1, RequestKinds, BrokerAsked
<1>6. CASE PollLate
  BY <1>6 DEF PollLate, FailClosed, Going
<1>7. CASE PollMessage \/ PollCompletion \/ (PollError /\ Notified.error = "FRAGMENT")
  <2>1. /\ notices # << >> /\ notices' = Tail(notices)
        /\ UNCHANGED <<state, subscriptions, pending, sdk, broker>>
        /\ owner.pc = "recv" /\ owner'.pc # "submit"
        /\ ~Tells(Notified)
    BY <1>7 DEF PollMessage, PollCompletion, PollError, Handles, Taken, sdkVars, OwnerAt,
       FailClosed, Tells, SessionKinds
  <2>2. Untold
    BY <1>0, <2>1, UntoldSteps
  <2>3. QED  BY <1>1, <2>1, <2>2, BrokerUntold DEF Polls
<1>8. CASE \/ PollConnected \/ PollSuback \/ PollUnsubscribed \/ PollDisconnected
           \/ PollError /\ Notified.error # "FRAGMENT"
  <2>1. notices # << >> /\ Notified.kind \in SessionKinds
        /\ (Notified.kind = "ERROR" => Notified.error # "FRAGMENT")
    BY <1>8 DEF PollConnected, PollSuback, PollUnsubscribed, PollDisconnected, PollError,
       Handles, Taken, SessionKinds
  <2>2. Notified \in News
    BY <1>0, <2>1, NewsQueue DEF News, Notified
  <2>3. Tells(Notified)
    BY <1>0, <2>1, <2>2 DEF PacketInv, FragmentErrors, Tells
  <2>4. QED  BY <1>1, <1>8, <2>3, BrokerTakes
<1>9. QED
  BY <1>2, <1>3, <1>4, <1>5, <1>6, <1>7, <1>8 DEF Application, Stopping, Poll

\* A new session starts in silence.
LEMMA BrokerStart ==
    ASSUME SessionInv, Start
    PROVE  BrokerInv'
<1>1. /\ notices' = << >> /\ state' \in {"CONNECTING", "FAILED"} /\ owner'.pc = "idle"
      /\ worker' = worker /\ worker = WorkerIdle
  BY DEF Start, Drain, SessionInv, RuntimeInv, QuietWhenStopped
<1>2. ~Tells(worker'.n)
  BY <1>1 DEF WorkerIdle, NoNotice, Tells, SessionKinds
<1>3. AfterConnect'
  BY <1>1, <1>2 DEF AfterConnect, LastTold, LastIn
<1>4. WhenSilent' /\ WhenAnswered'
  BY <1>1 DEF WhenSilent, WhenAnswered
<1>5. QED  BY <1>3, <1>4 DEF BrokerInv

\* Every step keeps the owner's view explained by what it has not seen.
LEMMA BrokerStep ==
    ASSUME SessionInv, BrokerInv, [Next]_vars
    PROVE  BrokerInv'
<1>0. SUFFICES ASSUME Going' PROVE BrokerInv'
  BY DEF BrokerInv
<1>1. CASE Start
  BY <1>1, BrokerStart
<1>2. CASE SdkEvent \/ SdkStep
  BY <1>0, <1>2, BrokerWorker
<1>3. CASE (Application \/ Stopping \/ Poll) /\ ~Start
  BY <1>0, <1>3, BrokerOwner
<1>4. CASE DeadlinePasses \/ UNCHANGED vars
  <2>1. /\ UNCHANGED <<started, faulted, overflow, owner, worker, notices, sdk, broker, state,
                       subscriptions, pending>>
        /\ notices \in Seq(Notice) /\ worker.n \in Notice
    BY <1>4 DEF DeadlinePasses, vars, ownerVars, sharedVars, sdkVars, SessionInv, RuntimeInv,
       TypeOK, TypeQueues, TypeRecords, WorkerControl
  <2>2. Going
    BY <1>0, <2>1 DEF Going, LossFlagged
  <2>3. Untold
    BY <2>1, UntoldSteps
  <2>4. QED  BY <2>1, <2>2, <2>3, BrokerUntold DEF Polls
<1>5. QED  BY <1>1, <1>2, <1>3, <1>4 DEF Next

\* READY means subscribed, for any list of subscriptions, any queue lengths and
\* any interleaving: when the owner has taken every notice about its session and
\* none was lost, the connection is up and the broker holds exactly the desired
\* list.  It holds in every state that BrokerInv relates to the broker by the
\* news in between: a CONNECTED the owner has not taken yet explains an empty
\* session, a SUBACK or UNSUBACK the change it grants, a DISCONNECTED or an
\* error anything (emqtt.c:458-475, 510-543).
THEOREM ReadySubscribed == Spec => []ReadyMeansSubscribed
<1>1. Init => BrokerInv
  BY DEF Init, BrokerInv, Going
<1>2. SessionInv /\ BrokerInv /\ [Next]_vars => BrokerInv'
  BY BrokerStep
<1>3. SessionInv /\ BrokerInv => ReadyMeansSubscribed
  <2> SUFFICES ASSUME SessionInv, BrokerInv, state = "READY", owner.pc = "idle", ~LossFlagged,
                      ~Unseen(SessionKinds)
               PROVE  sdk.link /\ broker = Range(subscriptions)
    BY DEF ReadyMeansSubscribed, SessionKinds
  <2>1. Silent
    BY DEF Unseen, Silent, Hushed, Tells
  <2>2. Going
    BY DEF SessionInv, StateControl, Going
  <2>3. QED  BY <2>1, <2>2 DEF BrokerInv, WhenSilent, Polls, Holds
<1>4. QED  BY <1>1, <1>2, <1>3, SessionInvariant, PTL DEF Spec

=============================================================================
