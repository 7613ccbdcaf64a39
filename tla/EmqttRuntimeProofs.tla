------------------------- MODULE EmqttRuntimeProofs -------------------------
(***************************************************************************)
(* Every step of EmqttRuntime keeps TypeOK, for any number of slots, any   *)
(* queue length and any sets of filters and identifiers, and it keeps      *)
(* ControlInv and QuietWhenStopped: who may act, and who may hold a slot,  *)
(* at every point of the callback, of poll and of the calls that end a     *)
(* session.  The types need ControlInv: it says that a pending index is in *)
(* the list it points into and that a notice is posted only from inside a  *)
(* callback.  The message slots have one owner each and none is lost; the  *)
(* theorems about the specification follow from the inductive invariant    *)
(* RuntimeInv.                                                             *)
(***************************************************************************)
EXTENDS EmqttRuntime, FiniteSetTheorems, SequenceTheorems, TLAPS

-----------------------------------------------------------------------------
(***************************************************************************)
(* Types: the values the helpers return.                                   *)
(***************************************************************************)

\* The notice that poll takes off the queue is a notice.
LEMMA NotifiedType ==
    ASSUME TypeOK, notices # << >>
    PROVE  /\ Notified \in Notice
           /\ Tail(notices) \in Seq(Notice) /\ Len(Tail(notices)) <= NoticeCapacity
BY CapacityAssumption DEF TypeOK, TypeQueues, Notified

\* Returning a token keeps the free queue a bounded queue of slots.
LEMMA TokenType ==
    ASSUME TypeOK, NEW slot \in Slots \cup {NoSlot}
    PROVE  /\ TokenSent(slot) \in Seq(Slots) /\ Len(TokenSent(slot)) <= MessageSlots
           /\ TokenRefused(slot) \in BOOLEAN
<1>1. freeSlots \in Seq(Slots) /\ Len(freeSlots) <= MessageSlots /\ MessageSlots \in Nat
  BY SlotsAssumption DEF TypeOK, TypeQueues
<1>2. CASE slot # NoSlot /\ Len(freeSlots) < MessageSlots
  <2>1. slot \in Slots
    BY <1>2
  <2>2. QED  BY <1>1, <1>2, <2>1 DEF TokenSent, TokenRefused
<1>3. CASE ~(slot # NoSlot /\ Len(freeSlots) < MessageSlots)
  BY <1>1, <1>3 DEF TokenSent, TokenRefused
<1>4. QED  BY <1>2, <1>3

\* The constant records have their types.
LEMMA ConstantTypes ==
    /\ NoNotice \in Notice
    /\ ClearedPending \in Pending
    /\ IdleReceiver \in Receiver
    /\ WorkerIdle \in WorkerControl
    /\ AllSlots \in Seq(Slots) /\ Len(AllSlots) = MessageSlots
    /\ [s \in Slots |-> FALSE] \in [Slots -> BOOLEAN]
<1>1. << >> \in Seq(SubackCodes)
  OBVIOUS
<1>2. NoNotice \in Notice
  BY <1>1 DEF NoNotice, Notice, Kinds, Errors
<1>3. AllSlots \in [1 .. MessageSlots -> Slots] /\ MessageSlots \in Nat
  BY SlotsAssumption DEF AllSlots, Slots
<1>4. AllSlots \in Seq(Slots) /\ Len(AllSlots) = MessageSlots
  BY <1>3
<1>5. QED
  BY <1>2, <1>4 DEF ClearedPending, Pending, IdleReceiver, Receiver, WorkerIdle, WorkerControl

\* A notice keeps its type when an event fills in its fields.
LEMMA NoticeFields ==
    ASSUME NEW n \in Notice, NEW k \in Kinds
    PROVE  /\ [n EXCEPT !.kind = k] \in Notice
           /\ \A e \in Errors : [n EXCEPT !.kind = k, !.error = e] \in Notice
           /\ \A id \in Ids : /\ [n EXCEPT !.kind = k, !.id = id] \in Notice
                              /\ \A e \in Errors :
                                    [n EXCEPT !.kind = k, !.id = id, !.error = e] \in Notice
           /\ \A s \in Slots : [n EXCEPT !.kind = k, !.slot = s] \in Notice
BY DEF Notice

\* The notice an event starts from is one.
LEMMA ArrivedType == TypeOK => Arrived \in Notice
BY ConstantTypes DEF Arrived, Notice, TypeOK, TypeFlags

\* Entering and leaving a callback keeps the worker's type.
LEMMA CallbackType ==
    ASSUME TypeOK, NEW n \in Notice, NEW then \in {"free", "reading", "abort"},
           Callback(n, then)
    PROVE  worker' \in WorkerControl
BY DEF Callback, TypeOK, TypeRecords, WorkerControl

\* The worker after on_event returns.
LEMMA ReturnedType == TypeOK => Returned \in WorkerControl
BY ConstantTypes DEF Returned, TypeOK, TypeRecords, WorkerControl

\* The worker after a fragment that posts nothing.
LEMMA AfterFragmentType == TypeOK => AfterFragment \in WorkerControl
BY ConstantTypes DEF AfterFragment, TypeOK, TypeRecords, WorkerControl

\* release_receiver_slot keeps types.
LEMMA ReleaseReceiverType ==
    ASSUME TypeOK, ReleaseReceiver
    PROVE  /\ receiver' \in Receiver
           /\ freeSlots' \in Seq(Slots) /\ Len(freeSlots') <= MessageSlots
           /\ overflow' \in BOOLEAN
<1>1. receiver.slot \in Slots \cup {NoSlot}
  BY DEF TypeOK, TypeRecords, Receiver
<1>2. receiver' \in Receiver /\ freeSlots' \in Seq(Slots) /\ Len(freeSlots') <= MessageSlots
  BY <1>1, TokenType, ConstantTypes DEF ReleaseReceiver
<1>3. overflow' \in BOOLEAN
  BY DEF ReleaseReceiver
<1>4. QED  BY <1>2, <1>3

\* drain leaves well-typed, empty queues.
LEMMA DrainType ==
    ASSUME Drain
    PROVE  /\ receiver' \in Receiver
           /\ notices' \in Seq(Notice) /\ Len(notices') <= NoticeCapacity
           /\ messages' \in [Slots -> BOOLEAN]
           /\ freeSlots' \in Seq(Slots) /\ Len(freeSlots') <= MessageSlots
           /\ overflow' \in BOOLEAN
           /\ pending' \in Pending /\ deadlineHit' \in BOOLEAN
<1>1. << >> \in Seq(Notice) /\ Len(<< >>) = 0
  OBVIOUS
<1>2. notices' \in Seq(Notice) /\ Len(notices') <= NoticeCapacity
  BY <1>1, CapacityAssumption DEF Drain
<1>3. freeSlots' \in Seq(Slots) /\ Len(freeSlots') <= MessageSlots
  BY ConstantTypes, SlotsAssumption DEF Drain
<1>4. receiver' \in Receiver /\ messages' \in [Slots -> BOOLEAN] /\ pending' \in Pending
  BY ConstantTypes DEF Drain
<1>5. overflow' \in BOOLEAN /\ deadlineHit' \in BOOLEAN
  BY DEF Drain
<1>6. QED  BY <1>2, <1>3, <1>4, <1>5

\* The error the SDK reports from inside an API call.
LEMMA PostTransportErrorType ==
    ASSUME TypeOK, PostTransportError
    PROVE  /\ notices' \in Seq(Notice) /\ Len(notices') <= NoticeCapacity
           /\ overflow' \in BOOLEAN
<1> DEFINE n == [NoNotice EXCEPT !.kind = "ERROR", !.error = "SDK", !.late = deadlineHit]
<1>1. n \in Notice
  BY ConstantTypes DEF Notice, Kinds, Errors, TypeOK, TypeFlags
<1>2. notices \in Seq(Notice) /\ Len(notices) <= NoticeCapacity /\ NoticeCapacity \in Nat
  BY CapacityAssumption DEF TypeOK, TypeQueues
<1>3. CASE Len(notices) < NoticeCapacity
  <2>1. notices' = Append(notices, n)
    BY <1>3 DEF PostTransportError
  <2>2. notices' \in Seq(Notice) /\ Len(notices') <= NoticeCapacity
    BY <1>1, <1>2, <1>3, <2>1
  <2>3. overflow' \in BOOLEAN
    BY <1>3 DEF PostTransportError, TypeOK, TypeFlags
  <2>4. QED  BY <2>2, <2>3
<1>4. CASE ~(Len(notices) < NoticeCapacity)
  <2>1. notices' = notices /\ overflow' = TRUE
    BY <1>4 DEF PostTransportError
  <2>2. overflow' \in BOOLEAN
    BY <2>1
  <2>3. QED  BY <1>2, <2>1, <2>2
<1>5. QED  BY <1>3, <1>4

\* The packet of a request is an outbox item.
LEMMA MessageType ==
    ASSUME NEW type \in {"PUBLISH", "SUBSCRIBE", "UNSUBSCRIBE"}, NEW id \in Ids,
           NEW topics \in Seq(Filters)
    PROVE  Message(type, id, topics) \in OutboxItem
BY DEF Message, OutboxItem

\* A request the SDK accepted or refused.
LEMMA RequestSentType ==
    ASSUME TypeOK, NEW type \in {"SUBSCRIBE", "UNSUBSCRIBE"}, NEW topics \in Seq(Filters),
           NEW id \in Ids, NEW request \in Pending, RequestSent(type, topics, id, request)
    PROVE  /\ pending' \in Pending /\ state' \in States /\ owner' \in OwnerControl
           /\ notices' \in Seq(Notice) /\ Len(notices') <= NoticeCapacity
           /\ outbox' \subseteq OutboxItem /\ confirmed' \subseteq Filters
           /\ deadlineHit' \in BOOLEAN /\ overflow' \in BOOLEAN /\ faulted' \in BOOLEAN
<1>1. pending' \in Pending /\ state' \in States /\ owner' \in OwnerControl
  BY DEF RequestSent, States, OwnerAt, OwnerControl
<1>2. \A n \in Notice : [n EXCEPT !.late = FALSE] \in Notice
  BY DEF Notice
<1>3. notices' \in Seq(Notice) /\ Len(notices') = Len(notices)
  <2>1. /\ notices \in Seq(Notice) /\ Len(notices) \in Nat
        /\ DOMAIN notices = 1 .. Len(notices)
    BY DEF TypeOK, TypeQueues
  <2>2. notices' = [i \in 1 .. Len(notices) |-> [notices[i] EXCEPT !.late = FALSE]]
    BY <2>1 DEF RequestSent
  <2>3. \A i \in 1 .. Len(notices) : notices'[i] \in Notice
    BY <1>2, <2>1, <2>2
  <2>4. notices' \in [1 .. Len(notices) -> Notice]
    BY <2>2, <2>3
  <2>5. QED  BY <2>1, <2>4
<1>4. Range(topics) \subseteq Filters
  BY DEF Range
<1>5. outbox' \subseteq OutboxItem /\ confirmed' \subseteq Filters
  BY <1>4, MessageType DEF RequestSent, TypeOK, TypeSdk
<1>6. deadlineHit' \in BOOLEAN /\ overflow' \in BOOLEAN /\ faulted' \in BOOLEAN
  BY DEF RequestSent, TypeOK, TypeFlags
<1>7. QED  BY <1>1, <1>3, <1>5, <1>6, CapacityAssumption DEF TypeOK, TypeQueues

\* A request that is refused, or stored and not written, keeps types.
LEMMA RequestRefusedType ==
    ASSUME TypeOK, NEW type \in {"SUBSCRIBE", "UNSUBSCRIBE"}, NEW topics \in Seq(Filters),
           RequestRefused(type, topics)
    PROVE  /\ pending' \in Pending /\ state' \in States /\ owner' \in OwnerControl
           /\ notices' \in Seq(Notice) /\ Len(notices') <= NoticeCapacity
           /\ outbox' \subseteq OutboxItem /\ confirmed' \subseteq Filters
           /\ deadlineHit' \in BOOLEAN /\ overflow' \in BOOLEAN /\ faulted' \in BOOLEAN
<1>1. pending' \in Pending /\ state' \in States /\ owner' \in OwnerControl
  BY DEF RequestRefused, States, FailClosed, OwnerControl, TypeOK, TypeRecords
<1>2. deadlineHit' \in BOOLEAN /\ faulted' \in BOOLEAN /\ confirmed' \subseteq Filters
  BY DEF RequestRefused, TypeOK, TypeFlags, TypeSdk
<1>3. CASE UNCHANGED <<outbox, notices, overflow>>
  <2>1. overflow' \in BOOLEAN
    BY <1>3 DEF TypeOK, TypeFlags
  <2>2. QED  BY <1>1, <1>2, <1>3, <2>1 DEF TypeOK, TypeQueues, TypeSdk
<1>4. CASE /\ \E id \in FreshIds : outbox' = outbox \cup {Message(type, id, topics)}
           /\ PostTransportError
  <2>1. outbox' \subseteq OutboxItem
    BY <1>4, MessageType DEF FreshIds, TypeOK, TypeSdk
  <2>2. QED  BY <1>1, <1>2, <1>4, <2>1, PostTransportErrorType
<1>5. QED  BY <1>3, <1>4 DEF RequestRefused

\* submit_subscriptions keeps types.
LEMMA SubmitType ==
    ASSUME TypeOK, NEW topics \in Seq(Filters), NEW dynamic \in BOOLEAN,
           NEW filter \in Filters \cup {NoFilter}, SubmitSubscriptions(topics, dynamic, filter)
    PROVE  TypeOK'
<1>1. ASSUME NEW id \in Ids
      PROVE  [ClearedPending EXCEPT !.subscribe = id, !.count = Len(topics),
                 !.dynamic = dynamic, !.subscription = filter] \in Pending
  <2>1. ASSUME NEW p \in Pending, NEW count \in Nat
        PROVE  [p EXCEPT !.subscribe = id, !.count = count,
                   !.dynamic = dynamic, !.subscription = filter] \in Pending
    BY DEF Pending
  <2>2. Len(topics) \in Nat
    OBVIOUS
  <2>3. QED  BY <2>1, <2>2, ConstantTypes
<1>2. /\ pending' \in Pending /\ state' \in States /\ owner' \in OwnerControl
      /\ notices' \in Seq(Notice) /\ Len(notices') <= NoticeCapacity
      /\ outbox' \subseteq OutboxItem /\ confirmed' \subseteq Filters
      /\ deadlineHit' \in BOOLEAN /\ overflow' \in BOOLEAN /\ faulted' \in BOOLEAN
  <2>1. CASE RequestRefused("SUBSCRIBE", topics)
    BY <2>1, RequestRefusedType
  <2>2. CASE \E id \in FreshIds :
               RequestSent("SUBSCRIBE", topics, id,
                  [ClearedPending EXCEPT !.subscribe = id, !.count = Len(topics),
                      !.dynamic = dynamic, !.subscription = filter])
    BY <1>1, <2>2, RequestSentType DEF FreshIds
  <2>3. QED  BY <2>1, <2>2 DEF SubmitSubscriptions
<1>3. /\ started' \in BOOLEAN
      /\ UNCHANGED <<subscriptions, freeSlots, messages, receiver, worker, sdk, broker, awaiting>>
  BY DEF SubmitSubscriptions, TypeOK, TypeFlags
<1>4. TypeFlags'
  BY <1>2, <1>3 DEF TypeFlags
<1>5. TypeQueues' /\ TypeSdk'
  BY <1>2, <1>3 DEF TypeOK, TypeQueues, TypeSdk
<1>6. TypeRecords'
  BY <1>2, <1>3 DEF TypeOK, TypeRecords
<1>7. QED  BY <1>4, <1>5, <1>6 DEF TypeOK

\* A DATA fragment keeps types.
LEMMA FragmentType ==
    ASSUME TypeOK, NEW w \in [total : Nat, offset : Nat], Fragment(w)
    PROVE  /\ worker' \in WorkerControl /\ receiver' \in Receiver
           /\ freeSlots' \in Seq(Slots) /\ Len(freeSlots') <= MessageSlots
<1> DEFINE began == [WorkerIdle EXCEPT !.n = Arrived, !.wire = w]
<1>1. began \in WorkerControl /\ began.n = Arrived /\ Arrived \in Notice
  BY ArrivedType, ConstantTypes DEF WorkerControl
<1>2. /\ receiver \in Receiver /\ freeSlots \in Seq(Slots) /\ Len(freeSlots) <= MessageSlots
      /\ MessageSlots \in Nat
  BY SlotsAssumption DEF TypeOK, TypeQueues, TypeRecords
<1>3. CASE receiver.buffer
  BY <1>1, <1>2, <1>3 DEF Fragment, WorkerControl
<1>4. CASE ~receiver.buffer /\ w.total > PayloadMax
  <2>1. [began.n EXCEPT !.kind = "ERROR", !.error = "FRAGMENT"] \in Notice
    BY <1>1, NoticeFields DEF Kinds, Errors
  <2>2. worker' = [began EXCEPT !.pc = "post", !.then = MoreToRead(w),
                                !.n.kind = "ERROR", !.n.error = "FRAGMENT"]
    BY <1>4 DEF Fragment
  <2>3. worker' \in WorkerControl
    BY <1>1, <2>1, <2>2 DEF WorkerControl, MoreToRead
  <2>4. QED  BY <1>2, <1>4, <2>3 DEF Fragment
<1>5. CASE ~receiver.buffer /\ ~(w.total > PayloadMax)
  <2>1. worker' \in WorkerControl
    BY <1>1, <1>5 DEF Fragment, WorkerControl
  <2>2. receiver' \in Receiver /\ freeSlots' \in Seq(Slots) /\ Len(freeSlots') <= MessageSlots
    <3>1. CASE freeSlots = << >>
      BY <1>2, <1>5, <3>1 DEF Fragment, Receiver
    <3>2. CASE freeSlots # << >>
      <4>1. /\ Head(freeSlots) \in Slots /\ Tail(freeSlots) \in Seq(Slots)
            /\ Len(Tail(freeSlots)) <= MessageSlots
        BY <1>2, <3>2
      <4>2. QED  BY <1>2, <1>5, <3>2, <4>1 DEF Fragment, Receiver
    <3>3. QED  BY <3>1, <3>2
  <2>3. QED  BY <2>1, <2>2
<1>6. QED  BY <1>3, <1>4, <1>5

\* The initial state is well typed.
LEMMA TypeInit == Init => TypeOK
<1> SUFFICES ASSUME Init PROVE TypeOK
  OBVIOUS
<1>1. << >> \in Seq(Filters) /\ << >> \in Seq(Notice) /\ Len(<< >>) = 0
  OBVIOUS
<1>2. TypeFlags
  BY DEF Init, TypeFlags
<1>3. TypeQueues
  BY <1>1, ConstantTypes, FiltersAssumption, CapacityAssumption, SlotsAssumption
     DEF Init, TypeQueues
<1>4. TypeRecords
  BY ConstantTypes DEF Init, TypeRecords, States, OwnerAt, OwnerControl
<1>5. TypeSdk
  BY DEF Init, TypeSdk, SdkControl
<1>6. QED  BY <1>2, <1>3, <1>4, <1>5 DEF TypeOK

\* The calls that start and end a session keep types.
LEMMA TypeLifetime ==
    ASSUME TypeOK, Create \/ Start \/ Stop \/ Stopping
    PROVE  TypeOK'
<1>1. CASE Create
  <2>1. TypeFlags'
    BY <1>1, DrainType DEF Create, TypeOK, TypeFlags, ownerVars, sharedVars, sdkVars, history
  <2>2. TypeQueues'
    BY <1>1, DrainType, FiltersAssumption DEF Create, TypeOK, TypeQueues, ownerVars,
       sharedVars, sdkVars, history
  <2>3. TypeRecords'
    BY <1>1, DrainType DEF Create, OwnerAt, OwnerControl, States, TypeOK, TypeRecords,
       ownerVars, sharedVars, sdkVars, history
  <2>4. TypeSdk'
    BY <1>1 DEF Create, TypeOK, TypeSdk, ownerVars, sharedVars, sdkVars, history
  <2>5. QED  BY <2>1, <2>2, <2>3, <2>4 DEF TypeOK
<1>2. CASE Start
  <2>1. sdk' \in SdkControl
    <3>1. CASE sdk' = [run |-> TRUE, link |-> FALSE, task |-> "alive"]
      BY <3>1 DEF SdkControl
    <3>2. CASE sdk' = sdk
      BY <3>2 DEF TypeOK, TypeSdk
    <3>3. QED  BY <1>2, <3>1, <3>2 DEF Start
  <2>2. TypeFlags'
    BY <1>2, DrainType DEF Start, TypeOK, TypeFlags, ownerVars, sharedVars, sdkVars, history
  <2>3. TypeQueues'
    BY <1>2, DrainType DEF Start, TypeOK, TypeQueues, ownerVars, sharedVars, sdkVars, history
  <2>4. TypeRecords'
    BY <1>2, DrainType DEF Start, States, TypeOK, TypeRecords, ownerVars, sharedVars,
       sdkVars, history
  <2>5. TypeSdk'
    BY <1>2, <2>1 DEF Start, TypeOK, TypeSdk, ownerVars, sharedVars, sdkVars, history
  <2>6. QED  BY <2>2, <2>3, <2>4, <2>5 DEF TypeOK
<1>3. CASE Stop
  <2>1. owner' \in OwnerControl
    BY <1>3 DEF Stop, OwnerControl
  <2>2. TypeFlags'
    BY <1>3 DEF Stop, TypeOK, TypeFlags, ownerVars, sharedVars, sdkVars, history
  <2>3. TypeQueues'
    BY <1>3 DEF Stop, TypeOK, TypeQueues, ownerVars, sharedVars, sdkVars, history
  <2>4. TypeRecords'
    BY <1>3, <2>1 DEF Stop, TypeOK, TypeRecords, ownerVars, sharedVars, sdkVars, history
  <2>5. TypeSdk'
    BY <1>3 DEF Stop, TypeOK, TypeSdk, ownerVars, sharedVars, sdkVars, history
  <2>6. QED  BY <2>2, <2>3, <2>4, <2>5 DEF TypeOK
<1>4. CASE StopNotStarted
  <2>1. << >> \in Seq(Filters) /\ Len(<< >>) = 0
    OBVIOUS
  <2>2. TypeFlags'
    BY <1>4, DrainType DEF StopNotStarted, Stopped, TypeOK, TypeFlags, ownerVars,
       sharedVars, sdkVars, history
  <2>3. TypeQueues'
    BY <1>4, <2>1, DrainType, FiltersAssumption DEF StopNotStarted, Stopped, TypeOK,
       TypeQueues, ownerVars, sharedVars, sdkVars, history
  <2>4. TypeRecords'
    BY <1>4, DrainType DEF StopNotStarted, Stopped, OwnerAt, OwnerControl, States, TypeOK,
       TypeRecords, ownerVars, sharedVars, sdkVars, history
  <2>5. TypeSdk'
    BY <1>4 DEF StopNotStarted, Stopped, TypeOK, TypeSdk, ownerVars, sharedVars, sdkVars,
       history
  <2>6. QED  BY <2>2, <2>3, <2>4, <2>5 DEF TypeOK
<1>5. CASE StopCall
  <2>1. /\ notices' \in Seq(Notice) /\ Len(notices') <= NoticeCapacity
        /\ overflow' \in BOOLEAN
    <3>1. CASE PostTransportError
      BY <3>1, PostTransportErrorType
    <3>2. CASE UNCHANGED <<notices, overflow>>
      <4>1. overflow' \in BOOLEAN
        BY <3>2 DEF TypeOK, TypeFlags
      <4>2. QED  BY <3>2, <4>1 DEF TypeOK, TypeQueues
    <3>3. QED  BY <1>5, <3>1, <3>2 DEF StopCall
  <2>2. owner' \in OwnerControl /\ sdk' \in SdkControl
    BY <1>5 DEF StopCall, TypeOK, TypeRecords, TypeSdk, OwnerControl, SdkControl
  <2>3. TypeFlags'
    BY <1>5, <2>1 DEF StopCall, TypeOK, TypeFlags, ownerVars, sharedVars, sdkVars, history
  <2>4. TypeQueues'
    BY <1>5, <2>1 DEF StopCall, TypeOK, TypeQueues, ownerVars, sharedVars, sdkVars, history
  <2>5. TypeRecords'
    BY <1>5, <2>2 DEF StopCall, TypeOK, TypeRecords, ownerVars, sharedVars, sdkVars, history
  <2>6. TypeSdk'
    BY <1>5, <2>2 DEF StopCall, TypeOK, TypeSdk, ownerVars, sharedVars, sdkVars, history
  <2>7. QED  BY <2>3, <2>4, <2>5, <2>6 DEF TypeOK
<1>6. CASE StopRefused
  <2>1. TypeFlags'
    BY <1>6 DEF StopRefused, TypeOK, TypeFlags, ownerVars, sharedVars, sdkVars, history
  <2>2. TypeQueues'
    BY <1>6 DEF StopRefused, TypeOK, TypeQueues, ownerVars, sharedVars, sdkVars, history
  <2>3. TypeRecords'
    BY <1>6 DEF StopRefused, OwnerAt, OwnerControl, States, TypeOK, TypeRecords, ownerVars,
       sharedVars, sdkVars, history
  <2>4. TypeSdk'
    BY <1>6 DEF StopRefused, TypeOK, TypeSdk, ownerVars, sharedVars, sdkVars, history
  <2>5. QED  BY <2>1, <2>2, <2>3, <2>4 DEF TypeOK
<1>7. CASE StopJoined
  <2>1. << >> \in Seq(Filters) /\ Len(<< >>) = 0
    OBVIOUS
  <2>2. sdk' \in SdkControl
    BY <1>7 DEF StopJoined, TypeOK, TypeSdk, SdkControl
  <2>3. TypeFlags'
    BY <1>7, DrainType DEF StopJoined, Stopped, TypeOK, TypeFlags, ownerVars, sharedVars,
       sdkVars, history
  <2>4. TypeQueues'
    BY <1>7, <2>1, DrainType, FiltersAssumption DEF StopJoined, Stopped, TypeOK, TypeQueues,
       ownerVars, sharedVars, sdkVars, history
  <2>5. TypeRecords'
    BY <1>7, DrainType DEF StopJoined, Stopped, OwnerAt, OwnerControl, States, TypeOK,
       TypeRecords, ownerVars, sharedVars, sdkVars, history
  <2>6. TypeSdk'
    BY <1>7, <2>2 DEF StopJoined, Stopped, TypeOK, TypeSdk, ownerVars, sharedVars, sdkVars,
       history
  <2>7. QED  BY <2>3, <2>4, <2>5, <2>6 DEF TypeOK
<1>8. QED
  BY <1>1, <1>2, <1>3, <1>4, <1>5, <1>6, <1>7 DEF Stopping

\* The requests to the SDK keep types.
LEMMA TypeRequests ==
    ASSUME TypeOK, Subscribe \/ Unsubscribe \/ Enqueue \/ Resubscribe
    PROVE  TypeOK'
<1>1. CASE Subscribe
  <2>1. PICK f \in Filters : SubmitSubscriptions(<<f>>, TRUE, f)
    BY <1>1 DEF Subscribe
  <2>2. <<f>> \in Seq(Filters)
    OBVIOUS
  <2>3. TRUE \in BOOLEAN
    OBVIOUS
  <2>4. QED  BY <2>1, <2>2, <2>3, SubmitType
<1>2. CASE Resubscribe
  <2>1. subscriptions \in Seq(Filters)
    BY DEF TypeOK, TypeQueues
  <2>2. FALSE \in BOOLEAN
    OBVIOUS
  <2>3. SubmitSubscriptions(subscriptions, FALSE, NoFilter)
    BY <1>2 DEF Resubscribe
  <2>4. QED  BY <2>1, <2>2, <2>3, SubmitType
<1>3. CASE Unsubscribe
  <2>1. PICK k \in DOMAIN subscriptions :
          \/ \E id \in FreshIds :
                RequestSent("UNSUBSCRIBE", <<subscriptions[k]>>, id,
                    [ClearedPending EXCEPT !.unsubscribe = id, !.index = k])
          \/ RequestRefused("UNSUBSCRIBE", <<subscriptions[k]>>)
    BY <1>3 DEF Unsubscribe
  <2>2. k \in Nat /\ <<subscriptions[k]>> \in Seq(Filters)
    BY DEF TypeOK, TypeQueues
  <2>3. \A id \in Ids : [ClearedPending EXCEPT !.unsubscribe = id, !.index = k] \in Pending
    BY <2>2, ConstantTypes DEF Pending
  <2>4. /\ pending' \in Pending /\ state' \in States /\ owner' \in OwnerControl
        /\ notices' \in Seq(Notice) /\ Len(notices') <= NoticeCapacity
        /\ outbox' \subseteq OutboxItem /\ confirmed' \subseteq Filters
        /\ deadlineHit' \in BOOLEAN /\ overflow' \in BOOLEAN /\ faulted' \in BOOLEAN
    <3>1. CASE RequestRefused("UNSUBSCRIBE", <<subscriptions[k]>>)
      BY <2>2, <3>1, RequestRefusedType
    <3>2. CASE \E id \in FreshIds :
                 RequestSent("UNSUBSCRIBE", <<subscriptions[k]>>, id,
                    [ClearedPending EXCEPT !.unsubscribe = id, !.index = k])
      BY <2>2, <2>3, <3>2, RequestSentType DEF FreshIds
    <3>3. QED  BY <2>1, <3>1, <3>2
  <2>5. /\ started' \in BOOLEAN
        /\ UNCHANGED <<subscriptions, freeSlots, messages, receiver, worker, sdk, broker,
                       awaiting>>
    BY <1>3 DEF Unsubscribe, TypeOK, TypeFlags
  <2>6. TypeFlags'
    BY <2>4, <2>5 DEF TypeFlags
  <2>7. TypeQueues' /\ TypeSdk'
    BY <2>4, <2>5 DEF TypeOK, TypeQueues, TypeSdk
  <2>8. TypeRecords'
    BY <2>4, <2>5 DEF TypeOK, TypeRecords
  <2>9. QED  BY <2>6, <2>7, <2>8 DEF TypeOK
<1>4. CASE Enqueue
  <2>1. PICK id \in Ids : /\ outbox' = outbox \cup {Message("PUBLISH", id, << >>)}
                       /\ awaiting' = awaiting \cup {id}
    BY <1>4 DEF Enqueue, FreshIds
  <2>2. << >> \in Seq(Filters)
    OBVIOUS
  <2>3. Message("PUBLISH", id, << >>) \in OutboxItem
    BY <2>2, MessageType
  <2>4. TypeFlags'
    BY <1>4 DEF Enqueue, TypeOK, TypeFlags, ownerVars, sharedVars, sdkVars, history
  <2>5. TypeQueues'
    BY <1>4 DEF Enqueue, TypeOK, TypeQueues, ownerVars, sharedVars, sdkVars, history
  <2>6. TypeRecords'
    BY <1>4 DEF Enqueue, TypeOK, TypeRecords, ownerVars, sharedVars, sdkVars, history
  <2>7. TypeSdk'
    BY <1>4, <2>1, <2>3 DEF Enqueue, TypeOK, TypeSdk, ownerVars, sharedVars, sdkVars, history
  <2>8. QED  BY <2>4, <2>5, <2>6, <2>7 DEF TypeOK
<1>5. QED  BY <1>1, <1>2, <1>3, <1>4

\* Removing an element of the subscription list.
LEMMA RemoveAtType ==
    ASSUME NEW S, NEW seq \in Seq(S), NEW i \in DOMAIN seq
    PROVE  /\ RemoveAt(seq, i) \in Seq(S) /\ Len(RemoveAt(seq, i)) = Len(seq) - 1
<1> DEFINE left  == SubSeq(seq, 1, i - 1)
           right == SubSeq(seq, i + 1, Len(seq))
<1>1. left \in Seq(S) /\ Len(left) = i - 1
  OBVIOUS
<1>2. right \in Seq(S) /\ Len(right) = Len(seq) - i
  OBVIOUS
<1>3. RemoveAt(seq, i) = left \o right
  BY DEF RemoveAt
<1>4. i \in Nat /\ Len(seq) \in Nat
  OBVIOUS
<1> HIDE DEF left, right
<1>5. left \o right \in Seq(S) /\ Len(left \o right) = Len(left) + Len(right)
  BY <1>1, <1>2, ConcatProperties, Zenon
<1>6. QED  BY <1>1, <1>2, <1>3, <1>4, <1>5

\* emqtt_poll keeps types.
LEMMA TypePoll ==
    ASSUME TypeOK, ControlInv, Poll
    PROVE  TypeOK'
<1>1. CASE PollBegin
  <2>1. owner' \in OwnerControl
    BY <1>1 DEF PollBegin, FailClosed, OwnerAt, OwnerControl
  <2>2. TypeFlags'
    BY <1>1 DEF PollBegin, TypeOK, TypeFlags, ownerVars, sharedVars, sdkVars, history
  <2>3. TypeQueues'
    BY <1>1 DEF PollBegin, TypeOK, TypeQueues, ownerVars, sharedVars, sdkVars, history
  <2>4. TypeRecords'
    BY <1>1, <2>1 DEF PollBegin, TypeOK, TypeRecords, ownerVars, sharedVars, sdkVars, history
  <2>5. TypeSdk'
    BY <1>1 DEF PollBegin, TypeOK, TypeSdk, ownerVars, sharedVars, sdkVars, history
  <2>6. QED  BY <2>2, <2>3, <2>4, <2>5 DEF TypeOK
<1>2. CASE PollEmpty
  <2>1. owner' \in OwnerControl
    BY <1>2 DEF PollEmpty, FailClosed, OwnerAt, OwnerControl
  <2>2. TypeFlags'
    BY <1>2 DEF PollEmpty, TypeOK, TypeFlags, ownerVars, sharedVars, sdkVars, history
  <2>3. TypeQueues'
    BY <1>2 DEF PollEmpty, TypeOK, TypeQueues, ownerVars, sharedVars, sdkVars, history
  <2>4. TypeRecords'
    BY <1>2, <2>1 DEF PollEmpty, TypeOK, TypeRecords, ownerVars, sharedVars, sdkVars, history
  <2>5. TypeSdk'
    BY <1>2 DEF PollEmpty, TypeOK, TypeSdk, ownerVars, sharedVars, sdkVars, history
  <2>6. QED  BY <2>2, <2>3, <2>4, <2>5 DEF TypeOK
<1>3. CASE PollLate
  <2>1. notices # << >> /\ notices' = Tail(notices)
    BY <1>3 DEF PollLate, Taken
  <2>2. notices' \in Seq(Notice) /\ Len(notices') <= NoticeCapacity
    BY <2>1, NotifiedType
  <2>3. owner' \in OwnerControl
    BY <1>3, <2>1, NotifiedType DEF PollLate, FailClosed, OwnerControl, Notice
  <2>4. TypeFlags'
    BY <1>3 DEF PollLate, Taken, TypeOK, TypeFlags, ownerVars, sharedVars, sdkVars, history
  <2>5. TypeQueues'
    BY <1>3, <2>2 DEF PollLate, Taken, TypeOK, TypeQueues, ownerVars, sharedVars, sdkVars,
       history
  <2>6. TypeRecords'
    BY <1>3, <2>3 DEF PollLate, Taken, TypeOK, TypeRecords, ownerVars, sharedVars, sdkVars,
       history
  <2>7. TypeSdk'
    BY <1>3 DEF PollLate, Taken, TypeOK, TypeSdk, ownerVars, sharedVars, sdkVars, history
  <2>8. QED  BY <2>4, <2>5, <2>6, <2>7 DEF TypeOK
<1>4. CASE PollConnected
  <2>1. notices # << >> /\ notices' = Tail(notices)
    BY <1>4 DEF PollConnected, Handles, Taken
  <2>2. notices' \in Seq(Notice) /\ Len(notices') <= NoticeCapacity
    BY <2>1, NotifiedType
  <2>3. owner' \in OwnerControl /\ state' \in States
    BY <1>4 DEF PollConnected, OwnerAt, OwnerControl, States, TypeOK, TypeRecords
  <2>4. TypeFlags'
    BY <1>4 DEF PollConnected, Handles, Taken, TypeOK, TypeFlags, ownerVars, sharedVars,
       sdkVars, history
  <2>5. TypeQueues'
    BY <1>4, <2>2 DEF PollConnected, Handles, Taken, TypeOK, TypeQueues, ownerVars,
       sharedVars, sdkVars, history
  <2>6. TypeRecords'
    BY <1>4, <2>3, ConstantTypes DEF PollConnected, Handles, Taken, TypeOK, TypeRecords,
       ownerVars, sharedVars, sdkVars, history
  <2>7. TypeSdk'
    BY <1>4 DEF PollConnected, Handles, Taken, TypeOK, TypeSdk, ownerVars, sharedVars,
       sdkVars, history
  <2>8. QED  BY <2>4, <2>5, <2>6, <2>7 DEF TypeOK
<1>5. CASE PollSuback
  <2>1. notices # << >> /\ notices' = Tail(notices)
    BY <1>5 DEF PollSuback, Handles, Taken
  <2>2. notices' \in Seq(Notice) /\ Len(notices') <= NoticeCapacity
    BY <2>1, NotifiedType
  <2>3. owner' \in OwnerControl /\ state' \in States
    BY <1>5 DEF PollSuback, Acknowledged, FailClosed, OwnerAt, OwnerControl, States,
                TypeOK, TypeRecords
  <2>4. subscriptions' \in Seq(Filters) /\ Len(subscriptions') <= SubscriptionsMax
    <3>1. /\ subscriptions \in Seq(Filters) /\ Len(subscriptions) <= SubscriptionsMax
          /\ SubscriptionsMax \in Nat
      BY FiltersAssumption DEF TypeOK, TypeQueues
    <3>2. CASE subscriptions' = subscriptions
      BY <3>1, <3>2
    <3>3. CASE pending.dynamic /\ subscriptions' = Append(subscriptions, pending.subscription)
      BY <3>1, <3>3 DEF ControlInv, PendingFits
    <3>4. QED  BY <1>5, <3>2, <3>3 DEF PollSuback, Acknowledged
  <2>5. TypeFlags'
    BY <1>5 DEF PollSuback, Handles, Taken, Acknowledged, TypeOK, TypeFlags, ownerVars,
       sharedVars, sdkVars, history
  <2>6. TypeQueues'
    BY <1>5, <2>2, <2>4 DEF PollSuback, Handles, Taken, Acknowledged, TypeOK, TypeQueues,
       ownerVars, sharedVars, sdkVars, history
  <2>7. TypeRecords'
    BY <1>5, <2>3, ConstantTypes DEF PollSuback, Handles, Taken, Acknowledged, TypeOK,
       TypeRecords, ownerVars, sharedVars, sdkVars, history
  <2>8. TypeSdk'
    BY <1>5 DEF PollSuback, Handles, Taken, Acknowledged, TypeOK, TypeSdk, ownerVars,
       sharedVars, sdkVars, history
  <2>9. QED  BY <2>5, <2>6, <2>7, <2>8 DEF TypeOK
<1>6. CASE PollUnsubscribed
  <2>1. notices # << >> /\ notices' = Tail(notices)
    BY <1>6 DEF PollUnsubscribed, Handles, Taken
  <2>2. notices' \in Seq(Notice) /\ Len(notices') <= NoticeCapacity
    BY <2>1, NotifiedType
  <2>3. owner' \in OwnerControl /\ state' \in States
    BY <1>6 DEF PollUnsubscribed, Acknowledged, FailClosed, OwnerAt, OwnerControl, States,
                TypeOK, TypeRecords
  <2>4. subscriptions' \in Seq(Filters) /\ Len(subscriptions') <= SubscriptionsMax
    <3>1. /\ subscriptions \in Seq(Filters) /\ Len(subscriptions) <= SubscriptionsMax
          /\ SubscriptionsMax \in Nat
      BY FiltersAssumption DEF TypeOK, TypeQueues
    <3>2. CASE subscriptions' = subscriptions
      BY <3>1, <3>2
    <3>3. CASE UnsubackAccepted /\ subscriptions' = RemoveAt(subscriptions, pending.index)
      <4>1. pending.index \in DOMAIN subscriptions
        BY <3>3 DEF UnsubackAccepted, ControlInv, PendingFits
      <4>2. QED  BY <3>1, <3>3, <4>1, RemoveAtType
    <3>4. QED  BY <1>6, <3>2, <3>3 DEF PollUnsubscribed, Acknowledged
  <2>5. TypeFlags'
    BY <1>6 DEF PollUnsubscribed, Handles, Taken, Acknowledged, TypeOK, TypeFlags,
       ownerVars, sharedVars, sdkVars, history
  <2>6. TypeQueues'
    BY <1>6, <2>2, <2>4 DEF PollUnsubscribed, Handles, Taken, Acknowledged, TypeOK,
       TypeQueues, ownerVars, sharedVars, sdkVars, history
  <2>7. TypeRecords'
    BY <1>6, <2>3, ConstantTypes DEF PollUnsubscribed, Handles, Taken, Acknowledged, TypeOK,
       TypeRecords, ownerVars, sharedVars, sdkVars, history
  <2>8. TypeSdk'
    BY <1>6 DEF PollUnsubscribed, Handles, Taken, Acknowledged, TypeOK, TypeSdk, ownerVars,
       sharedVars, sdkVars, history
  <2>9. QED  BY <2>5, <2>6, <2>7, <2>8 DEF TypeOK
<1>7. CASE PollDisconnected
  <2>1. notices # << >> /\ notices' = Tail(notices)
    BY <1>7 DEF PollDisconnected, Handles, Taken
  <2>2. notices' \in Seq(Notice) /\ Len(notices') <= NoticeCapacity
    BY <2>1, NotifiedType
  <2>3. TypeFlags'
    BY <1>7 DEF PollDisconnected, Handles, Taken, TypeOK, TypeFlags, ownerVars, sharedVars,
       sdkVars, history
  <2>4. TypeQueues'
    BY <1>7, <2>2 DEF PollDisconnected, Handles, Taken, TypeOK, TypeQueues, ownerVars,
       sharedVars, sdkVars, history
  <2>5. TypeRecords'
    BY <1>7, ConstantTypes DEF PollDisconnected, Handles, Taken, OwnerAt, OwnerControl,
       States, TypeOK, TypeRecords, ownerVars, sharedVars, sdkVars, history
  <2>6. TypeSdk'
    BY <1>7 DEF PollDisconnected, Handles, Taken, TypeOK, TypeSdk, ownerVars, sharedVars,
       sdkVars, history
  <2>7. QED  BY <2>3, <2>4, <2>5, <2>6 DEF TypeOK
<1>8. CASE PollMessage
  <2>1. notices # << >> /\ notices' = Tail(notices)
    BY <1>8 DEF PollMessage, Handles, Taken
  <2>2. notices' \in Seq(Notice) /\ Len(notices') <= NoticeCapacity
    BY <2>1, NotifiedType
  <2>3. owner' \in OwnerControl
    BY <1>8, <2>1, NotifiedType DEF PollMessage, OwnerAt, OwnerControl, Notice
  <2>4. TypeFlags'
    BY <1>8 DEF PollMessage, Handles, Taken, TypeOK, TypeFlags, ownerVars, sharedVars,
       sdkVars, history
  <2>5. TypeQueues'
    BY <1>8, <2>2 DEF PollMessage, Handles, Taken, TypeOK, TypeQueues, ownerVars,
       sharedVars, sdkVars, history
  <2>6. TypeRecords'
    BY <1>8, <2>3 DEF PollMessage, Handles, Taken, TypeOK, TypeRecords, ownerVars,
       sharedVars, sdkVars, history
  <2>7. TypeSdk'
    BY <1>8 DEF PollMessage, Handles, Taken, TypeOK, TypeSdk, ownerVars, sharedVars,
       sdkVars, history
  <2>8. QED  BY <2>4, <2>5, <2>6, <2>7 DEF TypeOK
<1>9. CASE ReleaseMessage
  <2>1. owner.slot \in Slots \cup {NoSlot}
    BY DEF TypeOK, TypeRecords, OwnerControl
  <2>2. freeSlots' \in Seq(Slots) /\ Len(freeSlots') <= MessageSlots
    BY <1>9, <2>1, TokenType DEF ReleaseMessage
  <2>3. owner' \in OwnerControl /\ messages' \in [Slots -> BOOLEAN]
    BY <1>9 DEF ReleaseMessage, OwnerAt, OwnerControl, TypeOK, TypeRecords
  <2>4. TypeFlags'
    BY <1>9 DEF ReleaseMessage, TypeOK, TypeFlags, ownerVars, sharedVars, sdkVars, history
  <2>5. TypeQueues'
    BY <1>9, <2>2 DEF ReleaseMessage, TypeOK, TypeQueues, ownerVars, sharedVars, sdkVars,
       history
  <2>6. TypeRecords'
    BY <1>9, <2>3 DEF ReleaseMessage, TypeOK, TypeRecords, ownerVars, sharedVars, sdkVars,
       history
  <2>7. TypeSdk'
    BY <1>9 DEF ReleaseMessage, TypeOK, TypeSdk, ownerVars, sharedVars, sdkVars, history
  <2>8. QED  BY <2>4, <2>5, <2>6, <2>7 DEF TypeOK
<1>10. CASE PollError
  <2>1. notices # << >> /\ notices' = Tail(notices)
    BY <1>10 DEF PollError, Handles, Taken
  <2>2. notices' \in Seq(Notice) /\ Len(notices') <= NoticeCapacity
    BY <2>1, NotifiedType
  <2>3. owner' \in OwnerControl /\ state' \in States
    BY <1>10 DEF PollError, OwnerAt, FailClosed, OwnerControl, States, TypeOK, TypeRecords
  <2>4. TypeFlags'
    BY <1>10 DEF PollError, Handles, Taken, TypeOK, TypeFlags, ownerVars, sharedVars,
       sdkVars, history
  <2>5. TypeQueues'
    BY <1>10, <2>2 DEF PollError, Handles, Taken, TypeOK, TypeQueues, ownerVars, sharedVars,
       sdkVars, history
  <2>6. TypeRecords'
    BY <1>10, <2>3 DEF PollError, Handles, Taken, TypeOK, TypeRecords, ownerVars,
       sharedVars, sdkVars, history
  <2>7. TypeSdk'
    BY <1>10 DEF PollError, Handles, Taken, TypeOK, TypeSdk, ownerVars, sharedVars, sdkVars,
       history
  <2>8. QED  BY <2>4, <2>5, <2>6, <2>7 DEF TypeOK
<1>11. CASE PollCompletion
  <2>1. notices # << >> /\ notices' = Tail(notices)
    BY <1>11 DEF PollCompletion, Handles, Taken
  <2>2. notices' \in Seq(Notice) /\ Len(notices') <= NoticeCapacity
    BY <2>1, NotifiedType
  <2>3. TypeFlags'
    BY <1>11 DEF PollCompletion, Handles, Taken, TypeOK, TypeFlags, ownerVars, sharedVars,
       sdkVars, history
  <2>4. TypeQueues'
    BY <1>11, <2>2 DEF PollCompletion, Handles, Taken, TypeOK, TypeQueues, ownerVars,
       sharedVars, sdkVars, history
  <2>5. TypeRecords'
    BY <1>11 DEF PollCompletion, Handles, Taken, OwnerAt, OwnerControl, TypeOK, TypeRecords,
       ownerVars, sharedVars, sdkVars, history
  <2>6. TypeSdk'
    BY <1>11 DEF PollCompletion, Handles, Taken, TypeOK, TypeSdk, ownerVars, sharedVars,
       sdkVars, history
  <2>7. QED  BY <2>3, <2>4, <2>5, <2>6 DEF TypeOK
<1>12. QED
  BY <1>1, <1>2, <1>3, <1>4, <1>5, <1>6, <1>7, <1>8, <1>9, <1>10, <1>11, TypeRequests DEF Poll

\* esp_mqtt_abort_connection keeps types.
LEMMA AbortType ==
    ASSUME TypeOK, Abort
    PROVE  TypeOK'
<1>1. [Arrived EXCEPT !.kind = "DISCONNECTED"] \in Notice
  BY ArrivedType, NoticeFields DEF Kinds
<1>2. worker' \in WorkerControl
  BY <1>1, CallbackType DEF Abort
<1>3. sdk' \in SdkControl
  BY DEF Abort, TypeOK, TypeSdk, SdkControl
<1>4. TypeFlags'
  BY ReleaseReceiverType DEF Abort, TypeOK, TypeFlags, ownerVars
<1>5. TypeQueues'
  BY ReleaseReceiverType DEF Abort, TypeOK, TypeQueues, ownerVars
<1>6. TypeRecords'
  BY <1>2, ReleaseReceiverType DEF Abort, TypeOK, TypeRecords, ownerVars
<1>7. TypeSdk'
  BY <1>3 DEF Abort, TypeOK, TypeSdk, history
<1>8. QED  BY <1>4, <1>5, <1>6, <1>7, SMTT(40) DEF TypeOK

\* The events of the SDK keep types.
LEMMA TypeSdkEvent ==
    ASSUME TypeOK, SdkEvent
    PROVE  TypeOK'
<1>1. CASE SdkConnected
  <2>1. [Arrived EXCEPT !.kind = "CONNECTED"] \in Notice
    BY ArrivedType, NoticeFields DEF Kinds, Errors
  <2>2. worker' \in WorkerControl
    BY <1>1, <2>1, CallbackType DEF SdkConnected
  <2>3. sdk' \in SdkControl
    BY <1>1 DEF SdkConnected, TypeOK, TypeSdk, SdkControl
  <2>4. TypeFlags'
    BY <1>1, ReleaseReceiverType DEF SdkConnected, TypeOK, TypeFlags, ownerVars, sharedVars,
       sdkVars, history
  <2>5. TypeQueues'
    BY <1>1, ReleaseReceiverType DEF SdkConnected, TypeOK, TypeQueues, ownerVars,
       sharedVars, sdkVars, history
  <2>6. TypeRecords'
    BY <1>1, <2>2, ReleaseReceiverType DEF SdkConnected, TypeOK, TypeRecords, ownerVars,
       sharedVars, sdkVars, history
  <2>7. TypeSdk'
    BY <1>1, <2>3 DEF SdkConnected, TypeOK, TypeSdk, ownerVars, sharedVars, sdkVars, history
  <2>8. QED  BY <2>4, <2>5, <2>6, <2>7 DEF TypeOK
<1>2. CASE SdkDisconnected
  BY <1>2, AbortType, ZenonT(60) DEF SdkDisconnected
<1>3. CASE SdkError
  <2>1. [Arrived EXCEPT !.kind = "ERROR", !.error = "SDK"] \in Notice
    BY ArrivedType, NoticeFields DEF Kinds, Errors
  <2>2. worker' \in WorkerControl
    BY <1>3, <2>1, CallbackType DEF SdkError
  <2>3. TypeFlags'
    BY <1>3 DEF SdkError, TypeOK, TypeFlags, ownerVars, sharedVars, sdkVars, history
  <2>4. TypeQueues'
    BY <1>3 DEF SdkError, TypeOK, TypeQueues, ownerVars, sharedVars, sdkVars, history
  <2>5. TypeRecords'
    BY <1>3, <2>2 DEF SdkError, TypeOK, TypeRecords, ownerVars, sharedVars, sdkVars, history
  <2>6. TypeSdk'
    BY <1>3 DEF SdkError, TypeOK, TypeSdk, ownerVars, sharedVars, sdkVars, history
  <2>7. QED  BY <2>3, <2>4, <2>5, <2>6 DEF TypeOK
<1>4. CASE SdkStartError
  <2>1. [Arrived EXCEPT !.kind = "ERROR", !.error = "SDK"] \in Notice
    BY ArrivedType, NoticeFields DEF Kinds, Errors
  <2>2. worker' \in WorkerControl
    BY <1>4, <2>1, CallbackType DEF SdkStartError
  <2>3. sdk' \in SdkControl
    BY <1>4 DEF SdkStartError, TypeOK, TypeSdk, SdkControl
  <2>4. TypeFlags'
    BY <1>4 DEF SdkStartError, TypeOK, TypeFlags, ownerVars, sharedVars, sdkVars, history
  <2>5. TypeQueues'
    BY <1>4 DEF SdkStartError, TypeOK, TypeQueues, ownerVars, sharedVars, sdkVars, history
  <2>6. TypeRecords'
    BY <1>4, <2>2 DEF SdkStartError, TypeOK, TypeRecords, ownerVars, sharedVars, sdkVars,
       history
  <2>7. TypeSdk'
    BY <1>4, <2>3 DEF SdkStartError, TypeOK, TypeSdk, ownerVars, sharedVars, sdkVars, history
  <2>8. QED  BY <2>4, <2>5, <2>6, <2>7 DEF TypeOK
<1>5. CASE SdkSuback
  <2>0. PICK o \in outbox : \E codes \in [DOMAIN o.topics -> SubackCodes] \cup {<< >>} :
          /\ outbox' = outbox \ {o}
          /\ broker' = broker \cup {o.topics[i] : i \in {j \in DOMAIN codes : codes[j] <= 1}}
          /\ \/ confirmed' = confirmed
             \/ confirmed' = confirmed \cup
                   {o.topics[i] : i \in {j \in DOMAIN codes : codes[j] <= 1}}
          /\ Callback([Arrived EXCEPT !.kind = "SUBACK", !.id = o.id, !.codes = codes], "free")
    BY <1>5 DEF SdkSuback
  <2>1. PICK codes \in [DOMAIN o.topics -> SubackCodes] \cup {<< >>} :
          /\ outbox' = outbox \ {o}
          /\ broker' = broker \cup {o.topics[i] : i \in {j \in DOMAIN codes : codes[j] <= 1}}
          /\ \/ confirmed' = confirmed
             \/ confirmed' = confirmed \cup
                   {o.topics[i] : i \in {j \in DOMAIN codes : codes[j] <= 1}}
          /\ Callback([Arrived EXCEPT !.kind = "SUBACK", !.id = o.id, !.codes = codes], "free")
    BY <2>0
  <2>2. o.id \in Ids /\ o.topics \in Seq(Filters)
    BY DEF TypeOK, TypeSdk, OutboxItem
  <2>3. codes \in Seq(SubackCodes) /\ DOMAIN codes \subseteq DOMAIN o.topics
    <3>1. << >> \in Seq(SubackCodes) /\ DOMAIN << >> = {}
      OBVIOUS
    <3>2. DOMAIN o.topics = 1 .. Len(o.topics) /\ Len(o.topics) \in Nat
      BY <2>2
    <3>3. CASE codes = << >>
      BY <3>1, <3>3
    <3>4. CASE codes \in [1 .. Len(o.topics) -> SubackCodes]
      BY <3>2, <3>4
    <3>5. QED  BY <3>2, <3>3, <3>4
  <2>4. ASSUME NEW n \in Notice
        PROVE  [n EXCEPT !.kind = "SUBACK", !.id = o.id, !.codes = codes] \in Notice
    BY <2>2, <2>3 DEF Notice, Kinds
  <2>5. [Arrived EXCEPT !.kind = "SUBACK", !.id = o.id, !.codes = codes] \in Notice
    BY <2>4, ArrivedType
  <2>6. worker' \in WorkerControl
    BY <2>1, <2>5, CallbackType
  <2>7. {o.topics[i] : i \in {j \in DOMAIN codes : codes[j] <= 1}} \subseteq Filters
    BY <2>2, <2>3
  <2>8. broker' \subseteq Filters /\ confirmed' \subseteq Filters
    BY <2>1, <2>7 DEF TypeOK, TypeSdk
  <2>9. TypeFlags' /\ TypeQueues'
    BY <1>5 DEF SdkSuback, TypeOK, TypeFlags, TypeQueues, ownerVars, sharedVars
  <2>10. TypeRecords'
    BY <1>5, <2>6 DEF SdkSuback, TypeOK, TypeRecords, ownerVars, sharedVars
  <2>11. TypeSdk'
    BY <1>5, <2>1, <2>8 DEF SdkSuback, TypeOK, TypeSdk
  <2>12. QED  BY <2>9, <2>10, <2>11 DEF TypeOK
<1>6. CASE SdkUnsuback
  <2>1. PICK o \in outbox : /\ outbox' = outbox \ {o}
                          /\ Callback([Arrived EXCEPT !.kind = "UNSUBSCRIBED", !.id = o.id],
                                      "free")
    BY <1>6 DEF SdkUnsuback
  <2>2. o.id \in Ids
    BY SMTT(40) DEF TypeOK, TypeSdk, OutboxItem
  <2>3. [Arrived EXCEPT !.kind = "UNSUBSCRIBED", !.id = o.id] \in Notice
    BY <2>2, ArrivedType, NoticeFields DEF Kinds, Errors
  <2>4. worker' \in WorkerControl
    BY <2>1, <2>3, CallbackType
  <2>5. broker' \subseteq Filters /\ confirmed' \subseteq Filters
    BY <1>6 DEF SdkUnsuback, TypeOK, TypeSdk
  <2>6. TypeFlags'
    BY <1>6 DEF SdkUnsuback, TypeOK, TypeFlags, ownerVars, sharedVars, sdkVars, history
  <2>7. TypeQueues'
    BY <1>6 DEF SdkUnsuback, TypeOK, TypeQueues, ownerVars, sharedVars, sdkVars, history
  <2>8. TypeRecords'
    BY <1>6, <2>4 DEF SdkUnsuback, TypeOK, TypeRecords, ownerVars, sharedVars, sdkVars, history
  <2>9. TypeSdk'
    BY <1>6, <2>1, <2>5 DEF SdkUnsuback, TypeOK, TypeSdk, ownerVars, sharedVars, sdkVars,
       history
  <2>10. QED  BY <2>6, <2>7, <2>8, <2>9 DEF TypeOK
<1>7. CASE SdkPuback
  <2>1. PICK o \in outbox : /\ outbox' = outbox \ {o}
                          /\ Callback([Arrived EXCEPT !.kind = "PUBACK", !.id = o.id],
                                      "free")
    BY <1>7, ZenonT(60) DEF SdkPuback
  <2>2. o.id \in Ids
    BY DEF TypeOK, TypeSdk, OutboxItem
  <2>3. [Arrived EXCEPT !.kind = "PUBACK", !.id = o.id] \in Notice
    BY <2>2, ArrivedType, NoticeFields DEF Kinds, Errors
  <2>4. worker' \in WorkerControl
    BY <2>1, <2>3, CallbackType
  <2>5. TypeFlags'
    BY <1>7 DEF SdkPuback, TypeOK, TypeFlags, ownerVars, sharedVars, sdkVars, history
  <2>6. TypeQueues'
    BY <1>7 DEF SdkPuback, TypeOK, TypeQueues, ownerVars, sharedVars, sdkVars, history
  <2>7. TypeRecords'
    BY <1>7, <2>4 DEF SdkPuback, TypeOK, TypeRecords, ownerVars, sharedVars, sdkVars, history
  <2>8. TypeSdk'
    BY <1>7, <2>1 DEF SdkPuback, TypeOK, TypeSdk, ownerVars, sharedVars, sdkVars, history
  <2>9. QED  BY <2>5, <2>6, <2>7, <2>8 DEF TypeOK
<1>8. CASE SdkExpired
  <2>1. PICK o \in outbox : /\ outbox' = outbox \ {o}
                          /\ Callback([Arrived EXCEPT !.kind = "DELETED", !.id = o.id, !.error = "EXPIRED"],
                                      "free")
    BY <1>8, ZenonT(60) DEF SdkExpired
  <2>2. o.id \in Ids
    BY DEF TypeOK, TypeSdk, OutboxItem
  <2>3. [Arrived EXCEPT !.kind = "DELETED", !.id = o.id, !.error = "EXPIRED"] \in Notice
    BY <2>2, ArrivedType, NoticeFields DEF Kinds, Errors
  <2>4. worker' \in WorkerControl
    BY <2>1, <2>3, CallbackType
  <2>5. TypeFlags'
    BY <1>8 DEF SdkExpired, TypeOK, TypeFlags, ownerVars, sharedVars, sdkVars, history
  <2>6. TypeQueues'
    BY <1>8 DEF SdkExpired, TypeOK, TypeQueues, ownerVars, sharedVars, sdkVars, history
  <2>7. TypeRecords'
    BY <1>8, <2>4 DEF SdkExpired, TypeOK, TypeRecords, ownerVars, sharedVars, sdkVars, history
  <2>8. TypeSdk'
    BY <1>8, <2>1 DEF SdkExpired, TypeOK, TypeSdk, ownerVars, sharedVars, sdkVars, history
  <2>9. QED  BY <2>5, <2>6, <2>7, <2>8 DEF TypeOK
<1>9. CASE SdkPublish
  <2>1. PICK total \in InboundLengths : Fragment([total |-> total, offset |-> 0])
    BY <1>9 DEF SdkPublish
  <2>2. [total |-> total, offset |-> 0] \in [total : Nat, offset : Nat]
    BY PayloadAssumption
  <2>3. /\ worker' \in WorkerControl /\ receiver' \in Receiver
        /\ freeSlots' \in Seq(Slots) /\ Len(freeSlots') <= MessageSlots
    BY <2>1, <2>2, FragmentType
  <2>4. TypeFlags'
    BY <1>9 DEF SdkPublish, Fragment, TypeOK, TypeFlags, ownerVars, sharedVars, sdkVars, history
  <2>5. TypeQueues'
    BY <1>9, <2>3 DEF SdkPublish, Fragment, TypeOK, TypeQueues, ownerVars, sharedVars,
       sdkVars, history
  <2>6. TypeRecords'
    BY <1>9, <2>3 DEF SdkPublish, Fragment, TypeOK, TypeRecords, ownerVars, sharedVars,
       sdkVars, history
  <2>7. TypeSdk'
    BY <1>9 DEF SdkPublish, Fragment, TypeOK, TypeSdk, ownerVars, sharedVars, sdkVars, history
  <2>8. QED  BY <2>4, <2>5, <2>6, <2>7 DEF TypeOK
<1>10. QED
  BY <1>1, <1>2, <1>3, <1>4, <1>5, <1>6, <1>7, <1>8, <1>9 DEF SdkEvent

\* The worker's steps inside a message and a callback keep types.
LEMMA TypeSdkStep ==
    ASSUME TypeOK, SdkStep
    PROVE  TypeOK'
<1>1. CASE SdkAbort
  BY <1>1, AbortType DEF SdkAbort
<1>2. CASE SdkExit
  <2>1. sdk' \in SdkControl
    BY <1>2 DEF SdkExit, TypeOK, TypeSdk, SdkControl
  <2>2. TypeFlags'
    BY <1>2 DEF SdkExit, TypeOK, TypeFlags, ownerVars, sharedVars, sdkVars, history
  <2>3. TypeQueues'
    BY <1>2 DEF SdkExit, TypeOK, TypeQueues, ownerVars, sharedVars, sdkVars, history
  <2>4. TypeRecords'
    BY <1>2 DEF SdkExit, TypeOK, TypeRecords, ownerVars, sharedVars, sdkVars, history
  <2>5. TypeSdk'
    BY <1>2, <2>1 DEF SdkExit, TypeOK, TypeSdk, ownerVars, sharedVars, sdkVars, history
  <2>6. QED  BY <2>2, <2>3, <2>4, <2>5 DEF TypeOK
<1>3. CASE SdkNextFragment
  <2>1. [worker.wire EXCEPT !.offset = @ + 1] \in [total : Nat, offset : Nat]
    BY DEF TypeOK, TypeRecords, WorkerControl
  <2>2. Fragment([worker.wire EXCEPT !.offset = @ + 1])
    BY <1>3 DEF SdkNextFragment
  <2>3. /\ worker' \in WorkerControl /\ receiver' \in Receiver
        /\ freeSlots' \in Seq(Slots) /\ Len(freeSlots') <= MessageSlots
    BY <2>1, <2>2, FragmentType
  <2>4. TypeFlags'
    BY <1>3 DEF SdkNextFragment, Fragment, TypeOK, TypeFlags, ownerVars, sharedVars,
       sdkVars, history
  <2>5. TypeQueues'
    BY <1>3, <2>3 DEF SdkNextFragment, Fragment, TypeOK, TypeQueues, ownerVars, sharedVars,
       sdkVars, history
  <2>6. TypeRecords'
    BY <1>3, <2>3 DEF SdkNextFragment, Fragment, TypeOK, TypeRecords, ownerVars, sharedVars,
       sdkVars, history
  <2>7. TypeSdk'
    BY <1>3 DEF SdkNextFragment, Fragment, TypeOK, TypeSdk, ownerVars, sharedVars, sdkVars,
       history
  <2>8. QED  BY <2>4, <2>5, <2>6, <2>7 DEF TypeOK
<1>4. CASE SdkReadTimeout
  <2>1. TypeFlags'
    BY <1>4 DEF SdkReadTimeout, TypeOK, TypeFlags, ownerVars, sharedVars, sdkVars, history
  <2>2. TypeQueues'
    BY <1>4 DEF SdkReadTimeout, TypeOK, TypeQueues, ownerVars, sharedVars, sdkVars, history
  <2>3. TypeRecords'
    BY <1>4, ConstantTypes DEF SdkReadTimeout, TypeOK, TypeRecords, ownerVars, sharedVars,
       sdkVars, history
  <2>4. TypeSdk'
    BY <1>4 DEF SdkReadTimeout, TypeOK, TypeSdk, ownerVars, sharedVars, sdkVars, history
  <2>5. QED  BY <2>1, <2>2, <2>3, <2>4 DEF TypeOK
<1>5. CASE AllocFails
  <2>1. receiver.slot \in Slots \cup {NoSlot}
    BY DEF TypeOK, TypeRecords, Receiver
  <2>2. freeSlots' \in Seq(Slots) /\ Len(freeSlots') <= MessageSlots
    BY <1>5, <2>1, TokenType DEF AllocFails
  <2>3. receiver' \in Receiver
    BY <1>5 DEF AllocFails, TypeOK, TypeRecords, Receiver
  <2>4. TypeFlags'
    BY <1>5 DEF AllocFails, TypeOK, TypeFlags, ownerVars, sharedVars, sdkVars, history
  <2>5. TypeQueues'
    BY <1>5, <2>2 DEF AllocFails, TypeOK, TypeQueues, ownerVars, sharedVars, sdkVars, history
  <2>6. TypeRecords'
    BY <1>5, <2>3, AfterFragmentType DEF AllocFails, TypeOK, TypeRecords, ownerVars,
       sharedVars, sdkVars, history
  <2>7. TypeSdk'
    BY <1>5 DEF AllocFails, TypeOK, TypeSdk, ownerVars, sharedVars, sdkVars, history
  <2>8. QED  BY <2>4, <2>5, <2>6, <2>7 DEF TypeOK
<1>6. CASE Allocated
  <2>1. receiver' \in Receiver
    BY <1>6 DEF Allocated, TypeOK, TypeRecords, Receiver, WorkerControl
  <2>2. worker' \in WorkerControl
    BY <1>6 DEF Allocated, TypeOK, TypeRecords, WorkerControl
  <2>3. TypeFlags'
    BY <1>6 DEF Allocated, TypeOK, TypeFlags, ownerVars, sharedVars, sdkVars, history
  <2>4. TypeQueues'
    BY <1>6 DEF Allocated, TypeOK, TypeQueues, ownerVars, sharedVars, sdkVars, history
  <2>5. TypeRecords'
    BY <1>6, <2>1, <2>2 DEF Allocated, TypeOK, TypeRecords, ownerVars, sharedVars, sdkVars,
       history
  <2>6. TypeSdk'
    BY <1>6 DEF Allocated, TypeOK, TypeSdk, ownerVars, sharedVars, sdkVars, history
  <2>7. QED  BY <2>3, <2>4, <2>5, <2>6 DEF TypeOK
<1>7. CASE ReceiveMore
  <2>1. Filled \in Nat
    BY DEF Filled, TypeOK, TypeRecords, WorkerControl
  <2>2. receiver' \in Receiver
    BY <1>7, <2>1 DEF ReceiveMore, TypeOK, TypeRecords, Receiver
  <2>3. TypeFlags'
    BY <1>7 DEF ReceiveMore, TypeOK, TypeFlags, ownerVars, sharedVars, sdkVars, history
  <2>4. TypeQueues'
    BY <1>7 DEF ReceiveMore, TypeOK, TypeQueues, ownerVars, sharedVars, sdkVars, history
  <2>5. TypeRecords'
    BY <1>7, <2>2, AfterFragmentType DEF ReceiveMore, TypeOK, TypeRecords, ownerVars,
       sharedVars, sdkVars, history
  <2>6. TypeSdk'
    BY <1>7 DEF ReceiveMore, TypeOK, TypeSdk, ownerVars, sharedVars, sdkVars, history
  <2>7. QED  BY <2>3, <2>4, <2>5, <2>6 DEF TypeOK
<1>8. CASE ReceiveRejected
  <2>1. [worker.n EXCEPT !.kind = "ERROR", !.error = "FRAGMENT"] \in Notice
    <3>1. worker.n \in Notice
      BY DEF TypeOK, TypeRecords, WorkerControl
    <3>2. QED  BY <3>1, NoticeFields DEF Kinds, Errors
  <2>2. worker' \in WorkerControl
    BY <1>8, <2>1, CallbackType DEF ReceiveRejected, MoreToRead
  <2>3. TypeFlags'
    BY <1>8, ReleaseReceiverType DEF ReceiveRejected, TypeOK, TypeFlags, ownerVars,
       sharedVars, sdkVars, history
  <2>4. TypeQueues'
    BY <1>8, ReleaseReceiverType DEF ReceiveRejected, TypeOK, TypeQueues, ownerVars,
       sharedVars, sdkVars, history
  <2>5. TypeRecords'
    BY <1>8, <2>2, ReleaseReceiverType DEF ReceiveRejected, TypeOK, TypeRecords, ownerVars,
       sharedVars, sdkVars, history
  <2>6. TypeSdk'
    BY <1>8 DEF ReceiveRejected, TypeOK, TypeSdk, ownerVars, sharedVars, sdkVars, history
  <2>7. QED  BY <2>3, <2>4, <2>5, <2>6 DEF TypeOK
<1>9. CASE ReceiveNoSlot
  <2>1. TypeFlags'
    BY <1>9 DEF ReceiveNoSlot, TypeOK, TypeFlags, ownerVars, sharedVars, sdkVars, history
  <2>2. TypeQueues'
    BY <1>9 DEF ReceiveNoSlot, TypeOK, TypeQueues, ownerVars, sharedVars, sdkVars, history
  <2>3. TypeRecords'
    BY <1>9, ConstantTypes DEF ReceiveNoSlot, TypeOK, TypeRecords, ownerVars, sharedVars,
       sdkVars, history
  <2>4. TypeSdk'
    BY <1>9 DEF ReceiveNoSlot, TypeOK, TypeSdk, ownerVars, sharedVars, sdkVars, history
  <2>5. QED  BY <2>1, <2>2, <2>3, <2>4 DEF TypeOK
<1>10. CASE ReceiveComplete
  <2>1. PICK slot : /\ slot = IF receiver.slot # NoSlot THEN receiver.slot ELSE Head(freeSlots)
                    /\ messages' = [messages EXCEPT ![slot] = TRUE]
                    /\ Callback([worker.n EXCEPT !.kind = "MESSAGE", !.slot = slot], "free")
    BY <1>10 DEF ReceiveComplete
  <2>2. /\ freeSlots \in Seq(Slots) /\ Len(freeSlots) <= MessageSlots /\ MessageSlots \in Nat
        /\ receiver.slot \in Slots \cup {NoSlot}
        /\ receiver.slot # NoSlot \/ freeSlots # << >>
    BY <1>10, SlotsAssumption DEF ReceiveComplete, TypeOK, TypeQueues, TypeRecords, Receiver
  <2>3. slot \in Slots
    BY <2>1, <2>2, SMTT(40)
  <2>4. worker.n \in Notice
    BY DEF TypeOK, TypeRecords, WorkerControl
  <2>5. [worker.n EXCEPT !.kind = "MESSAGE", !.slot = slot] \in Notice
    BY <2>3, <2>4, NoticeFields DEF Kinds
  <2>6. worker' \in WorkerControl
    BY <2>1, <2>5, CallbackType
  <2>7. messages' \in [Slots -> BOOLEAN]
    BY <2>1 DEF TypeOK, TypeRecords
  <2>8. freeSlots' \in Seq(Slots) /\ Len(freeSlots') <= MessageSlots
    BY <1>10, <2>2 DEF ReceiveComplete
  <2>9. TypeFlags' /\ TypeSdk'
    BY <1>10 DEF ReceiveComplete, TypeOK, TypeFlags, TypeSdk, ownerVars, sdkVars, history
  <2>10. TypeQueues'
    BY <1>10, <2>8 DEF ReceiveComplete, TypeOK, TypeQueues, ownerVars
  <2>11. TypeRecords'
    BY <1>10, <2>6, <2>7, ConstantTypes
       DEF ReceiveComplete, HandedOver, TypeOK, TypeRecords, ownerVars
  <2>12. QED  BY <2>9, <2>10, <2>11 DEF TypeOK
<1>11. CASE Posted
  <2>1. worker.n \in Notice
    BY DEF TypeOK, TypeRecords, WorkerControl
  <2>2. notices' \in Seq(Notice) /\ Len(notices') <= NoticeCapacity
    BY <1>11, <2>1, CapacityAssumption DEF Posted, TypeOK, TypeQueues
  <2>3. TypeFlags'
    BY <1>11 DEF Posted, TypeOK, TypeFlags, ownerVars, sharedVars, sdkVars, history
  <2>4. TypeQueues'
    BY <1>11, <2>2 DEF Posted, TypeOK, TypeQueues, ownerVars, sharedVars, sdkVars, history
  <2>5. TypeRecords'
    BY <1>11, ReturnedType DEF Posted, TypeOK, TypeRecords, ownerVars, sharedVars, sdkVars,
       history
  <2>6. TypeSdk'
    BY <1>11 DEF Posted, TypeOK, TypeSdk, ownerVars, sharedVars, sdkVars, history
  <2>7. QED  BY <2>3, <2>4, <2>5, <2>6 DEF TypeOK
<1>12. CASE PostFull
  <2>1. worker' \in WorkerControl
    BY <1>12 DEF PostFull, TypeOK, TypeRecords, WorkerControl
  <2>2. TypeFlags'
    BY <1>12 DEF PostFull, TypeOK, TypeFlags, ownerVars, sharedVars, sdkVars, history
  <2>3. TypeQueues'
    BY <1>12 DEF PostFull, TypeOK, TypeQueues, ownerVars, sharedVars, sdkVars, history
  <2>4. TypeRecords'
    BY <1>12, <2>1 DEF PostFull, TypeOK, TypeRecords, ownerVars, sharedVars, sdkVars, history
  <2>5. TypeSdk'
    BY <1>12 DEF PostFull, TypeOK, TypeSdk, ownerVars, sharedVars, sdkVars, history
  <2>6. QED  BY <2>2, <2>3, <2>4, <2>5 DEF TypeOK
<1>13. CASE Dropped
  <2>1. worker.n.slot \in Slots \cup {NoSlot}
    BY DEF TypeOK, TypeRecords, WorkerControl, Notice
  <2>2. freeSlots' \in Seq(Slots) /\ Len(freeSlots') <= MessageSlots
    BY <1>13, <2>1, TokenType DEF Dropped
  <2>3. messages' \in [Slots -> BOOLEAN]
    BY <1>13 DEF Dropped, TypeOK, TypeRecords
  <2>4. TypeFlags'
    BY <1>13 DEF Dropped, TypeOK, TypeFlags, ownerVars, sharedVars, sdkVars, history
  <2>5. TypeQueues'
    BY <1>13, <2>2 DEF Dropped, TypeOK, TypeQueues, ownerVars, sharedVars, sdkVars, history
  <2>6. TypeRecords'
    BY <1>13, <2>3, ReturnedType DEF Dropped, TypeOK, TypeRecords, ownerVars, sharedVars,
       sdkVars, history
  <2>7. TypeSdk'
    BY <1>13 DEF Dropped, TypeOK, TypeSdk, ownerVars, sharedVars, sdkVars, history
  <2>8. QED  BY <2>4, <2>5, <2>6, <2>7 DEF TypeOK
<1>14. QED
  BY <1>1, <1>2, <1>3, <1>4, <1>5, <1>6, <1>7, <1>8, <1>9, <1>10, <1>11, <1>12, <1>13
     DEF SdkStep

\* Every step keeps types, given that a pending request fits the list.
LEMMA TypeStep ==
    ASSUME TypeOK, ControlInv, [Next]_vars
    PROVE  TypeOK'
<1>1. CASE DeadlinePasses
  <2>1. TypeFlags'
    BY <1>1 DEF DeadlinePasses, TypeOK, TypeFlags, sharedVars
  <2>2. TypeQueues'
    BY <1>1 DEF DeadlinePasses, TypeOK, TypeQueues, sharedVars
  <2>3. TypeRecords' /\ TypeSdk'
    BY <1>1 DEF DeadlinePasses, TypeOK, TypeRecords, TypeSdk, sharedVars, sdkVars, history
  <2>4. QED  BY <2>1, <2>2, <2>3 DEF TypeOK
<1>2. CASE UNCHANGED vars
  <2>1. TypeFlags'
    BY <1>2 DEF vars, TypeOK, TypeFlags, ownerVars, sharedVars
  <2>2. TypeQueues'
    BY <1>2 DEF vars, TypeOK, TypeQueues, ownerVars, sharedVars
  <2>3. TypeRecords' /\ TypeSdk'
    BY <1>2 DEF vars, TypeOK, TypeRecords, TypeSdk, ownerVars, sharedVars, sdkVars, history
  <2>4. QED  BY <2>1, <2>2, <2>3 DEF TypeOK
<1>3. QED
  BY <1>1, <1>2, TypeLifetime, TypeRequests, TypePoll, TypeSdkEvent, TypeSdkStep
     DEF Next, Application

-----------------------------------------------------------------------------
(***************************************************************************)
(* Control: who may act, and who holds what.                               *)
(***************************************************************************)

\* The worker acts only in a session, and never on the owner's fields.
LEMMA WorkerActs ==
    ASSUME ControlInv, SdkEvent \/ SdkStep
    PROVE  /\ sdk.task = "alive" /\ started
           /\ UNCHANGED <<state, started, faulted, subscriptions, pending, deadlineHit, owner>>
<1>1. CASE SdkEvent
  <2>1. sdk.task = "alive"
    BY <1>1, ZenonT(60) DEF SdkEvent, SdkConnected, SdkDisconnected, SdkError, SdkStartError, SdkSuback,
                SdkUnsuback, SdkPuback, SdkExpired, SdkPublish, Alive, ControlInv,
                SessionControl
  <2>2. UNCHANGED <<ownerVars, owner>>
    BY <1>1 DEF SdkEvent, SdkConnected, SdkDisconnected, SdkError, SdkStartError, SdkSuback,
                SdkUnsuback, SdkPuback, SdkExpired, SdkPublish, Abort, Fragment
  <2>3. QED  BY <2>1, <2>2, SMTT(40) DEF ControlInv, SessionControl, ownerVars
<1>2. CASE SdkStep
  <2>1. sdk.task = "alive"
    BY <1>2 DEF SdkStep, SdkAbort, SdkExit, SdkNextFragment, SdkReadTimeout, AllocFails,
                Allocated, ReceiveMore, ReceiveRejected, ReceiveNoSlot, ReceiveComplete,
                Posted, PostFull, Dropped, Alive, ControlInv, SessionControl
  <2>2. UNCHANGED <<ownerVars, owner>>
    BY <1>2 DEF SdkStep, SdkAbort, SdkExit, SdkNextFragment, SdkReadTimeout, AllocFails,
                Allocated, ReceiveMore, ReceiveRejected, ReceiveNoSlot, ReceiveComplete,
                Posted, PostFull, Dropped, Abort, Fragment
  <2>3. QED  BY <2>1, <2>2 DEF ControlInv, SessionControl, ownerVars
<1>3. QED  BY <1>1, <1>2

\* The owner never moves the worker.
LEMMA OwnerActs ==
    ASSUME Application \/ Stopping \/ Poll
    PROVE  UNCHANGED worker
<1>1. CASE Application
  BY <1>1 DEF Application, Create, Start, Stop, Subscribe, SubmitSubscriptions, Unsubscribe,
              Enqueue
<1>2. CASE Stopping
  BY <1>2, SMTT(40) DEF Stopping, StopNotStarted, StopCall, StopRefused, StopJoined
<1>3. CASE Poll
  BY <1>3 DEF Poll, PollBegin, PollEmpty, PollLate, PollConnected, Resubscribe,
              SubmitSubscriptions, PollSuback, PollUnsubscribed, PollDisconnected,
              PollMessage, ReleaseMessage, PollError, PollCompletion, Handles, Taken
<1>4. QED  BY <1>1, <1>2, <1>3

\* Subscribe, unsubscribe and the resubscription after CONNECTED.
LEMMA RequestSteps ==
    ASSUME TypeOK, Subscribe \/ Unsubscribe \/ Resubscribe
    PROVE  /\ owner' \in {OwnerAt("idle"), FailClosed}
           /\ sdk.run \/ UNCHANGED <<notices, overflow>>
           /\ UNCHANGED <<started, subscriptions, freeSlots, messages, receiver, worker, sdk>>
<1>1. ASSUME NEW topics \in Seq(Filters), NEW dynamic \in BOOLEAN,
             NEW filter \in Filters \cup {NoFilter},
             SubmitSubscriptions(topics, dynamic, filter)
      PROVE  /\ owner' \in {OwnerAt("idle"), FailClosed}
             /\ sdk.run \/ UNCHANGED <<notices, overflow>>
             /\ UNCHANGED <<started, subscriptions, freeSlots, messages, receiver, worker, sdk>>
  BY <1>1 DEF SubmitSubscriptions, RequestSent, RequestRefused
<1>2. CASE Subscribe
  <2>1. PICK f \in Filters : SubmitSubscriptions(<<f>>, TRUE, f)
    BY <1>2 DEF Subscribe
  <2>2. <<f>> \in Seq(Filters)
    OBVIOUS
  <2>3. TRUE \in BOOLEAN
    OBVIOUS
  <2>4. QED  BY <1>1, <2>1, <2>2, <2>3
<1>3. CASE Resubscribe
  <2>1. subscriptions \in Seq(Filters)
    BY DEF TypeOK, TypeQueues
  <2>2. FALSE \in BOOLEAN
    OBVIOUS
  <2>3. QED  BY <1>1, <1>3, <2>1, <2>2 DEF Resubscribe
<1>4. CASE Unsubscribe
  BY <1>4 DEF Unsubscribe, RequestSent, RequestRefused
<1>5. QED  BY <1>2, <1>3, <1>4

\* Every step keeps worker and session together.
LEMMA SessionControlStep ==
    ASSUME TypeOK, ControlInv, QuietWhenStopped, [Next]_vars
    PROVE  SessionControl'
<1>1. CASE Create
  BY <1>1 DEF Create, Drain, OwnerAt, ownerVars, sharedVars, sdkVars, history, TypeOK,
     TypeRecords, TypeSdk, SdkControl, ControlInv, SessionControl, QuietWhenStopped,
     WorkerIdle, LockFree
<1>2. CASE Start
  BY <1>2 DEF Start, Drain, ownerVars, sharedVars, sdkVars, history, TypeOK,
     TypeRecords, TypeSdk, SdkControl, ControlInv, SessionControl, QuietWhenStopped,
     WorkerIdle, LockFree
<1>3. CASE Stop
  BY <1>3 DEF Stop, ownerVars, sharedVars, sdkVars, history, TypeOK, TypeRecords,
     TypeSdk, SdkControl, ControlInv, SessionControl, QuietWhenStopped, WorkerIdle,
     LockFree
<1>4. CASE StopNotStarted
  BY <1>4 DEF StopNotStarted, Stopped, Drain, OwnerAt, ownerVars, sharedVars, sdkVars,
     history, TypeOK, TypeRecords, TypeSdk, SdkControl, ControlInv, SessionControl,
     QuietWhenStopped, WorkerIdle, LockFree
<1>5. CASE StopCall
  BY <1>5 DEF StopCall, PostTransportError, ownerVars, sharedVars, sdkVars, history,
     TypeOK, TypeRecords, TypeSdk, SdkControl, ControlInv, SessionControl,
     QuietWhenStopped, WorkerIdle, LockFree
<1>6. CASE StopRefused
  BY <1>6 DEF StopRefused, OwnerAt, ownerVars, sharedVars, sdkVars, history, TypeOK,
     TypeRecords, TypeSdk, SdkControl, ControlInv, SessionControl, QuietWhenStopped,
     WorkerIdle, LockFree
<1>7. CASE StopJoined
  BY <1>7 DEF StopJoined, Stopped, Drain, OwnerAt, ownerVars, sharedVars, sdkVars,
     history, TypeOK, TypeRecords, TypeSdk, SdkControl, ControlInv, SessionControl,
     QuietWhenStopped, WorkerIdle, LockFree
<1>8. CASE Enqueue
  BY <1>8 DEF Enqueue, Message, FreshIds, ownerVars, sharedVars, sdkVars, history,
     TypeOK, TypeRecords, TypeSdk, SdkControl, ControlInv, SessionControl,
     QuietWhenStopped, WorkerIdle, LockFree
<1>9. CASE PollBegin
  BY <1>9 DEF PollBegin, FailClosed, OwnerAt, ownerVars, sharedVars, sdkVars, history,
     TypeOK, TypeRecords, TypeSdk, SdkControl, ControlInv, SessionControl,
     QuietWhenStopped, WorkerIdle, LockFree
<1>10. CASE PollEmpty
  BY <1>10 DEF PollEmpty, FailClosed, OwnerAt, ownerVars, sharedVars, sdkVars, history,
     TypeOK, TypeRecords, TypeSdk, SdkControl, ControlInv, SessionControl,
     QuietWhenStopped, WorkerIdle, LockFree
<1>11. CASE PollLate
  BY <1>11 DEF PollLate, Taken, FailClosed, Late, ownerVars, sharedVars, sdkVars,
     history, TypeOK, TypeRecords, TypeSdk, SdkControl, ControlInv, SessionControl,
     QuietWhenStopped, WorkerIdle, LockFree
<1>12. CASE PollConnected
  BY <1>12 DEF PollConnected, Handles, Taken, OwnerAt, ownerVars, sharedVars, sdkVars,
     history, TypeOK, TypeRecords, TypeSdk, SdkControl, ControlInv, SessionControl,
     QuietWhenStopped, WorkerIdle, LockFree
<1>13. CASE PollSuback
  BY <1>13 DEF PollSuback, Handles, Taken, Acknowledged, FailClosed, OwnerAt, ownerVars,
     sharedVars, sdkVars, history, TypeOK, TypeRecords, TypeSdk, SdkControl, ControlInv,
     SessionControl, QuietWhenStopped, WorkerIdle, LockFree
<1>14. CASE PollUnsubscribed
  BY <1>14 DEF PollUnsubscribed, Handles, Taken, Acknowledged, FailClosed, OwnerAt,
     ownerVars, sharedVars, sdkVars, history, TypeOK, TypeRecords, TypeSdk, SdkControl,
     ControlInv, SessionControl, QuietWhenStopped, WorkerIdle, LockFree
<1>15. CASE PollDisconnected
  BY <1>15 DEF PollDisconnected, Handles, Taken, OwnerAt, ownerVars, sharedVars,
     sdkVars, history, TypeOK, TypeRecords, TypeSdk, SdkControl, ControlInv,
     SessionControl, QuietWhenStopped, WorkerIdle, LockFree
<1>16. CASE PollMessage
  BY <1>16 DEF PollMessage, Handles, Taken, OwnerAt, ownerVars, sharedVars, sdkVars,
     history, TypeOK, TypeRecords, TypeSdk, SdkControl, ControlInv, SessionControl,
     QuietWhenStopped, WorkerIdle, LockFree
<1>17. CASE ReleaseMessage
  BY <1>17 DEF ReleaseMessage, OwnerAt, ownerVars, sharedVars, sdkVars, history, TypeOK,
     TypeRecords, TypeSdk, SdkControl, ControlInv, SessionControl, QuietWhenStopped,
     WorkerIdle, LockFree
<1>18. CASE PollError
  BY <1>18 DEF PollError, Handles, Taken, FailClosed, OwnerAt, ownerVars, sharedVars,
     sdkVars, history, TypeOK, TypeRecords, TypeSdk, SdkControl, ControlInv,
     SessionControl, QuietWhenStopped, WorkerIdle, LockFree
<1>19. CASE PollCompletion
  BY <1>19 DEF PollCompletion, Handles, Taken, OwnerAt, ownerVars, sharedVars, sdkVars,
     history, TypeOK, TypeRecords, TypeSdk, SdkControl, ControlInv, SessionControl,
     QuietWhenStopped, WorkerIdle, LockFree
<1>20. CASE DeadlinePasses
  BY <1>20 DEF DeadlinePasses, ownerVars, sharedVars, sdkVars, history, TypeOK,
     TypeRecords, TypeSdk, SdkControl, ControlInv, SessionControl, QuietWhenStopped,
     WorkerIdle, LockFree
<1>21. CASE Subscribe \/ Unsubscribe \/ Resubscribe
  BY <1>21, RequestSteps DEF OwnerAt, FailClosed, ControlInv, SessionControl
<1>22. CASE SdkEvent \/ SdkStep
  <2>1. CASE SdkConnected
    BY <1>22, <2>1, WorkerActs DEF SdkConnected, Callback, Alive, ownerVars, sharedVars,
       sdkVars, history, TypeOK, TypeRecords, TypeSdk, SdkControl, ControlInv,
       SessionControl
  <2>2. CASE SdkDisconnected
    BY <1>22, <2>2, WorkerActs DEF SdkDisconnected, Abort, Callback, Alive, ownerVars,
       sharedVars, sdkVars, history, TypeOK, TypeRecords, TypeSdk, SdkControl,
       ControlInv, SessionControl
  <2>3. CASE SdkError
    BY <1>22, <2>3, WorkerActs DEF SdkError, Callback, Alive, ownerVars, sharedVars,
       sdkVars, history, TypeOK, TypeRecords, TypeSdk, SdkControl, ControlInv,
       SessionControl
  <2>4. CASE SdkStartError
    BY <1>22, <2>4, WorkerActs DEF SdkStartError, Callback, Alive, ownerVars,
       sharedVars, sdkVars, history, TypeOK, TypeRecords, TypeSdk, SdkControl,
       ControlInv, SessionControl
  <2>5. CASE SdkSuback
    BY <1>22, <2>5, WorkerActs DEF SdkSuback, Callback, Alive, ownerVars, sharedVars,
       sdkVars, history, TypeOK, TypeRecords, TypeSdk, SdkControl, ControlInv,
       SessionControl
  <2>6. CASE SdkUnsuback
    BY <1>22, <2>6, WorkerActs DEF SdkUnsuback, Callback, Alive, ownerVars, sharedVars,
       sdkVars, history, TypeOK, TypeRecords, TypeSdk, SdkControl, ControlInv,
       SessionControl
  <2>7. CASE SdkPuback
    BY <1>22, <2>7, WorkerActs DEF SdkPuback, Callback, Alive, ownerVars, sharedVars,
       sdkVars, history, TypeOK, TypeRecords, TypeSdk, SdkControl, ControlInv,
       SessionControl
  <2>8. CASE SdkExpired
    BY <1>22, <2>8, WorkerActs DEF SdkExpired, Callback, Alive, ownerVars, sharedVars,
       sdkVars, history, TypeOK, TypeRecords, TypeSdk, SdkControl, ControlInv,
       SessionControl
  <2>9. CASE SdkPublish
    BY <1>22, <2>9, WorkerActs DEF SdkPublish, Fragment, Alive, ownerVars, sharedVars,
       sdkVars, history, TypeOK, TypeRecords, TypeSdk, SdkControl, ControlInv,
       SessionControl
  <2>10. CASE SdkAbort
    BY <1>22, <2>10, WorkerActs DEF SdkAbort, Abort, Callback, Alive, ownerVars,
       sharedVars, sdkVars, history, TypeOK, TypeRecords, TypeSdk, SdkControl,
       ControlInv, SessionControl
  <2>11. CASE SdkExit
    BY <1>22, <2>11, WorkerActs DEF SdkExit, Alive, ownerVars, sharedVars, sdkVars,
       history, TypeOK, TypeRecords, TypeSdk, SdkControl, ControlInv, SessionControl
  <2>12. CASE SdkNextFragment
    BY <1>22, <2>12, WorkerActs DEF SdkNextFragment, Fragment, Alive, ownerVars,
       sharedVars, sdkVars, history, TypeOK, TypeRecords, TypeSdk, SdkControl,
       ControlInv, SessionControl
  <2>13. CASE SdkReadTimeout
    BY <1>22, <2>13, WorkerActs DEF SdkReadTimeout, Alive, ownerVars, sharedVars,
       sdkVars, history, TypeOK, TypeRecords, TypeSdk, SdkControl, ControlInv,
       SessionControl
  <2>14. CASE AllocFails
    BY <1>22, <2>14, WorkerActs DEF AllocFails, Alive, ownerVars, sharedVars, sdkVars,
       history, TypeOK, TypeRecords, TypeSdk, SdkControl, ControlInv, SessionControl
  <2>15. CASE Allocated
    BY <1>22, <2>15, WorkerActs DEF Allocated, Alive, ownerVars, sharedVars, sdkVars,
       history, TypeOK, TypeRecords, TypeSdk, SdkControl, ControlInv, SessionControl
  <2>16. CASE ReceiveMore
    BY <1>22, <2>16, WorkerActs DEF ReceiveMore, Alive, ownerVars, sharedVars, sdkVars,
       history, TypeOK, TypeRecords, TypeSdk, SdkControl, ControlInv, SessionControl
  <2>17. CASE ReceiveRejected
    BY <1>22, <2>17, WorkerActs DEF ReceiveRejected, Callback, Alive, ownerVars,
       sharedVars, sdkVars, history, TypeOK, TypeRecords, TypeSdk, SdkControl,
       ControlInv, SessionControl
  <2>18. CASE ReceiveNoSlot
    BY <1>22, <2>18, WorkerActs DEF ReceiveNoSlot, Alive, ownerVars, sharedVars,
       sdkVars, history, TypeOK, TypeRecords, TypeSdk, SdkControl, ControlInv,
       SessionControl
  <2>19. CASE ReceiveComplete
    BY <1>22, <2>19, WorkerActs DEF ReceiveComplete, Callback, Alive, ownerVars,
       sharedVars, sdkVars, history, TypeOK, TypeRecords, TypeSdk, SdkControl,
       ControlInv, SessionControl
  <2>20. CASE Posted
    BY <1>22, <2>20, WorkerActs DEF Posted, Alive, ownerVars, sharedVars, sdkVars,
       history, TypeOK, TypeRecords, TypeSdk, SdkControl, ControlInv, SessionControl
  <2>21. CASE PostFull
    BY <1>22, <2>21, WorkerActs DEF PostFull, Alive, ownerVars, sharedVars, sdkVars,
       history, TypeOK, TypeRecords, TypeSdk, SdkControl, ControlInv, SessionControl
  <2>22. CASE Dropped
    BY <1>22, <2>22, WorkerActs DEF Dropped, Alive, ownerVars, sharedVars, sdkVars,
       history, TypeOK, TypeRecords, TypeSdk, SdkControl, ControlInv, SessionControl
  <2>23. QED
    BY <1>22, <2>1, <2>2, <2>3, <2>4, <2>5, <2>6, <2>7, <2>8, <2>9, <2>10, <2>11, <2>12,
       <2>13, <2>14, <2>15, <2>16, <2>17, <2>18, <2>19, <2>20, <2>21, <2>22 DEF
       SdkEvent, SdkStep
<1>23. CASE UNCHANGED vars
  BY <1>23 DEF vars, ownerVars, sharedVars, sdkVars, history, ControlInv, SessionControl
<1>24. QED
  BY <1>1, <1>2, <1>3, <1>4, <1>5, <1>6, <1>7, <1>8, <1>9, <1>10, <1>11, <1>12, <1>13,
     <1>14, <1>15, <1>16, <1>17, <1>18, <1>19, <1>20, <1>21, <1>22, <1>23 DEF Next,
     Application, Stopping, Poll

\* The owner holds a slot only between its receipt and its release.
LEMMA OwnerSlotStep ==
    ASSUME TypeOK, ControlInv, QuietWhenStopped, [Next]_vars
    PROVE  OwnerSlotControl'
<1>1. CASE Create
  BY <1>1 DEF Create, Drain, OwnerAt, ownerVars, sharedVars, sdkVars, history, TypeOK,
     TypeRecords, OwnerControl, ControlInv, OwnerSlotControl
<1>2. CASE Start
  BY <1>2 DEF Start, Drain, ownerVars, sharedVars, sdkVars, history, TypeOK,
     TypeRecords, OwnerControl, ControlInv, OwnerSlotControl
<1>3. CASE Stop
  BY <1>3 DEF Stop, ownerVars, sharedVars, sdkVars, history, TypeOK, TypeRecords,
     OwnerControl, ControlInv, OwnerSlotControl
<1>4. CASE StopNotStarted
  BY <1>4 DEF StopNotStarted, Stopped, Drain, OwnerAt, ownerVars, sharedVars, sdkVars,
     history, TypeOK, TypeRecords, OwnerControl, ControlInv, OwnerSlotControl
<1>5. CASE StopCall
  BY <1>5 DEF StopCall, PostTransportError, ownerVars, sharedVars, sdkVars, history,
     TypeOK, TypeRecords, OwnerControl, ControlInv, OwnerSlotControl
<1>6. CASE StopRefused
  BY <1>6 DEF StopRefused, OwnerAt, ownerVars, sharedVars, sdkVars, history, TypeOK,
     TypeRecords, OwnerControl, ControlInv, OwnerSlotControl
<1>7. CASE StopJoined
  BY <1>7 DEF StopJoined, Stopped, Drain, OwnerAt, ownerVars, sharedVars, sdkVars,
     history, TypeOK, TypeRecords, OwnerControl, ControlInv, OwnerSlotControl
<1>8. CASE Enqueue
  BY <1>8 DEF Enqueue, Message, FreshIds, ownerVars, sharedVars, sdkVars, history,
     TypeOK, TypeRecords, OwnerControl, ControlInv, OwnerSlotControl
<1>9. CASE PollBegin
  BY <1>9, NotifiedType DEF PollBegin, FailClosed, OwnerAt, ownerVars, sharedVars,
     sdkVars, history, TypeOK, TypeRecords, OwnerControl, ControlInv, OwnerSlotControl
<1>10. CASE PollEmpty
  BY <1>10, NotifiedType DEF PollEmpty, FailClosed, OwnerAt, ownerVars, sharedVars,
     sdkVars, history, TypeOK, TypeRecords, OwnerControl, ControlInv, OwnerSlotControl
<1>11. CASE PollLate
  BY <1>11, NotifiedType DEF PollLate, Taken, FailClosed, Late, ownerVars, sharedVars,
     sdkVars, history, TypeOK, TypeRecords, OwnerControl, ControlInv, OwnerSlotControl
<1>12. CASE PollConnected
  BY <1>12, NotifiedType DEF PollConnected, Handles, Taken, OwnerAt, ownerVars,
     sharedVars, sdkVars, history, TypeOK, TypeRecords, OwnerControl, ControlInv,
     OwnerSlotControl
<1>13. CASE PollSuback
  BY <1>13, NotifiedType DEF PollSuback, Handles, Taken, Acknowledged, FailClosed,
     OwnerAt, ownerVars, sharedVars, sdkVars, history, TypeOK, TypeRecords,
     OwnerControl, ControlInv, OwnerSlotControl
<1>14. CASE PollUnsubscribed
  BY <1>14, NotifiedType DEF PollUnsubscribed, Handles, Taken, Acknowledged, FailClosed,
     OwnerAt, ownerVars, sharedVars, sdkVars, history, TypeOK, TypeRecords,
     OwnerControl, ControlInv, OwnerSlotControl
<1>15. CASE PollDisconnected
  BY <1>15, NotifiedType DEF PollDisconnected, Handles, Taken, OwnerAt, ownerVars,
     sharedVars, sdkVars, history, TypeOK, TypeRecords, OwnerControl, ControlInv,
     OwnerSlotControl
<1>16. CASE PollMessage
  BY <1>16, NotifiedType DEF PollMessage, Handles, Taken, OwnerAt, ownerVars,
     sharedVars, sdkVars, history, TypeOK, TypeRecords, OwnerControl, ControlInv,
     OwnerSlotControl, NoticeControl, Notified, TypeQueues
<1>17. CASE ReleaseMessage
  BY <1>17 DEF ReleaseMessage, OwnerAt, ownerVars, sharedVars, sdkVars, history, TypeOK,
     TypeRecords, OwnerControl, ControlInv, OwnerSlotControl
<1>18. CASE PollError
  BY <1>18, NotifiedType DEF PollError, Handles, Taken, FailClosed, OwnerAt, ownerVars,
     sharedVars, sdkVars, history, TypeOK, TypeRecords, OwnerControl, ControlInv,
     OwnerSlotControl
<1>19. CASE PollCompletion
  BY <1>19, NotifiedType DEF PollCompletion, Handles, Taken, OwnerAt, ownerVars,
     sharedVars, sdkVars, history, TypeOK, TypeRecords, OwnerControl, ControlInv,
     OwnerSlotControl
<1>20. CASE DeadlinePasses
  BY <1>20 DEF DeadlinePasses, ownerVars, sharedVars, sdkVars, history, TypeOK,
     TypeRecords, OwnerControl, ControlInv, OwnerSlotControl
<1>21. CASE Subscribe \/ Unsubscribe \/ Resubscribe
  BY <1>21, RequestSteps DEF OwnerAt, FailClosed, OwnerSlotControl
<1>22. CASE SdkEvent \/ SdkStep
  BY <1>22, WorkerActs DEF ControlInv, OwnerSlotControl
<1>23. CASE UNCHANGED vars
  BY <1>23 DEF vars, ownerVars, sharedVars, sdkVars, history, ControlInv,
     OwnerSlotControl
<1>24. QED
  BY <1>1, <1>2, <1>3, <1>4, <1>5, <1>6, <1>7, <1>8, <1>9, <1>10, <1>11, <1>12, <1>13,
     <1>14, <1>15, <1>16, <1>17, <1>18, <1>19, <1>20, <1>21, <1>22, <1>23 DEF Next,
     Application, Stopping, Poll

\* A session that has ended has left nothing behind.
LEMMA QuietStep ==
    ASSUME TypeOK, ControlInv, QuietWhenStopped, [Next]_vars
    PROVE  QuietWhenStopped'
<1>1. CASE Create
  BY <1>1 DEF Create, Drain, OwnerAt, ownerVars, sharedVars, sdkVars, history,
     QuietWhenStopped, ControlInv, SessionControl, CallbackControl, LockFree,
     OwnerSlotControl, TypeOK, TypeSdk, SdkControl
<1>2. CASE Start
  BY <1>2 DEF Start, Drain, ownerVars, sharedVars, sdkVars, history, QuietWhenStopped,
     ControlInv, SessionControl, CallbackControl, LockFree, OwnerSlotControl, TypeOK,
     TypeSdk, SdkControl
<1>3. CASE Stop
  BY <1>3 DEF Stop, ownerVars, sharedVars, sdkVars, history, QuietWhenStopped,
     ControlInv, SessionControl, CallbackControl, LockFree, OwnerSlotControl, TypeOK,
     TypeSdk, SdkControl
<1>4. CASE StopNotStarted
  BY <1>4 DEF StopNotStarted, Stopped, Drain, OwnerAt, ownerVars, sharedVars, sdkVars,
     history, QuietWhenStopped, ControlInv, SessionControl, CallbackControl, LockFree,
     OwnerSlotControl, TypeOK, TypeSdk, SdkControl
<1>5. CASE StopCall
  BY <1>5 DEF StopCall, PostTransportError, ownerVars, sharedVars, sdkVars, history,
     QuietWhenStopped, ControlInv, SessionControl, CallbackControl, LockFree,
     OwnerSlotControl, TypeOK, TypeSdk, SdkControl
<1>6. CASE StopRefused
  BY <1>6 DEF StopRefused, OwnerAt, ownerVars, sharedVars, sdkVars, history,
     QuietWhenStopped, ControlInv, SessionControl, CallbackControl, LockFree,
     OwnerSlotControl, TypeOK, TypeSdk, SdkControl
<1>7. CASE StopJoined
  BY <1>7 DEF StopJoined, Stopped, Drain, OwnerAt, ownerVars, sharedVars, sdkVars,
     history, QuietWhenStopped, ControlInv, SessionControl, CallbackControl, LockFree,
     OwnerSlotControl, TypeOK, TypeSdk, SdkControl
<1>8. CASE Enqueue
  BY <1>8 DEF Enqueue, Message, FreshIds, ownerVars, sharedVars, sdkVars, history,
     QuietWhenStopped, ControlInv, SessionControl, CallbackControl, LockFree,
     OwnerSlotControl, TypeOK, TypeSdk, SdkControl
<1>9. CASE PollBegin
  BY <1>9 DEF PollBegin, FailClosed, OwnerAt, ownerVars, sharedVars, sdkVars, history,
     QuietWhenStopped, ControlInv, SessionControl, CallbackControl, LockFree,
     OwnerSlotControl, TypeOK, TypeSdk, SdkControl
<1>10. CASE PollEmpty
  BY <1>10 DEF PollEmpty, FailClosed, OwnerAt, ownerVars, sharedVars, sdkVars, history,
     QuietWhenStopped, ControlInv, SessionControl, CallbackControl, LockFree,
     OwnerSlotControl, TypeOK, TypeSdk, SdkControl
<1>11. CASE PollLate
  BY <1>11 DEF PollLate, Taken, FailClosed, Late, ownerVars, sharedVars, sdkVars,
     history, QuietWhenStopped, ControlInv, SessionControl, CallbackControl, LockFree,
     OwnerSlotControl, TypeOK, TypeSdk, SdkControl
<1>12. CASE PollConnected
  BY <1>12 DEF PollConnected, Handles, Taken, OwnerAt, ownerVars, sharedVars, sdkVars,
     history, QuietWhenStopped, ControlInv, SessionControl, CallbackControl, LockFree,
     OwnerSlotControl, TypeOK, TypeSdk, SdkControl
<1>13. CASE PollSuback
  BY <1>13 DEF PollSuback, Handles, Taken, Acknowledged, FailClosed, OwnerAt, ownerVars,
     sharedVars, sdkVars, history, QuietWhenStopped, ControlInv, SessionControl,
     CallbackControl, LockFree, OwnerSlotControl, TypeOK, TypeSdk, SdkControl
<1>14. CASE PollUnsubscribed
  BY <1>14 DEF PollUnsubscribed, Handles, Taken, Acknowledged, FailClosed, OwnerAt,
     ownerVars, sharedVars, sdkVars, history, QuietWhenStopped, ControlInv,
     SessionControl, CallbackControl, LockFree, OwnerSlotControl, TypeOK, TypeSdk,
     SdkControl
<1>15. CASE PollDisconnected
  BY <1>15 DEF PollDisconnected, Handles, Taken, OwnerAt, ownerVars, sharedVars,
     sdkVars, history, QuietWhenStopped, ControlInv, SessionControl, CallbackControl,
     LockFree, OwnerSlotControl, TypeOK, TypeSdk, SdkControl
<1>16. CASE PollMessage
  BY <1>16 DEF PollMessage, Handles, Taken, OwnerAt, ownerVars, sharedVars, sdkVars,
     history, QuietWhenStopped, ControlInv, SessionControl, CallbackControl, LockFree,
     OwnerSlotControl, TypeOK, TypeSdk, SdkControl
<1>17. CASE ReleaseMessage
  BY <1>17, ConstantTypes, SlotsAssumption DEF ReleaseMessage, OwnerAt, ownerVars,
     sharedVars, sdkVars, history, QuietWhenStopped, ControlInv, SessionControl,
     CallbackControl, LockFree, OwnerSlotControl, TypeOK, TypeSdk, SdkControl
<1>18. CASE PollError
  BY <1>18 DEF PollError, Handles, Taken, FailClosed, OwnerAt, ownerVars, sharedVars,
     sdkVars, history, QuietWhenStopped, ControlInv, SessionControl, CallbackControl,
     LockFree, OwnerSlotControl, TypeOK, TypeSdk, SdkControl
<1>19. CASE PollCompletion
  BY <1>19 DEF PollCompletion, Handles, Taken, OwnerAt, ownerVars, sharedVars, sdkVars,
     history, QuietWhenStopped, ControlInv, SessionControl, CallbackControl, LockFree,
     OwnerSlotControl, TypeOK, TypeSdk, SdkControl
<1>20. CASE DeadlinePasses
  BY <1>20 DEF DeadlinePasses, ownerVars, sharedVars, sdkVars, history,
     QuietWhenStopped, ControlInv, SessionControl, CallbackControl, LockFree,
     OwnerSlotControl, TypeOK, TypeSdk, SdkControl
<1>21. CASE Subscribe \/ Unsubscribe \/ Resubscribe
  BY <1>21, RequestSteps DEF QuietWhenStopped, ControlInv, SessionControl
<1>22. CASE SdkEvent \/ SdkStep
  BY <1>22, WorkerActs DEF QuietWhenStopped
<1>23. CASE UNCHANGED vars
  BY <1>23 DEF vars, ownerVars, sharedVars, sdkVars, history, QuietWhenStopped
<1>24. QED
  BY <1>1, <1>2, <1>3, <1>4, <1>5, <1>6, <1>7, <1>8, <1>9, <1>10, <1>11, <1>12, <1>13,
     <1>14, <1>15, <1>16, <1>17, <1>18, <1>19, <1>20, <1>21, <1>22, <1>23 DEF Next,
     Application, Stopping, Poll

\* A request that was accepted fits the list it was made for.
LEMMA RequestFits ==
    ASSUME TypeOK, ControlInv, Subscribe \/ Unsubscribe \/ Resubscribe
    PROVE  PendingFits'
<1>1. UNCHANGED subscriptions
  BY RequestSteps
<1>2. CASE Subscribe
  <2>1. PICK f \in Filters : SubmitSubscriptions(<<f>>, TRUE, f)
    BY <1>2 DEF Subscribe
  <2>2. CASE UNCHANGED pending
    BY <1>1, <2>2 DEF ControlInv, PendingFits
  <2>3. CASE \E id \in Ids : pending' = [ClearedPending EXCEPT !.subscribe = id,
                                !.count = Len(<<f>>), !.dynamic = TRUE, !.subscription = f]
    BY <1>1, <1>2, <2>3 DEF PendingFits, ClearedPending, Subscribe
  <2>4. QED  BY <2>1, <2>2, <2>3 DEF SubmitSubscriptions, RequestSent, RequestRefused, FreshIds
<1>3. CASE Resubscribe
  <2>1. SubmitSubscriptions(subscriptions, FALSE, NoFilter)
    BY <1>3 DEF Resubscribe
  <2>2. CASE UNCHANGED pending
    BY <1>1, <2>2 DEF ControlInv, PendingFits
  <2>3. CASE \E id \in Ids : pending' = [ClearedPending EXCEPT !.subscribe = id,
             !.count = Len(subscriptions), !.dynamic = FALSE, !.subscription = NoFilter]
    BY <1>1, <2>3 DEF PendingFits, ClearedPending
  <2>4. QED  BY <2>1, <2>2, <2>3 DEF SubmitSubscriptions, RequestSent, RequestRefused, FreshIds
<1>4. CASE Unsubscribe
  <2>1. CASE UNCHANGED pending
    BY <1>1, <2>1 DEF ControlInv, PendingFits
  <2>2. CASE \E k \in DOMAIN subscriptions : \E id \in Ids :
                pending' = [ClearedPending EXCEPT !.unsubscribe = id, !.index = k]
    BY <1>1, <2>2 DEF PendingFits, ClearedPending
  <2>3. QED  BY <1>4, <2>1, <2>2 DEF Unsubscribe, RequestSent, RequestRefused, FreshIds
<1>5. QED  BY <1>2, <1>3, <1>4

\* A pending request keeps fitting until it is answered or cleared.
LEMMA PendingFitsStep ==
    ASSUME TypeOK, ControlInv, QuietWhenStopped, [Next]_vars
    PROVE  PendingFits'
<1>1. CASE Create
  BY <1>1 DEF Create, Drain, OwnerAt, ownerVars, sharedVars, sdkVars, history,
     ControlInv, PendingFits, ClearedPending
<1>2. CASE Start
  BY <1>2 DEF Start, Drain, ownerVars, sharedVars, sdkVars, history, ControlInv,
     PendingFits, ClearedPending
<1>3. CASE Stop
  BY <1>3 DEF Stop, ownerVars, sharedVars, sdkVars, history, ControlInv, PendingFits,
     ClearedPending
<1>4. CASE StopNotStarted
  BY <1>4 DEF StopNotStarted, Stopped, Drain, OwnerAt, ownerVars, sharedVars, sdkVars,
     history, ControlInv, PendingFits, ClearedPending
<1>5. CASE StopCall
  BY <1>5 DEF StopCall, PostTransportError, ownerVars, sharedVars, sdkVars, history,
     ControlInv, PendingFits, ClearedPending
<1>6. CASE StopRefused
  BY <1>6 DEF StopRefused, OwnerAt, ownerVars, sharedVars, sdkVars, history, ControlInv,
     PendingFits, ClearedPending
<1>7. CASE StopJoined
  BY <1>7 DEF StopJoined, Stopped, Drain, OwnerAt, ownerVars, sharedVars, sdkVars,
     history, ControlInv, PendingFits, ClearedPending
<1>8. CASE Enqueue
  BY <1>8 DEF Enqueue, Message, FreshIds, ownerVars, sharedVars, sdkVars, history,
     ControlInv, PendingFits, ClearedPending
<1>9. CASE PollBegin
  BY <1>9 DEF PollBegin, FailClosed, OwnerAt, ownerVars, sharedVars, sdkVars, history,
     ControlInv, PendingFits, ClearedPending
<1>10. CASE PollEmpty
  BY <1>10 DEF PollEmpty, FailClosed, OwnerAt, ownerVars, sharedVars, sdkVars, history,
     ControlInv, PendingFits, ClearedPending
<1>11. CASE PollLate
  BY <1>11 DEF PollLate, Taken, FailClosed, Late, ownerVars, sharedVars, sdkVars,
     history, ControlInv, PendingFits, ClearedPending
<1>12. CASE PollConnected
  BY <1>12 DEF PollConnected, Handles, Taken, OwnerAt, ownerVars, sharedVars, sdkVars,
     history, ControlInv, PendingFits, ClearedPending
<1>13. CASE PollSuback
  BY <1>13, FiltersAssumption DEF PollSuback, Handles, Taken, Acknowledged, FailClosed,
     OwnerAt, ownerVars, sharedVars, sdkVars, history, ControlInv, PendingFits,
     ClearedPending
<1>14. CASE PollUnsubscribed
  BY <1>14 DEF PollUnsubscribed, Handles, Taken, Acknowledged, FailClosed, OwnerAt,
     ownerVars, sharedVars, sdkVars, history, ControlInv, PendingFits, ClearedPending
<1>15. CASE PollDisconnected
  BY <1>15 DEF PollDisconnected, Handles, Taken, OwnerAt, ownerVars, sharedVars,
     sdkVars, history, ControlInv, PendingFits, ClearedPending
<1>16. CASE PollMessage
  BY <1>16 DEF PollMessage, Handles, Taken, OwnerAt, ownerVars, sharedVars, sdkVars,
     history, ControlInv, PendingFits, ClearedPending
<1>17. CASE ReleaseMessage
  BY <1>17 DEF ReleaseMessage, OwnerAt, ownerVars, sharedVars, sdkVars, history,
     ControlInv, PendingFits, ClearedPending
<1>18. CASE PollError
  BY <1>18 DEF PollError, Handles, Taken, FailClosed, OwnerAt, ownerVars, sharedVars,
     sdkVars, history, ControlInv, PendingFits, ClearedPending
<1>19. CASE PollCompletion
  BY <1>19 DEF PollCompletion, Handles, Taken, OwnerAt, ownerVars, sharedVars, sdkVars,
     history, ControlInv, PendingFits, ClearedPending
<1>20. CASE DeadlinePasses
  BY <1>20 DEF DeadlinePasses, ownerVars, sharedVars, sdkVars, history, ControlInv,
     PendingFits, ClearedPending
<1>21. CASE Subscribe \/ Unsubscribe \/ Resubscribe
  BY <1>21, RequestFits
<1>22. CASE SdkEvent \/ SdkStep
  BY <1>22, WorkerActs DEF ControlInv, PendingFits
<1>23. CASE UNCHANGED vars
  BY <1>23 DEF vars, ownerVars, sharedVars, sdkVars, history, ControlInv, PendingFits
<1>24. QED
  BY <1>1, <1>2, <1>3, <1>4, <1>5, <1>6, <1>7, <1>8, <1>9, <1>10, <1>11, <1>12, <1>13,
     <1>14, <1>15, <1>16, <1>17, <1>18, <1>19, <1>20, <1>21, <1>22, <1>23 DEF Next,
     Application, Stopping, Poll

\* A notice names a slot exactly when it announces a message.
Paired(n) == n.slot # NoSlot <=> n.kind = "MESSAGE"

\* The notice of any other event.
Slotless(n) == n.slot = NoSlot /\ n.kind # "MESSAGE"

\* The notices that are there when a new deadline is set.
Restarted(q) == [i \in DOMAIN q |-> [q[i] EXCEPT !.late = FALSE]]

\* The queue operations of poll, post and a new request keep notices paired.
LEMMA PairedQueue ==
    ASSUME NEW q \in Seq(Notice), \A i \in DOMAIN q : Paired(q[i])
    PROVE  /\ q # << >> => \A i \in DOMAIN Tail(q) : Paired(Tail(q)[i])
           /\ \A n \in Notice : Paired(n) => \A i \in DOMAIN Append(q, n) : Paired(Append(q, n)[i])
           /\ \A i \in DOMAIN q : Paired([q[i] EXCEPT !.late = FALSE])
<1>1. ASSUME q # << >>, NEW i \in DOMAIN Tail(q)
      PROVE  Paired(Tail(q)[i])
  <2>1. Tail(q)[i] = q[i + 1] /\ i + 1 \in DOMAIN q
    BY <1>1
  <2>2. QED  BY <2>1
<1>2. ASSUME NEW n \in Notice, Paired(n), NEW i \in DOMAIN Append(q, n)
      PROVE  Paired(Append(q, n)[i])
  <2>1. Append(q, n)[i] = n \/ (i \in DOMAIN q /\ Append(q, n)[i] = q[i])
    BY <1>2
  <2>2. QED  BY <1>2, <2>1
<1>3. ASSUME NEW i \in DOMAIN q
      PROVE  Paired([q[i] EXCEPT !.late = FALSE])
  <2>1. q[i] \in Notice /\ Paired(q[i])
    BY <1>3
  <2>2. QED  BY <2>1 DEF Paired, Notice
<1>4. QED  BY <1>1, <1>2, <1>3

\* The slot a completed message gets, its own or a free one, is a slot.
LEMMA CompletedSlot ==
    ASSUME TypeOK, ReceiveComplete
    PROVE  (IF receiver.slot # NoSlot THEN receiver.slot ELSE Head(freeSlots)) \in Slots
<1>1. receiver.slot \in Slots \cup {NoSlot} /\ freeSlots \in Seq(Slots)
  BY DEF TypeOK, TypeQueues, TypeRecords, Receiver
<1>2. freeSlots # << >> => Head(freeSlots) \in Slots
  BY <1>1
<1>3. QED  BY <1>1, <1>2 DEF ReceiveComplete

\* What the worker has in hand when it enters and when it leaves post.
LEMMA CallbackPost ==
    ASSUME TypeOK, NEW n, NEW then, Callback(n, then)
    PROVE  worker'.pc = "post" /\ worker'.n = n
BY DEF Callback, TypeOK, TypeRecords, WorkerControl

\* A worker that returns from on_event has let go of its notice.
LEMMA ReturnedControl ==
    ASSUME TypeOK
    PROVE  \/ Returned = WorkerIdle
           \/ Returned.pc \in {"reading", "abort"} /\ Returned.n = NoNotice
BY DEF Returned, TypeOK, TypeRecords, WorkerControl

\* So has one that waits for the next fragment.
LEMMA AfterFragmentControl ==
    ASSUME TypeOK
    PROVE  \/ AfterFragment = WorkerIdle
           \/ AfterFragment.pc = "reading" /\ AfterFragment.n = NoNotice
BY DEF AfterFragment, TypeOK, TypeRecords, WorkerControl

\* A callback that starts with the receiver at rest or released keeps the
\* worker's control, if its notice carries no slot.
LEMMA EventControl ==
    ASSUME TypeOK, ControlInv, NEW n, NEW then, Callback(n, then), Slotless(n),
           worker.pc \in {"free", "reading", "abort"},
           receiver' \in {receiver, IdleReceiver}
    PROVE  CallbackControl' /\ worker'.n.slot = NoSlot
BY CallbackPost DEF ControlInv, CallbackControl, Slotless, IdleReceiver

\* The same for a worker that is not in a callback any more.
LEMMA RestControl ==
    ASSUME TypeOK, ControlInv, worker.pc # "alloc", receiver' \in {receiver, IdleReceiver},
           \/ worker' = WorkerIdle
           \/ worker'.pc \in {"reading", "abort"} /\ worker'.n = NoNotice
    PROVE  CallbackControl'
BY DEF ControlInv, CallbackControl, IdleReceiver, WorkerIdle, NoNotice

\* A fragment that arrives: a slot is taken only on the way to the allocation.
LEMMA FragmentControl ==
    ASSUME TypeOK, ControlInv, NEW w, Fragment(w), worker.pc \in {"free", "reading"}
    PROVE  CallbackControl' /\ worker'.n.slot = NoSlot
<1>1. CASE receiver.buffer
  <2>1. worker'.pc = "receive" /\ worker'.n = Arrived /\ UNCHANGED receiver
    BY <1>1 DEF Fragment, WorkerIdle
  <2>2. QED  BY <1>1, <2>1 DEF CallbackControl, Arrived, NoNotice
<1>2. CASE ~receiver.buffer /\ w.total > PayloadMax
  <2>1. /\ worker'.pc = "post" /\ UNCHANGED receiver
        /\ worker'.n = [Arrived EXCEPT !.kind = "ERROR", !.error = "FRAGMENT"]
    BY <1>2 DEF Fragment, WorkerIdle
  <2>2. worker'.n.slot = NoSlot /\ worker'.n.kind = "ERROR"
    BY <2>1 DEF Arrived, NoNotice
  <2>3. QED  BY <1>2, <2>1, <2>2 DEF ControlInv, CallbackControl
<1>3. CASE ~receiver.buffer /\ ~(w.total > PayloadMax)
  <2>1. worker'.pc = "alloc" /\ worker'.n = Arrived
    BY <1>3 DEF Fragment, WorkerIdle
  <2>2. QED  BY <2>1 DEF CallbackControl, Arrived, NoNotice
<1>4. QED  BY <1>1, <1>2, <1>3

\* The events of the SDK enter the callback with a notice that carries no slot.
LEMMA CallbackEvents ==
    ASSUME TypeOK, ControlInv, SdkEvent \/ SdkAbort
    PROVE  CallbackControl' /\ worker'.n.slot = NoSlot
<1>1. CASE SdkConnected
  <2>1. Callback([Arrived EXCEPT !.kind = "CONNECTED"], "free")
    BY <1>1 DEF SdkConnected
  <2>2. Slotless([Arrived EXCEPT !.kind = "CONNECTED"])
    BY DEF Slotless, Arrived, NoNotice
  <2>3. worker.pc = "free" /\ receiver' = IdleReceiver
    BY <1>1 DEF SdkConnected, Alive, ReleaseReceiver
  <2>4. QED  BY <2>1, <2>2, <2>3, EventControl
<1>2. CASE SdkDisconnected \/ SdkAbort
  <2>1. Callback([Arrived EXCEPT !.kind = "DISCONNECTED"], "free")
    BY <1>2 DEF SdkDisconnected, SdkAbort, Abort
  <2>2. Slotless([Arrived EXCEPT !.kind = "DISCONNECTED"])
    BY DEF Slotless, Arrived, NoNotice
  <2>3. worker.pc \in {"free", "abort"} /\ receiver' = IdleReceiver
    BY <1>2 DEF SdkDisconnected, SdkAbort, Abort, Alive, ReleaseReceiver
  <2>4. QED  BY <2>1, <2>2, <2>3, EventControl
<1>3. CASE SdkError \/ SdkStartError
  <2>1. \E then : Callback([Arrived EXCEPT !.kind = "ERROR", !.error = "SDK"], then)
    BY <1>3 DEF SdkError, SdkStartError
  <2>2. Slotless([Arrived EXCEPT !.kind = "ERROR", !.error = "SDK"])
    BY DEF Slotless, Arrived, NoNotice
  <2>3. worker.pc \in {"free", "reading"} /\ receiver' = receiver
    BY <1>3 DEF SdkError, SdkStartError, Alive
  <2>4. QED  BY <2>1, <2>2, <2>3, EventControl
<1>4. CASE SdkSuback
  <2>1. PICK o \in outbox : \E codes \in [DOMAIN o.topics -> SubackCodes] \cup {<< >>} :
           Callback([Arrived EXCEPT !.kind = "SUBACK", !.id = o.id, !.codes = codes], "free")
    BY <1>4 DEF SdkSuback
  <2>2. PICK codes :
           Callback([Arrived EXCEPT !.kind = "SUBACK", !.id = o.id, !.codes = codes], "free")
    BY <2>1
  <2>3. Slotless([Arrived EXCEPT !.kind = "SUBACK", !.id = o.id, !.codes = codes])
    BY DEF Slotless, Arrived, NoNotice
  <2>4. worker.pc = "free" /\ receiver' = receiver
    BY <1>4 DEF SdkSuback, Alive
  <2>5. QED  BY <2>2, <2>3, <2>4, EventControl
<1>5. CASE SdkUnsuback \/ SdkPuback
  <2>1. PICK k \in {"UNSUBSCRIBED", "PUBACK"} : \E o \in outbox :
           Callback([Arrived EXCEPT !.kind = k, !.id = o.id], "free")
    BY <1>5 DEF SdkUnsuback, SdkPuback
  <2>2. PICK o \in outbox : Callback([Arrived EXCEPT !.kind = k, !.id = o.id], "free")
    BY <2>1
  <2>3. Slotless([Arrived EXCEPT !.kind = k, !.id = o.id])
    BY DEF Slotless, Arrived, NoNotice
  <2>4. worker.pc = "free" /\ receiver' = receiver
    BY <1>5 DEF SdkUnsuback, SdkPuback, Alive
  <2>5. QED  BY <2>2, <2>3, <2>4, EventControl, SMTT(40)
<1>6. CASE SdkExpired
  <2>1. PICK o \in outbox :
           Callback([Arrived EXCEPT !.kind = "DELETED", !.id = o.id, !.error = "EXPIRED"], "free")
    BY <1>6 DEF SdkExpired
  <2>2. Slotless([Arrived EXCEPT !.kind = "DELETED", !.id = o.id, !.error = "EXPIRED"])
    BY DEF Slotless, Arrived, NoNotice
  <2>3. worker.pc = "free" /\ receiver' = receiver
    BY <1>6 DEF SdkExpired, Alive
  <2>4. QED  BY <2>1, <2>2, <2>3, EventControl
<1>7. CASE SdkPublish
  <2>1. PICK w : Fragment(w)
    BY <1>7 DEF SdkPublish
  <2>2. worker.pc = "free"
    BY <1>7 DEF SdkPublish, Alive
  <2>3. QED  BY <2>1, <2>2, FragmentControl
<1>8. QED  BY <1>1, <1>2, <1>3, <1>4, <1>5, <1>6, <1>7 DEF SdkEvent

\* The steps inside a callback.
LEMMA CallbackSteps ==
    ASSUME TypeOK, ControlInv, SdkStep
    PROVE  CallbackControl'
<1>1. CASE SdkAbort
  BY <1>1, CallbackEvents
<1>2. CASE SdkExit
  BY <1>2 DEF SdkExit, Alive, sharedVars, ControlInv, CallbackControl
<1>3. CASE SdkNextFragment
  <2>1. PICK w : Fragment(w)
    BY <1>3 DEF SdkNextFragment
  <2>2. QED  BY <1>3, <2>1, FragmentControl DEF SdkNextFragment
<1>4. CASE SdkReadTimeout
  BY <1>4, RestControl DEF SdkReadTimeout
<1>5. CASE AllocFails
  <2>1. receiver'.slot = NoSlot
    BY <1>5 DEF AllocFails, TypeOK, TypeRecords, Receiver
  <2>2. QED  BY <1>5, <2>1, AfterFragmentControl
             DEF AllocFails, CallbackControl, WorkerIdle, NoNotice
<1>6. CASE Allocated
  <2>1. receiver'.buffer
    BY <1>6 DEF Allocated, TypeOK, TypeRecords, Receiver
  <2>2. worker'.pc = "receive" /\ worker'.n = worker.n
    BY <1>6 DEF Allocated, TypeOK, TypeRecords, WorkerControl
  <2>3. QED  BY <1>6, <2>1, <2>2 DEF Allocated, ControlInv, CallbackControl
<1>7. CASE ReceiveMore
  <2>1. receiver'.buffer = receiver.buffer /\ receiver'.slot = receiver.slot
    BY <1>7 DEF ReceiveMore, TypeOK, TypeRecords, Receiver
  <2>2. QED  BY <1>7, <2>1, AfterFragmentControl
             DEF ReceiveMore, ControlInv, CallbackControl, WorkerIdle, NoNotice
<1>8. CASE ReceiveRejected
  <2> DEFINE n == [worker.n EXCEPT !.kind = "ERROR", !.error = "FRAGMENT"]
  <2>1. worker.n.slot = NoSlot /\ worker.n \in Notice
    BY <1>8 DEF ReceiveRejected, ControlInv, CallbackControl, TypeOK, TypeRecords, WorkerControl
  <2>2. Paired(n) /\ n.slot = NoSlot
    BY <2>1 DEF Paired, Notice
  <2>3. worker'.pc = "post" /\ worker'.n = n
    BY <1>8, CallbackPost DEF ReceiveRejected
  <2>4. receiver' = IdleReceiver
    BY <1>8 DEF ReceiveRejected, ReleaseReceiver
  <2>5. QED  BY <2>2, <2>3, <2>4 DEF CallbackControl, Paired, IdleReceiver
<1>9. CASE ReceiveNoSlot
  BY <1>9, RestControl DEF ReceiveNoSlot
<1>10. CASE ReceiveComplete
  <2> DEFINE slot == IF receiver.slot # NoSlot THEN receiver.slot ELSE Head(freeSlots)
  <2>0. slot \in Slots
    BY <1>10, CompletedSlot
  <2>1. Callback([worker.n EXCEPT !.kind = "MESSAGE", !.slot = slot], "free")
    BY <1>10 DEF ReceiveComplete
  <2> HIDE DEF slot
  <2> DEFINE n == [worker.n EXCEPT !.kind = "MESSAGE", !.slot = slot]
  <2>2. n.slot = slot /\ n.kind = "MESSAGE"
    BY DEF TypeOK, TypeRecords, WorkerControl, Notice
  <2>3. slot # NoSlot
    BY <2>0 DEF Slots, NoSlot
  <2>4. worker'.pc = "post" /\ worker'.n = n
    BY <2>1, CallbackPost
  <2>5. receiver' = IdleReceiver
    BY <1>10 DEF ReceiveComplete, HandedOver
  <2>6. QED  BY <2>2, <2>3, <2>4, <2>5 DEF CallbackControl, IdleReceiver
<1>11. CASE Posted \/ Dropped
  BY <1>11, RestControl, ReturnedControl DEF Posted, Dropped
<1>12. CASE PostFull
  <2>1. worker'.pc = "drop" /\ worker'.n = worker.n /\ UNCHANGED receiver
    BY <1>12 DEF PostFull, TypeOK, TypeRecords, WorkerControl
  <2>2. QED  BY <1>12, <2>1 DEF PostFull, ControlInv, CallbackControl
<1>13. QED  BY <1>1, <1>2, <1>3, <1>4, <1>5, <1>6, <1>7, <1>8, <1>9, <1>10, <1>11, <1>12
            DEF SdkStep

\* The owner touches the receiver only in drain, when the worker is gone.
LEMMA CallbackControlStep ==
    ASSUME TypeOK, ControlInv, QuietWhenStopped, [Next]_vars
    PROVE  CallbackControl'
<1>1. CASE SdkEvent \/ SdkStep
  BY <1>1, CallbackEvents, CallbackSteps
<1>2. CASE Application \/ Stopping \/ Poll
  <2>1. UNCHANGED worker
    BY <1>2, OwnerActs
  <2>2. receiver' \in {receiver, IdleReceiver}
    <3>1. CASE Application
      BY <3>1, RequestSteps DEF Application, Create, Start, Stop, Enqueue, Drain, sharedVars
    <3>2. CASE Stopping
      BY <3>2 DEF Stopping, StopNotStarted, StopCall, StopRefused, StopJoined, Stopped, Drain
    <3>3. CASE Poll
      BY <3>3, RequestSteps DEF Poll, PollBegin, PollEmpty, PollLate, PollConnected, PollSuback,
         PollUnsubscribed, PollDisconnected, PollMessage, ReleaseMessage, PollError,
         PollCompletion, Handles, Taken
    <3>4. QED  BY <1>2, <3>1, <3>2, <3>3
  <2>3. QED  BY <2>1, <2>2 DEF ControlInv, CallbackControl, IdleReceiver
<1>3. CASE DeadlinePasses \/ UNCHANGED vars
  BY <1>3 DEF DeadlinePasses, vars, ControlInv, CallbackControl
<1>4. QED  BY <1>1, <1>2, <1>3 DEF Next

\* The error reported from inside an API call is a paired notice, or is lost.
LEMMA TransportErrorPaired ==
    ASSUME TypeOK, PostTransportError
    PROVE  \/ UNCHANGED notices
           \/ \E n \in Notice : Paired(n) /\ n.slot = NoSlot /\ notices' = Append(notices, n)
<1> DEFINE n == [NoNotice EXCEPT !.kind = "ERROR", !.error = "SDK", !.late = deadlineHit]
<1>1. n \in Notice
  BY ConstantTypes DEF Notice, Kinds, Errors, TypeOK, TypeFlags
<1>2. Paired(n) /\ n.slot = NoSlot
  BY DEF Paired, NoNotice
<1>3. notices' = Append(notices, n) \/ UNCHANGED notices
  BY DEF PostTransportError
<1>4. QED  BY <1>1, <1>2, <1>3

\* All that a call other than drain and poll does to the notice queue.
LEMMA OwnerNotices ==
    ASSUME TypeOK, \/ Stop \/ StopCall \/ StopRefused \/ Enqueue
                   \/ Subscribe \/ Unsubscribe \/ Resubscribe
    PROVE  \/ UNCHANGED notices
           \/ notices' = Restarted(notices)
           \/ \E n \in Notice : Paired(n) /\ n.slot = NoSlot /\ notices' = Append(notices, n)
<1>1. CASE Stop \/ Enqueue \/ StopRefused
  BY <1>1 DEF Stop, Enqueue, StopRefused, sharedVars
<1>2. CASE StopCall
  BY <1>2, TransportErrorPaired DEF StopCall
<1>3. CASE Subscribe \/ Unsubscribe \/ Resubscribe
  <2>1. \/ UNCHANGED notices
        \/ notices' = Restarted(notices)
        \/ PostTransportError
    BY <1>3 DEF Subscribe, Unsubscribe, Resubscribe, SubmitSubscriptions, RequestSent,
       RequestRefused, Restarted
  <2>2. QED  BY <2>1, TransportErrorPaired
<1>4. QED  BY <1>1, <1>2, <1>3

\* Notices in the queue stay paired.
LEMMA NoticeControlStep ==
    ASSUME TypeOK, ControlInv, [Next]_vars
    PROVE  NoticeControl'
<1>0. /\ notices \in Seq(Notice) /\ \A i \in DOMAIN notices : Paired(notices[i])
      /\ worker.n \in Notice /\ Paired(worker.n)
  BY DEF TypeOK, TypeQueues, TypeRecords, WorkerControl, ControlInv, CallbackControl,
         NoticeControl, Paired
<1>1. CASE UNCHANGED notices
  BY <1>1 DEF ControlInv, NoticeControl
<1>2. CASE notices' = << >>
  BY <1>2 DEF NoticeControl
<1>3. CASE notices # << >> /\ notices' = Tail(notices)
  BY <1>0, <1>3, PairedQueue DEF NoticeControl, Paired
<1>4. CASE \E n \in Notice : Paired(n) /\ notices' = Append(notices, n)
  BY <1>0, <1>4, PairedQueue DEF NoticeControl, Paired
<1>5. CASE notices' = Restarted(notices)
  BY <1>0, <1>5, PairedQueue DEF NoticeControl, Paired, Restarted
<1>6. CASE Application \/ Stopping \/ Resubscribe
  <2>1. CASE Create \/ Start \/ StopNotStarted \/ StopJoined
    BY <1>2, <2>1 DEF Create, Start, StopNotStarted, StopJoined, Stopped, Drain
  <2>2. CASE \/ Stop \/ StopCall \/ StopRefused \/ Enqueue
             \/ Subscribe \/ Unsubscribe \/ Resubscribe
    BY <1>1, <1>4, <1>5, <2>2, OwnerNotices
  <2>3. QED  BY <1>6, <2>1, <2>2 DEF Application, Stopping
<1>7. CASE Poll /\ ~Resubscribe
  BY <1>1, <1>3, <1>7, SMTT(40) DEF Poll, PollBegin, PollEmpty, PollLate, PollConnected, PollSuback,
     PollUnsubscribed, PollDisconnected, PollMessage, ReleaseMessage, PollError,
     PollCompletion, Handles, Taken, sharedVars
<1>8. CASE SdkEvent
  BY <1>1, <1>8 DEF SdkEvent, SdkConnected, SdkDisconnected, SdkError, SdkStartError,
     SdkSuback, SdkUnsuback, SdkPuback, SdkExpired, SdkPublish, Abort, Fragment, sharedVars
<1>9. CASE Posted
  BY <1>0, <1>4, <1>9 DEF Posted
<1>10. CASE SdkStep /\ ~Posted
  BY <1>1, <1>10 DEF SdkStep, SdkAbort, SdkExit, SdkNextFragment, SdkReadTimeout, AllocFails,
     Allocated, ReceiveMore, ReceiveRejected, ReceiveNoSlot, ReceiveComplete, PostFull,
     Dropped, Abort, Fragment, sharedVars
<1>11. CASE DeadlinePasses \/ UNCHANGED vars
  BY <1>1, <1>11 DEF DeadlinePasses, vars, sharedVars
<1>12. QED  BY <1>6, <1>7, <1>8, <1>9, <1>10, <1>11 DEF Next

\* Control is inductive.
LEMMA ControlStep ==
    ASSUME TypeOK, ControlInv, QuietWhenStopped, [Next]_vars
    PROVE  ControlInv' /\ QuietWhenStopped'
BY SessionControlStep, CallbackControlStep, NoticeControlStep, OwnerSlotStep, PendingFitsStep,
   QuietStep DEF ControlInv

-----------------------------------------------------------------------------
(***************************************************************************)
(* Slots.  The free queue and the notices are seen as sets of slots, so    *)
(* that every action moves at most one slot from one holder to another.    *)
(***************************************************************************)
SlotInv == SlotHasOneOwner /\ NoSlotLost /\ MessageHasBuffer

TokensIn(q)  == {s \in Slots : \E i \in DOMAIN q : q[i] = s}
SlotsIn(q)   == {s \in Slots : \E i \in DOMAIN q : q[i].slot = s}
Distinct(q)  == \A i, j \in DOMAIN q : q[i].slot = q[j].slot /\ q[i].slot # NoSlot => i = j

\* F free, N in notices, and the slots of the receiver, the worker and the
\* owner; m the table of messages, lost whether slots may be missing.
Shared(F, N, r, w, o, m, lost) ==
    \A s \in Slots : /\ s \in F => r # s /\ w # s /\ s \notin N /\ o # s
                     /\ r = s => w # s /\ s \notin N /\ o # s
                     /\ s \in N => w # s /\ o # s
                     /\ w = s => o # s
                     /\ s \in F \/ r = s \/ w = s \/ s \in N \/ o = s \/ lost
                     /\ w = s \/ s \in N \/ o = s => m[s]
                     /\ s \in F \/ r = s => ~m[s]

SlotsHeld ==
    /\ IsInjective(freeSlots) /\ Distinct(notices)
    /\ Shared(TokensIn(freeSlots), SlotsIn(notices), receiver.slot, worker.n.slot, owner.slot,
              messages, faulted)

\* The slot properties are one statement about who holds which slot.
LEMMA SlotsShared == SlotInv <=> SlotsHeld
<1>1. \A s \in Slots : InFree(s) <=> s \in TokensIn(freeSlots)
  BY DEF InFree, TokensIn
<1>2. \A s \in Slots : InNotices(s) <=> s \in SlotsIn(notices)
  BY DEF InNotices, SlotsIn
<1> HIDE DEF InFree, InNotices, TokensIn, SlotsIn
<1>3. SlotHasOneOwner <=>
         /\ IsInjective(freeSlots) /\ Distinct(notices)
         /\ \A s \in Slots :
              /\ InFree(s) => receiver.slot # s /\ ~Carries(s)
              /\ receiver.slot = s => ~Carries(s)
              /\ InNotices(s) => worker.n.slot # s /\ owner.slot # s
              /\ worker.n.slot = s => owner.slot # s
  BY DEF SlotHasOneOwner, Distinct
<1>4. QED  BY <1>1, <1>2, <1>3 DEF SlotInv, NoSlotLost, MessageHasBuffer, SlotsHeld, Shared,
   Carries

\* The same in the next state.
LEMMA SlotsSharedNext == SlotInv' <=> SlotsHeld'
BY SlotsShared, PTL

\* A queue of distinct slots that misses one is not full: a token that comes
\* back always finds room.
LEMMA RoomForToken ==
    ASSUME NEW q \in Seq(Slots), IsInjective(q), NEW s \in Slots, s \notin TokensIn(q)
    PROVE  Len(q) < MessageSlots
<1>1. MessageSlots \in Nat /\ Len(q) \in Nat /\ MessageSlots > 0
  BY SlotsAssumption
<1>2. IsFiniteSet(Slots) /\ Cardinality(Slots) = MessageSlots
  BY <1>1, FS_Interval DEF Slots
<1>3. IsFiniteSet(Slots \ {s}) /\ Cardinality(Slots \ {s}) = MessageSlots - 1
  BY <1>2, FS_RemoveElement
<1>4. IsFiniteSet(1 .. Len(q)) /\ Cardinality(1 .. Len(q)) = Len(q)
  BY <1>1, FS_Interval, SMTT(40)
<1>5. q \in [1 .. Len(q) -> Slots \ {s}]
  BY DEF TokensIn
<1>6. SUFFICES ASSUME Len(q) >= MessageSlots PROVE FALSE
  BY <1>1
<1>7. Cardinality(Slots \ {s}) < Cardinality(1 .. Len(q))
  BY <1>1, <1>3, <1>4, <1>6
<1>8. \E x, y \in 1 .. Len(q) : x # y /\ q[x] = q[y]
  BY <1>3, <1>4, <1>5, <1>7, FS_PigeonHole
<1>9. QED  BY <1>5, <1>8 DEF IsInjective

\* A token sent to the free queue arrives there.
LEMMA TokenArrives ==
    ASSUME TypeOK, IsInjective(freeSlots), NEW s \in Slots, s \notin TokensIn(freeSlots)
    PROVE  /\ IsInjective(TokenSent(s))
           /\ TokensIn(TokenSent(s)) = TokensIn(freeSlots) \cup {s}
<1>1. freeSlots \in Seq(Slots)
  BY DEF TypeOK, TypeQueues
<1>2. s # NoSlot
  BY DEF Slots, NoSlot
<1>3. TokenSent(s) = Append(freeSlots, s)
  BY <1>1, <1>2, RoomForToken DEF TokenSent
<1> DEFINE q == Append(freeSlots, s)
<1>4. /\ DOMAIN q = 1 .. Len(freeSlots) + 1 /\ DOMAIN freeSlots = 1 .. Len(freeSlots)
      /\ q[Len(freeSlots) + 1] = s
      /\ \A i \in 1 .. Len(freeSlots) : q[i] = freeSlots[i]
      /\ Len(freeSlots) \in Nat
  BY <1>1
<1> HIDE DEF q
<1>5. \A i \in DOMAIN freeSlots : freeSlots[i] # s
  BY DEF TokensIn
<1>6. IsInjective(q)
  BY <1>4, <1>5 DEF IsInjective
<1>7. TokensIn(q) = TokensIn(freeSlots) \cup {s}
  BY <1>4 DEF TokensIn
<1>8. QED  BY <1>3, <1>6, <1>7 DEF q

\* Taking the first token takes it out of the queue.
LEMMA TokenTaken ==
    ASSUME TypeOK, IsInjective(freeSlots), freeSlots # << >>
    PROVE  /\ IsInjective(Tail(freeSlots))
           /\ Head(freeSlots) \in TokensIn(freeSlots)
           /\ TokensIn(Tail(freeSlots)) = TokensIn(freeSlots) \ {Head(freeSlots)}
<1> DEFINE q == Tail(freeSlots)
<1>1. freeSlots \in Seq(Slots)
  BY DEF TypeOK, TypeQueues
<1>2. /\ DOMAIN q = 1 .. Len(freeSlots) - 1 /\ DOMAIN freeSlots = 1 .. Len(freeSlots)
      /\ Len(freeSlots) \in Nat /\ Len(freeSlots) > 0
      /\ \A i \in 1 .. Len(freeSlots) - 1 : q[i] = freeSlots[i + 1]
      /\ Head(freeSlots) = freeSlots[1] /\ freeSlots[1] \in Slots
  BY <1>1
<1> HIDE DEF q
<1>3. IsInjective(q)
  BY <1>2 DEF IsInjective
<1>4. Head(freeSlots) \in TokensIn(freeSlots)
  BY <1>2 DEF TokensIn
<1>5. ASSUME NEW s \in TokensIn(q)
      PROVE  s \in TokensIn(freeSlots) \ {Head(freeSlots)}
  <2>1. PICK i \in DOMAIN q : q[i] = s
    BY <1>5 DEF TokensIn
  <2>2. i + 1 \in DOMAIN freeSlots /\ 1 \in DOMAIN freeSlots /\ freeSlots[i + 1] = s /\ i + 1 # 1
    BY <1>2, <2>1
  <2>3. s # freeSlots[1]
    BY <2>2 DEF IsInjective
  <2>4. QED  BY <1>2, <1>5, <2>2, <2>3 DEF TokensIn
<1>6. ASSUME NEW s \in TokensIn(freeSlots) \ {Head(freeSlots)}
      PROVE  s \in TokensIn(q)
  <2>1. PICK i \in DOMAIN freeSlots : freeSlots[i] = s
    BY <1>6 DEF TokensIn
  <2>2. i - 1 \in DOMAIN q /\ q[i - 1] = s
    BY <1>2, <1>6, <2>1
  <2>3. QED  BY <1>6, <2>2 DEF TokensIn
<1>7. QED  BY <1>3, <1>4, <1>5, <1>6 DEF q

\* A notice that is posted brings its slot, if it has one.
LEMMA SlotPosted ==
    ASSUME NEW q \in Seq(Notice), Distinct(q), NEW n \in Notice, n.slot \notin SlotsIn(q)
    PROVE  /\ Distinct(Append(q, n))
           /\ SlotsIn(Append(q, n)) = SlotsIn(q) \cup ({n.slot} \cap Slots)
<1> DEFINE p == Append(q, n)
<1>1. /\ DOMAIN p = 1 .. Len(q) + 1 /\ DOMAIN q = 1 .. Len(q) /\ Len(q) \in Nat
      /\ p[Len(q) + 1] = n
      /\ \A i \in 1 .. Len(q) : p[i] = q[i]
  OBVIOUS
<1>2. ASSUME NEW i \in DOMAIN q PROVE q[i].slot \in Slots \cup {NoSlot}
  <2>1. q[i] \in Notice
    BY <1>2
  <2>2. QED  BY <2>1 DEF Notice
<1> HIDE DEF p
<1>3. \A i \in DOMAIN q : q[i].slot # NoSlot => q[i].slot # n.slot
  BY <1>2 DEF SlotsIn
<1>4. Distinct(p)
  BY <1>1, <1>3 DEF Distinct
<1>5. SlotsIn(p) = SlotsIn(q) \cup ({n.slot} \cap Slots)
  BY <1>1 DEF SlotsIn
<1>6. QED  BY <1>4, <1>5 DEF p

\* The notice that is taken takes its slot out of the queue.
LEMMA SlotTaken ==
    ASSUME NEW q \in Seq(Notice), Distinct(q), q # << >>
    PROVE  /\ Distinct(Tail(q))
           /\ Head(q).slot \in Slots => Head(q).slot \in SlotsIn(q)
           /\ SlotsIn(Tail(q)) = SlotsIn(q) \ {Head(q).slot}
<1> DEFINE p == Tail(q)
<1>1. /\ DOMAIN p = 1 .. Len(q) - 1 /\ DOMAIN q = 1 .. Len(q)
      /\ Len(q) \in Nat /\ Len(q) > 0
      /\ \A i \in 1 .. Len(q) - 1 : p[i] = q[i + 1]
      /\ Head(q) = q[1]
  OBVIOUS
<1>2. NoSlot \notin Slots
  BY DEF Slots, NoSlot
<1> HIDE DEF p
<1>3. Distinct(p)
  BY <1>1, SMTT(40) DEF Distinct
<1>4. Head(q).slot \in Slots => Head(q).slot \in SlotsIn(q)
  BY <1>1 DEF SlotsIn
<1>5. ASSUME NEW s \in SlotsIn(p)
      PROVE  s \in SlotsIn(q) \ {Head(q).slot}
  <2>1. PICK i \in DOMAIN p : p[i].slot = s
    BY <1>5 DEF SlotsIn
  <2>2. i + 1 \in DOMAIN q /\ 1 \in DOMAIN q /\ q[i + 1].slot = s /\ i + 1 # 1
    BY <1>1, <2>1
  <2>3. s # NoSlot /\ s \in Slots
    BY <1>2, <1>5 DEF SlotsIn
  <2>4. s # q[1].slot
    BY <2>2, <2>3 DEF Distinct
  <2>5. QED  BY <1>1, <2>2, <2>3, <2>4 DEF SlotsIn
<1>6. ASSUME NEW s \in SlotsIn(q) \ {Head(q).slot}
      PROVE  s \in SlotsIn(p)
  <2>1. PICK i \in DOMAIN q : q[i].slot = s
    BY <1>6 DEF SlotsIn
  <2>2. i - 1 \in DOMAIN p /\ p[i - 1].slot = s
    BY <1>1, <1>6, <2>1
  <2>3. QED  BY <1>6, <2>2 DEF SlotsIn
<1>7. QED  BY <1>3, <1>4, <1>5, <1>6 DEF p

\* Nothing is late for a deadline that has just been set; slots stay put.
LEMMA SlotsOfRestarted ==
    ASSUME NEW q \in Seq(Notice)
    PROVE  SlotsIn(Restarted(q)) = SlotsIn(q) /\ (Distinct(q) => Distinct(Restarted(q)))
<1> DEFINE p == Restarted(q)
<1>1. DOMAIN p = DOMAIN q
  BY DEF Restarted
<1>2. ASSUME NEW i \in DOMAIN q
      PROVE  p[i].slot = q[i].slot
  <2>1. q[i] \in Notice
    BY <1>2
  <2>2. [q[i] EXCEPT !.late = FALSE].slot = q[i].slot
    BY <2>1 DEF Notice
  <2>3. QED  BY <2>2 DEF Restarted
<1> HIDE DEF p
<1>3. SlotsIn(p) = SlotsIn(q)
  BY <1>1, <1>2 DEF SlotsIn
<1>4. Distinct(q) => Distinct(p)
  BY <1>1, <1>2 DEF Distinct
<1>5. QED  BY <1>3, <1>4 DEF p

\* Nobody moves a slot.
LEMMA SlotsUnmoved ==
    ASSUME SlotInv, UNCHANGED <<freeSlots, messages>>,
           SlotsIn(notices') = SlotsIn(notices), Distinct(notices'),
           receiver'.slot = receiver.slot, worker'.n.slot = worker.n.slot,
           owner'.slot = owner.slot, faulted => faulted'
    PROVE  SlotInv'
<1>1. Shared(TokensIn(freeSlots), SlotsIn(notices), receiver.slot, worker.n.slot, owner.slot,
             messages, faulted)
  BY SlotsShared DEF SlotsHeld
<1>2. Shared(TokensIn(freeSlots'), SlotsIn(notices'), receiver'.slot, worker'.n.slot,
             owner'.slot, messages', faulted')
  BY <1>1 DEF Shared
<1>3. QED  BY <1>2, SlotsShared, SlotsSharedNext DEF SlotsHeld

\* drain gives every slot back to the free queue.
LEMMA SlotsDrained ==
    ASSUME Drain, worker'.n.slot = NoSlot, owner'.slot = NoSlot
    PROVE  SlotInv'
<1>1. IsInjective(AllSlots) /\ TokensIn(AllSlots) = Slots
  BY SlotsAssumption DEF AllSlots, TokensIn, Slots, IsInjective
<1>2. SlotsIn(<< >>) = {} /\ Distinct(<< >>)
  BY DEF SlotsIn, Distinct
<1>3. NoSlot \notin Slots
  BY DEF Slots, NoSlot
<1>4. receiver'.slot = NoSlot
  BY DEF Drain, IdleReceiver
<1>5. Shared(TokensIn(freeSlots'), SlotsIn(notices'), receiver'.slot, worker'.n.slot,
             owner'.slot, messages', faulted')
  BY <1>1, <1>2, <1>3, <1>4 DEF Shared, Drain
<1>6. QED  BY <1>1, <1>2, <1>5, SlotsSharedNext DEF Drain, SlotsHeld

\* The receiver gives its slot back.
LEMMA SlotFromReceiver ==
    ASSUME TypeOK, SlotInv, UNCHANGED <<notices, messages, faulted>>,
           freeSlots' = TokenSent(receiver.slot), receiver'.slot = NoSlot,
           worker'.n.slot = worker.n.slot, owner'.slot = owner.slot
    PROVE  SlotInv'
<1>1. /\ IsInjective(freeSlots) /\ Distinct(notices)
      /\ Shared(TokensIn(freeSlots), SlotsIn(notices), receiver.slot, worker.n.slot, owner.slot,
                messages, faulted)
  BY SlotsShared DEF SlotsHeld
<1>2. NoSlot \notin Slots /\ receiver.slot \in Slots \cup {NoSlot}
  BY DEF Slots, NoSlot, TypeOK, TypeRecords, Receiver
<1>3. CASE receiver.slot = NoSlot
  BY <1>1, <1>3, SlotsUnmoved DEF TokenSent
<1>4. CASE receiver.slot \in Slots
  <2>1. receiver.slot \notin TokensIn(freeSlots)
    BY <1>1, <1>4 DEF Shared
  <2>2. IsInjective(freeSlots') /\ TokensIn(freeSlots') = TokensIn(freeSlots) \cup {receiver.slot}
    BY <1>1, <1>4, <2>1, TokenArrives
  <2>3. Shared(TokensIn(freeSlots'), SlotsIn(notices'), receiver'.slot, worker'.n.slot,
               owner'.slot, messages', faulted')
    BY <1>1, <1>2, <1>4, <2>2 DEF Shared
  <2>4. QED  BY <1>1, <2>2, <2>3, SlotsSharedNext DEF SlotsHeld
<1>5. QED  BY <1>2, <1>3, <1>4

\* The owner, or the worker that loses a notice, frees a message and its slot.
LEMMA SlotFromMessage ==
    ASSUME TypeOK, SlotInv, UNCHANGED <<notices, faulted>>, NEW s \in Slots \cup {NoSlot},
           freeSlots' = TokenSent(s),
           messages' = [t \in Slots |-> messages[t] /\ t # s],
           receiver'.slot = receiver.slot,
           \/ worker.n.slot = s /\ worker'.n.slot = NoSlot /\ owner'.slot = owner.slot
           \/ owner.slot = s /\ owner'.slot = NoSlot /\ worker'.n.slot = worker.n.slot
    PROVE  SlotInv'
<1>1. /\ IsInjective(freeSlots) /\ Distinct(notices)
      /\ Shared(TokensIn(freeSlots), SlotsIn(notices), receiver.slot, worker.n.slot, owner.slot,
                messages, faulted)
  BY SlotsShared DEF SlotsHeld
<1>2. NoSlot \notin Slots
  BY DEF Slots, NoSlot
<1>3. CASE s = NoSlot
  <2>1. messages' = messages
    BY <1>2, <1>3 DEF TypeOK, TypeRecords
  <2>2. QED  BY <1>1, <1>3, <2>1, SlotsUnmoved DEF TokenSent
<1>4. CASE s \in Slots
  <2>1. s \notin TokensIn(freeSlots)
    BY <1>1, <1>4 DEF Shared
  <2>2. IsInjective(freeSlots') /\ TokensIn(freeSlots') = TokensIn(freeSlots) \cup {s}
    BY <1>1, <1>4, <2>1, TokenArrives
  <2>3. Shared(TokensIn(freeSlots'), SlotsIn(notices'), receiver'.slot, worker'.n.slot,
               owner'.slot, messages', faulted')
    BY <1>1, <1>2, <1>4, <2>2 DEF Shared
  <2>4. QED  BY <1>1, <2>2, <2>3, SlotsSharedNext DEF SlotsHeld
<1>5. QED  BY <1>3, <1>4

\* The receiver takes a free slot.
LEMMA SlotToReceiver ==
    ASSUME TypeOK, SlotInv, UNCHANGED <<notices, messages, faulted>>, freeSlots # << >>,
           receiver.slot = NoSlot, receiver'.slot = Head(freeSlots),
           freeSlots' = Tail(freeSlots),
           worker'.n.slot = worker.n.slot, owner'.slot = owner.slot
    PROVE  SlotInv'
<1>1. /\ IsInjective(freeSlots) /\ Distinct(notices)
      /\ Shared(TokensIn(freeSlots), SlotsIn(notices), receiver.slot, worker.n.slot, owner.slot,
                messages, faulted)
  BY SlotsShared DEF SlotsHeld
<1>2. /\ IsInjective(freeSlots') /\ Head(freeSlots) \in TokensIn(freeSlots)
      /\ TokensIn(freeSlots') = TokensIn(freeSlots) \ {Head(freeSlots)}
  BY <1>1, TokenTaken
<1>3. NoSlot \notin Slots
  BY DEF Slots, NoSlot
<1>4. Shared(TokensIn(freeSlots'), SlotsIn(notices'), receiver'.slot, worker'.n.slot,
             owner'.slot, messages', faulted')
  BY <1>1, <1>2, <1>3 DEF Shared
<1>5. QED  BY <1>1, <1>2, <1>4, SlotsSharedNext DEF SlotsHeld

\* A completed message takes the receiver's slot, or a free one.
LEMMA SlotToMessage ==
    ASSUME TypeOK, SlotInv, UNCHANGED <<notices, faulted>>, worker.n.slot = NoSlot,
           NEW s \in Slots, worker'.n.slot = s,
           messages' = [messages EXCEPT ![s] = TRUE],
           receiver'.slot = NoSlot, owner'.slot = owner.slot,
           \/ receiver.slot = s /\ UNCHANGED freeSlots
           \/ /\ receiver.slot = NoSlot /\ freeSlots # << >> /\ s = Head(freeSlots)
              /\ freeSlots' = Tail(freeSlots)
    PROVE  SlotInv'
<1>1. /\ IsInjective(freeSlots) /\ Distinct(notices)
      /\ Shared(TokensIn(freeSlots), SlotsIn(notices), receiver.slot, worker.n.slot, owner.slot,
                messages, faulted)
  BY SlotsShared DEF SlotsHeld
<1>2. NoSlot \notin Slots /\ messages \in [Slots -> BOOLEAN]
  BY DEF Slots, NoSlot, TypeOK, TypeRecords
<1>3. /\ messages'[s] = TRUE
      /\ \A t \in Slots : t # s => messages'[t] = messages[t]
  BY <1>2
<1>4. CASE receiver.slot = s /\ UNCHANGED freeSlots
  <2>1. Shared(TokensIn(freeSlots'), SlotsIn(notices'), receiver'.slot, worker'.n.slot,
               owner'.slot, messages', faulted')
    BY <1>1, <1>2, <1>3, <1>4 DEF Shared
  <2>2. QED  BY <1>1, <1>4, <2>1, SlotsSharedNext DEF SlotsHeld
<1>5. CASE /\ receiver.slot = NoSlot /\ freeSlots # << >> /\ s = Head(freeSlots)
           /\ freeSlots' = Tail(freeSlots)
  <2>1. /\ IsInjective(freeSlots') /\ s \in TokensIn(freeSlots)
        /\ TokensIn(freeSlots') = TokensIn(freeSlots) \ {s}
    BY <1>1, <1>5, TokenTaken
  <2>2. Shared(TokensIn(freeSlots'), SlotsIn(notices'), receiver'.slot, worker'.n.slot,
               owner'.slot, messages', faulted')
    BY <1>1, <1>2, <1>3, <1>5, <2>1 DEF Shared
  <2>3. QED  BY <1>1, <2>1, <2>2, SlotsSharedNext DEF SlotsHeld
<1>6. QED  BY <1>4, <1>5

\* A message is posted.
LEMMA SlotToNotices ==
    ASSUME TypeOK, SlotInv, UNCHANGED <<freeSlots, messages, faulted>>,
           notices' = Append(notices, worker.n),
           receiver'.slot = receiver.slot, worker'.n.slot = NoSlot, owner'.slot = owner.slot
    PROVE  SlotInv'
<1>1. /\ IsInjective(freeSlots) /\ Distinct(notices)
      /\ Shared(TokensIn(freeSlots), SlotsIn(notices), receiver.slot, worker.n.slot, owner.slot,
                messages, faulted)
  BY SlotsShared DEF SlotsHeld
<1>2. notices \in Seq(Notice) /\ worker.n \in Notice
  BY DEF TypeOK, TypeQueues, TypeRecords, WorkerControl
<1>3. NoSlot \notin Slots /\ worker.n.slot \in Slots \cup {NoSlot}
  BY <1>2 DEF Slots, NoSlot, Notice
<1>4. worker.n.slot \notin SlotsIn(notices)
  BY <1>1, <1>3 DEF Shared, SlotsIn
<1>5. /\ Distinct(notices')
      /\ SlotsIn(notices') = SlotsIn(notices) \cup ({worker.n.slot} \cap Slots)
  BY <1>1, <1>2, <1>4, SlotPosted
<1>6. Shared(TokensIn(freeSlots'), SlotsIn(notices'), receiver'.slot, worker'.n.slot,
             owner'.slot, messages', faulted')
  BY <1>1, <1>3, <1>5 DEF Shared
<1>7. QED  BY <1>1, <1>5, <1>6, SlotsSharedNext DEF SlotsHeld

\* poll takes a notice, and the message with it.
LEMMA SlotToOwner ==
    ASSUME TypeOK, SlotInv, UNCHANGED <<freeSlots, messages, faulted>>,
           notices # << >>, notices' = Tail(notices),
           owner.slot = NoSlot, owner'.slot = Notified.slot,
           receiver'.slot = receiver.slot, worker'.n.slot = worker.n.slot
    PROVE  SlotInv'
<1>1. /\ IsInjective(freeSlots) /\ Distinct(notices)
      /\ Shared(TokensIn(freeSlots), SlotsIn(notices), receiver.slot, worker.n.slot, owner.slot,
                messages, faulted)
  BY SlotsShared DEF SlotsHeld
<1>2. NoSlot \notin Slots /\ notices \in Seq(Notice)
  BY DEF Slots, NoSlot, TypeOK, TypeQueues
<1>3. /\ Distinct(notices')
      /\ owner'.slot \in Slots => owner'.slot \in SlotsIn(notices)
      /\ SlotsIn(notices') = SlotsIn(notices) \ {owner'.slot}
  BY <1>1, <1>2, SlotTaken DEF Notified
<1>4. Shared(TokensIn(freeSlots'), SlotsIn(notices'), receiver'.slot, worker'.n.slot,
             owner'.slot, messages', faulted')
  BY <1>1, <1>2, <1>3 DEF Shared
<1>5. QED  BY <1>1, <1>3, <1>4, SlotsSharedNext DEF SlotsHeld

\* The owner's calls: a slot moves only in drain.
LEMMA SlotsOwner ==
    ASSUME TypeOK, ControlInv, QuietWhenStopped, SlotInv,
           Application \/ Stopping \/ Resubscribe
    PROVE  SlotInv'
<1>0. worker.pc = "free" => worker.n.slot = NoSlot
  BY DEF ControlInv, CallbackControl, WorkerIdle, NoNotice
<1>1. CASE Create \/ Start
  <2>1. Drain /\ UNCHANGED worker /\ owner'.slot = NoSlot
    BY <1>1 DEF Create, Start, OwnerAt, ControlInv, OwnerSlotControl
  <2>2. ~started
    BY <1>1 DEF Create, Start, ControlInv, SessionControl
  <2>3. worker'.n.slot = NoSlot
    BY <2>1, <2>2 DEF QuietWhenStopped, WorkerIdle, NoNotice
  <2>4. QED  BY <2>1, <2>3, SlotsDrained
<1>2. CASE StopNotStarted \/ StopJoined
  <2>1. Drain /\ UNCHANGED worker /\ owner'.slot = NoSlot
    BY <1>2 DEF StopNotStarted, StopJoined, Stopped, OwnerAt
  <2>2. worker.pc = "free"
    BY <1>2 DEF StopNotStarted, StopJoined, ControlInv, SessionControl, QuietWhenStopped,
                WorkerIdle
  <2>3. QED  BY <1>0, <2>1, <2>2, SlotsDrained
<1>3. CASE StopRefused
  <2>1. CASE owner.slot = NoSlot
    <3>1. owner'.slot = owner.slot /\ UNCHANGED <<notices, freeSlots, messages, receiver, worker>>
      BY <1>3, <2>1 DEF StopRefused, OwnerAt, sharedVars
    <3>2. faulted => faulted'
      BY <1>3 DEF StopRefused
    <3>3. Distinct(notices)
      BY DEF SlotInv, SlotHasOneOwner, Distinct
    <3>4. QED  BY <3>1, <3>2, <3>3, SlotsUnmoved
  <2>2. CASE owner.slot # NoSlot
    <3>1. owner'.slot = NoSlot /\ UNCHANGED <<notices, freeSlots, messages, receiver, worker>>
      BY <1>3 DEF StopRefused, OwnerAt, sharedVars
    <3>2. owner.after = "fail"
      BY <1>3, <2>2 DEF StopRefused, ControlInv, OwnerSlotControl
    <3>3. faulted'
      BY <1>3, <3>2 DEF StopRefused
    <3>4. NoSlot \notin Slots
      BY DEF Slots, NoSlot
    <3>5. SlotsHeld'
      BY <3>1, <3>3, <3>4, SlotsShared DEF SlotsHeld, Shared
    <3>6. QED  BY <3>5, SlotsSharedNext
  <2>3. QED  BY <2>1, <2>2
<1>4. CASE Stop \/ StopCall \/ Enqueue \/ Subscribe \/ Unsubscribe \/ Resubscribe
  <2>1. UNCHANGED <<freeSlots, messages, receiver, worker>>
    BY <1>4, RequestSteps DEF Stop, StopCall, Enqueue, sharedVars
  <2>2. faulted' = faulted
    BY <1>4 DEF Stop, StopCall, Enqueue, Subscribe, Unsubscribe, Resubscribe,
       SubmitSubscriptions, RequestSent, RequestRefused, ownerVars
  <2>3. owner'.slot = owner.slot
    <3>1. CASE Stop \/ Enqueue \/ Subscribe \/ Unsubscribe \/ Resubscribe
      <4>1. owner.slot = NoSlot
        BY <3>1 DEF Stop, Enqueue, Subscribe, Unsubscribe, Resubscribe, ControlInv,
           OwnerSlotControl
      <4>2. QED  BY <3>1, <4>1, RequestSteps DEF Stop, Enqueue, OwnerAt, FailClosed
    <3>2. CASE StopCall
      BY <3>2 DEF StopCall, TypeOK, TypeRecords, OwnerControl
    <3>3. QED  BY <1>4, <3>1, <3>2
  <2>4. notices \in Seq(Notice) /\ Distinct(notices)
    BY DEF TypeOK, TypeQueues, SlotInv, SlotHasOneOwner, Distinct
  <2>5. SlotsIn(notices') = SlotsIn(notices) /\ Distinct(notices')
    <3>1. CASE UNCHANGED notices
      BY <2>4, <3>1
    <3>2. CASE notices' = Restarted(notices)
      BY <2>4, <3>2, SlotsOfRestarted
    <3>3. CASE \E n \in Notice : Paired(n) /\ n.slot = NoSlot /\ notices' = Append(notices, n)
      <4>1. PICK n \in Notice : n.slot = NoSlot /\ notices' = Append(notices, n)
        BY <3>3
      <4>2. NoSlot \notin Slots
        BY DEF Slots, NoSlot
      <4>3. n.slot \notin SlotsIn(notices)
        BY <4>1, <4>2 DEF SlotsIn
      <4>4. /\ Distinct(notices')
            /\ SlotsIn(notices') = SlotsIn(notices) \cup ({n.slot} \cap Slots)
        BY <2>4, <4>1, <4>3, SlotPosted
      <4>5. {n.slot} \cap Slots = {}
        BY <4>1, <4>2
      <4>6. QED  BY <4>4, <4>5
    <3>4. QED
      <4>1. \/ Stop \/ StopCall \/ StopRefused \/ Enqueue
            \/ Subscribe \/ Unsubscribe \/ Resubscribe
        BY <1>4
      <4>2. \/ UNCHANGED notices
            \/ notices' = Restarted(notices)
            \/ \E n \in Notice : Paired(n) /\ n.slot = NoSlot /\ notices' = Append(notices, n)
        BY <4>1, OwnerNotices
      <4>3. QED  BY <3>1, <3>2, <3>3, <4>2
  <2>6. QED  BY <2>1, <2>2, <2>3, <2>4, <2>5, SlotsUnmoved
<1>5. QED  BY <1>1, <1>2, <1>3, <1>4 DEF Application, Stopping

\* poll: a notice's slot goes to the owner, and from the owner to the free queue.
LEMMA SlotsPoll ==
    ASSUME TypeOK, ControlInv, SlotInv, Poll, ~Resubscribe
    PROVE  SlotInv'
<1>0. Distinct(notices)
  BY DEF SlotInv, SlotHasOneOwner, Distinct
<1>1. CASE PollBegin \/ PollEmpty
  <2>1. owner.slot = NoSlot
    BY <1>1 DEF PollBegin, PollEmpty, ControlInv, OwnerSlotControl
  <2>2. owner'.slot = NoSlot
    BY <1>1 DEF PollBegin, PollEmpty, OwnerAt, FailClosed
  <2>3. UNCHANGED <<notices, freeSlots, messages, receiver, worker, faulted>>
    BY <1>1 DEF PollBegin, PollEmpty, sharedVars, ownerVars
  <2>4. QED  BY <1>0, <2>1, <2>2, <2>3, SlotsUnmoved
<1>2. CASE ReleaseMessage
  <2>1. owner.slot \in Slots /\ messages \in [Slots -> BOOLEAN]
    BY <1>2 DEF ReleaseMessage, ControlInv, OwnerSlotControl, TypeOK, TypeRecords, OwnerControl
  <2>2. messages' = [t \in Slots |-> messages[t] /\ t # owner.slot]
    BY <1>2, <2>1 DEF ReleaseMessage
  <2>3. owner'.slot = NoSlot /\ UNCHANGED <<notices, faulted, receiver, worker>>
    BY <1>2 DEF ReleaseMessage, OwnerAt, ownerVars
  <2>4. freeSlots' = TokenSent(owner.slot)
    BY <1>2 DEF ReleaseMessage
  <2>5. QED  BY <2>1, <2>2, <2>3, <2>4, SlotFromMessage
<1>3. CASE Poll /\ ~(PollBegin \/ PollEmpty \/ ReleaseMessage \/ Resubscribe)
  <2>1. Taken /\ notices' = Tail(notices)
    BY <1>3 DEF Poll, PollLate, PollConnected, PollSuback, PollUnsubscribed, PollDisconnected,
       PollMessage, PollError, PollCompletion, Handles
  <2>2. /\ notices # << >> /\ owner.slot = NoSlot
        /\ UNCHANGED <<freeSlots, messages, faulted, receiver, worker>>
    BY <2>1 DEF Taken, ControlInv, OwnerSlotControl
  <2>3. owner'.slot = Notified.slot
    <3>1. CASE PollLate \/ PollMessage
      BY <3>1 DEF PollLate, PollMessage, FailClosed, OwnerAt
    <3>2. CASE PollConnected \/ PollSuback \/ PollUnsubscribed \/ PollDisconnected
               \/ PollError \/ PollCompletion
      <4>1. Notified.kind # "MESSAGE"
        BY <3>2 DEF PollConnected, PollSuback, PollUnsubscribed, PollDisconnected, PollError,
           PollCompletion, Handles
      <4>2. notices \in Seq(Notice)
        BY DEF TypeOK, TypeQueues
      <4>3. 1 \in DOMAIN notices /\ Notified = notices[1]
        BY <2>2, <4>2 DEF Notified
      <4>4. Notified.slot = NoSlot
        BY <4>1, <4>3 DEF ControlInv, NoticeControl
      <4>5. owner'.slot = NoSlot
        BY <3>2 DEF PollConnected, PollSuback, PollUnsubscribed, PollDisconnected, PollError,
           PollCompletion, Acknowledged, OwnerAt, FailClosed
      <4>6. QED  BY <4>4, <4>5
    <3>3. QED  BY <1>3, <3>1, <3>2 DEF Poll
  <2>4. QED  BY <2>1, <2>2, <2>3, SlotToOwner
<1>4. QED  BY <1>1, <1>2, <1>3

\* A fragment takes at most one slot, for the receiver.
LEMMA SlotsFragment ==
    ASSUME TypeOK, ControlInv, SlotInv, NEW w, Fragment(w), worker.pc \in {"free", "reading"}
    PROVE  SlotInv'
<1>1. /\ worker'.n.slot = NoSlot /\ worker.n.slot = NoSlot
      /\ UNCHANGED <<notices, messages, faulted, owner>>
  <2>1. UNCHANGED <<notices, messages, faulted, owner>>
    BY DEF Fragment, ownerVars
  <2>2. worker.n.slot = NoSlot
    BY DEF ControlInv, CallbackControl
  <2>3. QED  BY <2>1, <2>2, FragmentControl
<1>2. Distinct(notices)
  BY DEF SlotInv, SlotHasOneOwner, Distinct
<1>3. CASE UNCHANGED <<receiver, freeSlots>>
  BY <1>1, <1>2, <1>3, SlotsUnmoved
<1>4. CASE /\ ~receiver.buffer /\ freeSlots # << >> /\ freeSlots' = Tail(freeSlots)
           /\ receiver' = [receiver EXCEPT !.slot = Head(freeSlots)]
  <2>1. receiver'.slot = Head(freeSlots)
    BY <1>4 DEF TypeOK, TypeRecords, Receiver
  <2>2. receiver.slot = NoSlot
    BY <1>4 DEF ControlInv, CallbackControl
  <2>3. QED  BY <1>1, <1>4, <2>1, <2>2, SlotToReceiver
<1>5. CASE /\ ~receiver.buffer /\ UNCHANGED freeSlots
           /\ receiver' = [receiver EXCEPT !.slot = NoSlot]
  <2>1. receiver'.slot = NoSlot
    BY <1>5 DEF TypeOK, TypeRecords, Receiver
  <2>2. receiver.slot = NoSlot
    BY <1>5 DEF ControlInv, CallbackControl
  <2>3. QED  BY <1>1, <1>2, <1>5, <2>1, <2>2, SlotsUnmoved
<1>6. QED  BY <1>3, <1>4, <1>5 DEF Fragment

\* The SDK's events, up to post.
LEMMA SlotsEvent ==
    ASSUME TypeOK, ControlInv, SlotInv, SdkEvent \/ SdkAbort
    PROVE  SlotInv'
<1>0. Distinct(notices)
  BY SMTT(40) DEF SlotInv, SlotHasOneOwner, Distinct
<1>1. /\ worker.pc \in {"free", "reading", "abort"} /\ worker.n.slot = NoSlot
      /\ UNCHANGED <<faulted, owner>>
  BY DEF SdkEvent, SdkConnected, SdkDisconnected, SdkError, SdkStartError, SdkSuback,
     SdkUnsuback, SdkPuback, SdkExpired, SdkPublish, SdkAbort, Abort, Fragment, Alive,
     ownerVars, ControlInv, CallbackControl
<1>2. CASE SdkPublish
  BY <1>2, SlotsFragment DEF SdkPublish, Alive
<1>3. CASE SdkConnected \/ SdkDisconnected \/ SdkAbort
  <2>1. /\ freeSlots' = TokenSent(receiver.slot) /\ receiver' = IdleReceiver
        /\ UNCHANGED <<notices, messages>>
    BY <1>3 DEF SdkConnected, SdkDisconnected, SdkAbort, Abort, ReleaseReceiver
  <2>2. worker'.n.slot = NoSlot
    BY CallbackEvents
  <2>3. receiver'.slot = NoSlot
    BY <2>1 DEF IdleReceiver
  <2>4. QED  BY <1>1, <2>1, <2>2, <2>3, SlotFromReceiver
<1>4. CASE SdkError \/ SdkStartError \/ SdkSuback \/ SdkUnsuback \/ SdkPuback \/ SdkExpired
  <2>1. UNCHANGED <<notices, freeSlots, messages, receiver>>
    BY <1>4 DEF SdkError, SdkStartError, SdkSuback, SdkUnsuback, SdkPuback, SdkExpired,
       sharedVars
  <2>2. worker'.n.slot = NoSlot
    BY CallbackEvents
  <2>3. QED  BY <1>0, <1>1, <2>1, <2>2, SlotsUnmoved, SMTT(40)
<1>5. QED  BY <1>2, <1>3, <1>4 DEF SdkEvent

\* The steps inside a callback.
LEMMA SlotsCallback ==
    ASSUME TypeOK, ControlInv, SlotInv, SdkStep
    PROVE  SlotInv'
<1>0. Distinct(notices)
  BY DEF SlotInv, SlotHasOneOwner, Distinct
<1>1. CASE SdkAbort
  BY <1>1, SlotsEvent
<1>2. CASE SdkNextFragment
  BY <1>2, SlotsFragment DEF SdkNextFragment
<1>3. UNCHANGED <<faulted, owner>>
  BY WorkerActs
<1>4. CASE SdkExit
  BY <1>0, <1>3, <1>4, SlotsUnmoved DEF SdkExit, sharedVars
<1>5. CASE SdkReadTimeout
  <2>1. worker'.n.slot = NoSlot /\ worker.n.slot = NoSlot
    BY <1>5 DEF SdkReadTimeout, WorkerIdle, NoNotice, ControlInv, CallbackControl
  <2>2. QED  BY <1>0, <1>3, <1>5, <2>1, SlotsUnmoved DEF SdkReadTimeout, sharedVars
<1>6. CASE AllocFails
  <2>1. receiver'.slot = NoSlot
    BY <1>6 DEF AllocFails, TypeOK, TypeRecords, Receiver
  <2>2. worker'.n.slot = NoSlot /\ worker.n.slot = NoSlot
    BY <1>6, AfterFragmentControl DEF AllocFails, WorkerIdle, NoNotice, ControlInv,
       CallbackControl
  <2>3. QED  BY <1>3, <1>6, <2>1, <2>2, SlotFromReceiver DEF AllocFails
<1>7. CASE Allocated \/ ReceiveMore
  <2>1. receiver'.slot = receiver.slot
    BY <1>7 DEF Allocated, ReceiveMore, TypeOK, TypeRecords, Receiver
  <2>2. worker'.n.slot = worker.n.slot
    <3>1. CASE Allocated
      BY <3>1 DEF Allocated, TypeOK, TypeRecords, WorkerControl
    <3>2. CASE ReceiveMore
      BY <3>2, AfterFragmentControl DEF ReceiveMore, WorkerIdle, NoNotice, ControlInv,
         CallbackControl
    <3>3. QED  BY <1>7, <3>1, <3>2
  <2>3. QED  BY <1>0, <1>3, <1>7, <2>1, <2>2, SlotsUnmoved DEF Allocated, ReceiveMore,
     sharedVars
<1>8. CASE ReceiveRejected
  <2>1. worker'.n = [worker.n EXCEPT !.kind = "ERROR", !.error = "FRAGMENT"]
    BY <1>8, CallbackPost DEF ReceiveRejected
  <2>2. worker'.n.slot = worker.n.slot
    BY <2>1 DEF TypeOK, TypeRecords, WorkerControl, Notice
  <2>3. receiver'.slot = NoSlot /\ freeSlots' = TokenSent(receiver.slot)
    BY <1>8 DEF ReceiveRejected, ReleaseReceiver, IdleReceiver
  <2>4. QED  BY <1>3, <1>8, <2>2, <2>3, SlotFromReceiver DEF ReceiveRejected
<1>9. CASE ReceiveNoSlot
  <2>1. worker'.n.slot = NoSlot /\ worker.n.slot = NoSlot
    BY <1>9 DEF ReceiveNoSlot, WorkerIdle, NoNotice, ControlInv, CallbackControl
  <2>2. receiver'.slot = receiver.slot
    BY <1>9 DEF ReceiveNoSlot, IdleReceiver
  <2>3. QED  BY <1>0, <1>3, <1>9, <2>1, <2>2, SlotsUnmoved DEF ReceiveNoSlot
<1>10. CASE ReceiveComplete
  <2> DEFINE slot == IF receiver.slot # NoSlot THEN receiver.slot ELSE Head(freeSlots)
  <2>1. slot \in Slots
    BY <1>10, CompletedSlot
  <2>2. /\ messages' = [messages EXCEPT ![slot] = TRUE]
        /\ Callback([worker.n EXCEPT !.kind = "MESSAGE", !.slot = slot], "free")
        /\ UNCHANGED notices
    BY <1>10 DEF ReceiveComplete
  <2>3. \/ receiver.slot = slot /\ UNCHANGED freeSlots
        \/ /\ receiver.slot = NoSlot /\ freeSlots # << >> /\ slot = Head(freeSlots)
           /\ freeSlots' = Tail(freeSlots)
    BY <1>10 DEF ReceiveComplete
  <2> HIDE DEF slot
  <2>4. worker'.n = [worker.n EXCEPT !.kind = "MESSAGE", !.slot = slot]
    BY <2>2, CallbackPost
  <2>5. worker'.n.slot = slot
    BY <2>4 DEF TypeOK, TypeRecords, WorkerControl, Notice
  <2>6. worker.n.slot = NoSlot /\ receiver'.slot = NoSlot
    BY <1>10 DEF ReceiveComplete, HandedOver, IdleReceiver, ControlInv, CallbackControl
  <2>7. QED  BY <1>3, <2>1, <2>2, <2>3, <2>5, <2>6, SlotToMessage
<1>11. CASE Posted
  <2>1. worker'.n.slot = NoSlot
    BY <1>11, ReturnedControl DEF Posted, WorkerIdle, NoNotice
  <2>2. QED  BY <1>3, <1>11, <2>1, SlotToNotices DEF Posted
<1>12. CASE PostFull
  <2>1. worker'.n = worker.n
    BY <1>12 DEF PostFull, TypeOK, TypeRecords, WorkerControl
  <2>2. QED  BY <1>0, <1>3, <1>12, <2>1, SlotsUnmoved DEF PostFull, sharedVars
<1>13. CASE Dropped
  <2>1. worker'.n.slot = NoSlot
    BY <1>13, ReturnedControl DEF Dropped, WorkerIdle, NoNotice
  <2>2. worker.n.slot \in Slots \cup {NoSlot}
    BY DEF TypeOK, TypeRecords, WorkerControl, Notice
  <2>3. /\ messages' = [t \in Slots |-> messages[t] /\ t # worker.n.slot]
        /\ freeSlots' = TokenSent(worker.n.slot) /\ UNCHANGED <<notices, receiver>>
    BY <1>13 DEF Dropped
  <2>4. QED  BY <1>3, <2>1, <2>2, <2>3, SlotFromMessage
<1>14. QED
  BY <1>1, <1>2, <1>4, <1>5, <1>6, <1>7, <1>8, <1>9, <1>10, <1>11, <1>12, <1>13 DEF SdkStep

\* No step gives a slot two owners, or loses one.
LEMMA SlotStep ==
    ASSUME TypeOK, ControlInv, QuietWhenStopped, SlotInv, [Next]_vars
    PROVE  SlotInv'
<1>1. CASE DeadlinePasses \/ UNCHANGED vars
  <2>1. UNCHANGED <<notices, freeSlots, messages, receiver, worker, owner, faulted>>
    BY <1>1 DEF DeadlinePasses, vars, sharedVars, ownerVars
  <2>2. Distinct(notices)
    BY DEF SlotInv, SlotHasOneOwner, Distinct
  <2>3. QED  BY <2>1, <2>2, SlotsUnmoved
<1>2. QED
  BY <1>1, SlotsOwner, SlotsPoll, SlotsEvent, SlotsCallback DEF Next

-----------------------------------------------------------------------------
(***************************************************************************)
(* The theorems.                                                           *)
(***************************************************************************)
RuntimeInv == TypeOK /\ ControlInv /\ QuietWhenStopped /\ SlotInv

\* The state emqtt_create finds satisfies the inductive invariant.
LEMMA RuntimeInvInit == Init => RuntimeInv
<1> SUFFICES ASSUME Init PROVE RuntimeInv
  OBVIOUS
<1>1. TypeOK
  BY TypeInit
<1>2. ControlInv /\ QuietWhenStopped
  BY DEF Init, ControlInv, SessionControl, CallbackControl, NoticeControl, OwnerSlotControl,
     PendingFits, QuietWhenStopped, OwnerAt, ClearedPending, WorkerIdle, NoNotice, IdleReceiver
<1>3. IsInjective(AllSlots) /\ TokensIn(AllSlots) = Slots /\ NoSlot \notin Slots
  BY SlotsAssumption DEF AllSlots, TokensIn, Slots, IsInjective, NoSlot
<1>4. SlotsIn(<< >>) = {} /\ Distinct(<< >>)
  BY DEF SlotsIn, Distinct
<1>5. SlotsHeld
  BY <1>3, <1>4 DEF Init, SlotsHeld, Shared, OwnerAt, WorkerIdle, NoNotice, IdleReceiver
<1>6. QED  BY <1>1, <1>2, <1>5, SlotsShared DEF RuntimeInv

\* Every step keeps the inductive invariant.
LEMMA RuntimeInvStep == RuntimeInv /\ [Next]_vars => RuntimeInv'
BY TypeStep, ControlStep, SlotStep DEF RuntimeInv

\* The inductive invariant holds in every reachable state.
THEOREM RuntimeInvariant == Spec => []RuntimeInv
BY RuntimeInvInit, RuntimeInvStep, PTL DEF Spec

\* Every variable keeps its C type and no queue outgrows the length it was
\* created with, for any number of slots and any queue length (emqtt.c:36-79).
THEOREM TypeCorrect == Spec => []TypeOK
BY RuntimeInvariant, PTL DEF RuntimeInv

\* No message slot ever has two owners, so no buffer is freed twice or handed
\* out while it is being written (emqtt.c:171-215, 262-318, 548-557).
THEOREM SlotOwnership == Spec => []SlotHasOneOwner
BY RuntimeInvariant, PTL DEF RuntimeInv, SlotInv

\* No slot is lost while the session has not failed closed (emqtt.c:178-215).
THEOREM SlotConservation == Spec => []NoSlotLost
BY RuntimeInvariant, PTL DEF RuntimeInv, SlotInv

\* poll never follows a null message pointer, and a message is never stored
\* over another one (emqtt.c:300-314, 548-557).
THEOREM MessageBuffers == Spec => []MessageHasBuffer
BY RuntimeInvariant, PTL DEF RuntimeInv, SlotInv

\* Between sessions no worker, notice or buffer of the last one is left
\* (emqtt.c:324-337, 427-438).
THEOREM Quiescence == Spec => []QuietWhenStopped
BY RuntimeInvariant, PTL DEF RuntimeInv

\* The callback and poll hold slots only at the points where the code does
\* (emqtt.c:217-322, 484-566).
THEOREM ControlCorrect == Spec => []ControlInv
BY RuntimeInvariant, PTL DEF RuntimeInv
=============================================================================
