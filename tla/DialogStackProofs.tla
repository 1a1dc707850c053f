-------------------------- MODULE DialogStackProofs --------------------------
(***************************************************************************)
(* Proofs about YDialog's dialog stack, for any number of dialogs and any  *)
(* queue bound.                                                            *)
(***************************************************************************)
EXTENDS DialogStack, TLAPS

(***************************************************************************)
(* Popping to the first k entries keeps the rest well typed.               *)
(***************************************************************************)
LEMMA PopToType ==
    ASSUME TypeOK, NEW k \in 0 .. Len(stack), PopTo(k)
    PROVE  stack' \in Seq(Dialogs) /\ status' \in [Dialogs -> Status]
<1>1. stack' \in Seq(Dialogs)
    BY DEF TypeOK, PopTo
<1>2. status' \in [Dialogs -> Status]
    BY DEF TypeOK, PopTo, Status
<1>3. QED
    BY <1>1, <1>2

(***************************************************************************)
(* deleteTo(), destroy() and the other deletions keep the stack equal to   *)
(* the live dialogs: the entries kept are exactly the live dialogs not     *)
(* popped, because no dialog occurs twice on the stack.                    *)
(***************************************************************************)
LEMMA PopToKeepsLive ==
    ASSUME TypeOK, StackHoldsLiveDialogs, NEW k \in 0 .. Len(stack), PopTo(k)
    PROVE  StackHoldsLiveDialogs'
<1> DEFINE n == Len(stack)
<1>1. Len(stack') = k /\ \A i \in 1 .. k : stack'[i] = stack[i]
    BY DEF TypeOK, PopTo
<1>2. \A d \in Dialogs : status'[d] = IF d \in Popped(k) THEN "destroyed"
                                                        ELSE status[d]
    BY DEF PopTo
<1>3. ASSUME NEW i \in 1 .. k PROVE stack[i] \notin Popped(k)
    BY DEF StackHoldsLiveDialogs, Popped, TypeOK
<1>4. {stack'[i] : i \in 1 .. Len(stack')} \subseteq Live'
    <2> SUFFICES ASSUME NEW i \in 1 .. k PROVE stack[i] \in Live'
        BY <1>1
    <2>1. stack[i] \in Live
        BY DEF StackHoldsLiveDialogs
    <2>2. status'[stack[i]] = status[stack[i]]
        BY <1>2, <1>3, <2>1 DEF Live
    <2>3. QED
        BY <2>1, <2>2 DEF Live
<1>5. Live' \subseteq {stack'[i] : i \in 1 .. Len(stack')}
    <2> SUFFICES ASSUME NEW d \in Dialogs, d \in Live'
                 PROVE  \E i \in 1 .. k : stack[i] = d
        BY <1>1 DEF Live
    <2>1. d \notin Popped(k) /\ status'[d] = status[d]
        BY <1>2 DEF Live
    <2>2. d \in Live
        BY <2>1 DEF Live
    <2>3. PICK j \in 1 .. n : stack[j] = d
        BY <2>2 DEF StackHoldsLiveDialogs
    <2>4. j \in 1 .. k
        BY <2>1, <2>3 DEF Popped, TypeOK
    <2>5. QED
        BY <2>3, <2>4
<1>6. \A i, j \in 1 .. Len(stack') : stack'[i] = stack'[j] => i = j
    BY <1>1 DEF StackHoldsLiveDialogs, TypeOK
<1>7. QED
    BY <1>4, <1>5, <1>6 DEF StackHoldsLiveDialogs

(***************************************************************************)
(* Every call keeps the stack, the statuses, the event queue and the      *)
(* result in their types; the queue never grows past MaxQueue.             *)
(***************************************************************************)
LEMMA TypeStep == TypeOK /\ [Next]_vars => TypeOK'
<1> SUFFICES ASSUME TypeOK, [Next]_vars PROVE TypeOK'
    OBVIOUS
<1> USE StackAssumption
<1>0. ASSUME NEW o \in Outcomes, NEW a \in Dialogs \cup {NoDialog},
             NEW s \in Dialogs \cup {NoDialog}
      PROVE  Res(o, a, s) \in Results
    BY DEF Res, Results
<1>1. ASSUME NEW d \in Dialogs, Create(d) PROVE TypeOK'
    BY <1>0, <1>1 DEF Create, TypeOK, Status, Outcomes
<1>2. ASSUME NEW d \in Dialogs, Open(d) PROVE TypeOK'
    BY <1>0, <1>2 DEF Open, Opened, TypeOK, Status, Outcomes
<1>3. ASSUME NEW d \in Dialogs, EventCallNotTopmost(d) PROVE TypeOK'
    BY <1>0, <1>3 DEF EventCallNotTopmost, TypeOK, Outcomes
<1>4. ASSUME NEW d \in Dialogs, WaitForEventForever(d) PROVE TypeOK'
    <2>1. PICK i \in 1 .. Len(queue) :
                /\ result' = Res("event", d, queue[i])
                /\ queue' = SubSeq(queue, i + 1, Len(queue))
        BY <1>4 DEF WaitForEventForever
    <2>2. queue' \in Seq(Dialogs \cup {NoDialog}) /\ Len(queue') <= MaxQueue
        BY <2>1 DEF TypeOK
    <2>3. result' \in Results
        BY <1>0, <2>1 DEF TypeOK, Outcomes
    <2>4. QED
        BY <1>4, <2>2, <2>3 DEF WaitForEventForever, Opened, TypeOK, Status
<1>5. ASSUME NEW d \in Dialogs, WaitForEventTimeout(d) PROVE TypeOK'
    <2>1. status' \in [Dialogs -> Status] /\ stack' = stack
        BY <1>5 DEF WaitForEventTimeout, Opened, TypeOK, Status
    <2>2. CASE queue = <<>>
        BY <1>0, <1>5, <2>1, <2>2 DEF WaitForEventTimeout, TypeOK, Outcomes
    <2>3. CASE queue # <<>>
        <3>1. Head(queue) \in Dialogs \cup {NoDialog}
            BY <2>3 DEF TypeOK
        <3>2. Tail(queue) \in Seq(Dialogs \cup {NoDialog})
              /\ Len(Tail(queue)) <= MaxQueue
            BY <2>3 DEF TypeOK
        <3>3. /\ queue' = Tail(queue)
              /\ result' \in {Res("event", d, Head(queue)),
                               Res("null", d, NoDialog)}
            BY <1>5, <2>3 DEF WaitForEventTimeout
        <3>4. result' \in Results
            BY <1>0, <3>1, <3>3 DEF Outcomes
        <3>5. QED
            BY <2>1, <3>2, <3>3, <3>4 DEF TypeOK
    <2>4. QED
        BY <2>2, <2>3
<1>6. ASSUME NEW d \in Dialogs, PollEvent(d) PROVE TypeOK'
    <2>1. status' \in [Dialogs -> Status] /\ stack' = stack
        BY <1>6 DEF PollEvent, Opened, TypeOK, Status
    <2>2. CASE queue = <<>>
        BY <1>0, <1>6, <2>1, <2>2 DEF PollEvent, TypeOK, Outcomes
    <2>3. CASE queue # <<>>
        <3>1. Head(queue) \in Dialogs \cup {NoDialog}
            BY <2>3 DEF TypeOK
        <3>2. Tail(queue) \in Seq(Dialogs \cup {NoDialog})
              /\ Len(Tail(queue)) <= MaxQueue
            BY <2>3 DEF TypeOK
        <3>3. /\ queue' = Tail(queue)
              /\ result' \in {Res("event", d, Head(queue)),
                               Res("null", d, NoDialog)}
            BY <1>6, <2>3 DEF PollEvent
        <3>4. result' \in Results
            BY <1>0, <3>1, <3>3 DEF Outcomes
        <3>5. QED
            BY <2>1, <3>2, <3>3, <3>4 DEF TypeOK
    <2>4. QED
        BY <2>2, <2>3
<1>7. ASSUME NEW d \in Dialogs, DeleteTo(d) PROVE TypeOK'
    <2>1. PICK k \in 0 .. Len(stack) : PopTo(k)
        <3> DEFINE at == {i \in 1 .. Len(stack) : stack[i] = d}
        <3>1. (IF at = {} THEN 0 ELSE (CHOOSE i \in at : TRUE) - 1)
                \in 0 .. Len(stack)
            BY DEF TypeOK
        <3>2. QED
            BY <1>7, <3>1 DEF DeleteTo
    <2>2. QED
        BY <1>0, <1>7, <2>1, PopToType DEF DeleteTo, TypeOK, Outcomes
<1>8. ASSUME NEW d \in Dialogs, NEW t \in BOOLEAN, Destroy(d, t)
      PROVE  TypeOK'
    <2>1. CASE IsTopmost(d)
        <3>1. Len(stack) - 1 \in 0 .. Len(stack) /\ PopTo(Len(stack) - 1)
            BY <1>8, <2>1 DEF Destroy, IsTopmost, TypeOK
        <3>2. QED
            BY <1>0, <1>8, <3>1, PopToType DEF Destroy, TypeOK, Outcomes
    <2>2. CASE ~IsTopmost(d)
        BY <1>0, <1>8, <2>2 DEF Destroy, TypeOK, Outcomes
    <2>3. QED
        BY <2>1, <2>2
<1>9. ASSUME NEW t \in BOOLEAN, DeleteTopmostDialog(t) PROVE TypeOK'
    <2>1. CASE stack # <<>>
        <3>1. Len(stack) - 1 \in 0 .. Len(stack) /\ PopTo(Len(stack) - 1)
            BY <1>9, <2>1 DEF DeleteTopmostDialog, TypeOK
        <3>2. QED
            BY <1>0, <1>9, <3>1, PopToType DEF DeleteTopmostDialog, TypeOK,
               Outcomes
    <2>2. CASE stack = <<>>
        BY <1>0, <1>9, <2>2 DEF DeleteTopmostDialog, TypeOK, Outcomes
    <2>3. QED
        BY <2>1, <2>2
<1>10. CASE DeleteAllDialogs
    BY <1>0, <1>10, PopToType DEF DeleteAllDialogs, TypeOK, Outcomes
<1>11. ASSUME NEW s \in Dialogs \cup {NoDialog}, UserAction(s) PROVE TypeOK'
    BY <1>11 DEF UserAction, TypeOK
<1>12. CASE UNCHANGED vars
    BY <1>12 DEF vars, TypeOK
<1>13. QED
    BY <1>1, <1>2, <1>3, <1>4, <1>5, <1>6, <1>7, <1>8, <1>9, <1>10, <1>11,
       <1>12 DEF Next


(***************************************************************************)
(* A freshly started program has no dialog and no event.                   *)
(***************************************************************************)
LEMMA InitType == Init => TypeOK
<1> SUFFICES ASSUME Init PROVE TypeOK
    OBVIOUS
<1>1. Res("none", NoDialog, NoDialog) \in Results
    BY DEF Res, Results, Outcomes
<1>2. QED
    BY <1>1, StackAssumption DEF Init, TypeOK, Status

(***************************************************************************)
(* Type correctness of the dialog stack and the event calls.               *)
(***************************************************************************)
THEOREM TypeCorrect == Spec => []TypeOK
<1>1. Init => TypeOK
    BY InitType
<1>2. QED
    BY <1>1, TypeStep, PTL DEF Spec

(***************************************************************************)
(* Opening a live dialog (open(), or the lazy open of the event calls)     *)
(* changes no one's liveness.                                              *)
(***************************************************************************)
LEMMA OpenKeepsLive ==
    ASSUME TypeOK, StackHoldsLiveDialogs, NEW d \in Live,
           stack' = stack, status' = Opened(d)
    PROVE  StackHoldsLiveDialogs'
<1>1. Live' = Live
    BY DEF Live, Opened, TypeOK
<1>2. QED
    BY <1>1 DEF StackHoldsLiveDialogs

(***************************************************************************)
(* The constructor pushes an address that is not live, hence not on the    *)
(* stack, and makes it live.                                               *)
(***************************************************************************)
LEMMA CreateKeepsLive ==
    ASSUME TypeOK, StackHoldsLiveDialogs, NEW d \in Dialogs, Create(d)
    PROVE  StackHoldsLiveDialogs'
<1>1. d \notin Live
    BY DEF Create, Live
<1>2. \A i \in 1 .. Len(stack) : stack[i] # d
    BY <1>1 DEF StackHoldsLiveDialogs
<1>3. Live' = Live \cup {d}
    BY DEF Create, Live, TypeOK
<1>4. /\ Len(stack') = Len(stack) + 1
      /\ stack'[Len(stack) + 1] = d
      /\ \A i \in 1 .. Len(stack) : stack'[i] = stack[i]
    BY DEF Create, TypeOK
<1>5. {stack'[i] : i \in 1 .. Len(stack')} = Live'
    BY <1>3, <1>4 DEF StackHoldsLiveDialogs, TypeOK
<1>6. \A i, j \in 1 .. Len(stack') : stack'[i] = stack'[j] => i = j
    BY <1>2, <1>4 DEF StackHoldsLiveDialogs, TypeOK
<1>7. QED
    BY <1>5, <1>6 DEF StackHoldsLiveDialogs

(***************************************************************************)
(* A dialog that is topmost is live.                                       *)
(***************************************************************************)
LEMMA TopmostIsLive ==
    ASSUME TypeOK, StackHoldsLiveDialogs, NEW d \in Dialogs, IsTopmost(d)
    PROVE  d \in Live
<1>1. Len(stack) \in 1 .. Len(stack) /\ stack[Len(stack)] = d
    BY DEF IsTopmost, TypeOK
<1>2. QED
    BY <1>1 DEF StackHoldsLiveDialogs


(***************************************************************************)
(* The stack invariant together with the types is inductive: every action *)
(* either leaves stack and statuses alone, opens a live dialog, pushes an  *)
(* unused one, or pops to a prefix.                                        *)
(***************************************************************************)
IInv == TypeOK /\ StackHoldsLiveDialogs

LEMMA IInvStep == IInv /\ [Next]_vars => IInv'
<1> SUFFICES ASSUME IInv, [Next]_vars PROVE IInv'
    OBVIOUS
<1> USE DEF IInv
<1>0. TypeOK'
    BY TypeStep
<1>1. ASSUME stack' = stack, status' = status PROVE StackHoldsLiveDialogs'
    BY <1>1 DEF StackHoldsLiveDialogs, Live
<1>2. ASSUME NEW d \in Dialogs,
             \/ Open(d)
             \/ WaitForEventForever(d) \/ WaitForEventTimeout(d)
             \/ PollEvent(d)
      PROVE  StackHoldsLiveDialogs'
    <2>1. d \in Live
        BY <1>2, TopmostIsLive DEF Open, WaitForEventForever,
           WaitForEventTimeout, PollEvent
    <2>2. stack' = stack /\ status' = Opened(d)
        BY <1>2 DEF Open, WaitForEventForever, WaitForEventTimeout, PollEvent
    <2>3. QED
        BY <2>1, <2>2, OpenKeepsLive
<1>3. ASSUME NEW d \in Dialogs, Create(d) PROVE StackHoldsLiveDialogs'
    BY <1>3, CreateKeepsLive
<1>4. ASSUME NEW d \in Dialogs, DeleteTo(d) PROVE StackHoldsLiveDialogs'
    <2> DEFINE at == {i \in 1 .. Len(stack) : stack[i] = d}
               k  == IF at = {} THEN 0 ELSE (CHOOSE i \in at : TRUE) - 1
    <2>1. k \in 0 .. Len(stack)
        BY DEF TypeOK
    <2>2. PopTo(k)
        BY <1>4 DEF DeleteTo
    <2>3. QED
        BY <2>1, <2>2, PopToKeepsLive
<1>5. ASSUME NEW d \in Dialogs, NEW t \in BOOLEAN, Destroy(d, t)
      PROVE  StackHoldsLiveDialogs'
    <2>1. CASE IsTopmost(d)
        <3>1. Len(stack) - 1 \in 0 .. Len(stack) /\ PopTo(Len(stack) - 1)
            BY <1>5, <2>1 DEF Destroy, IsTopmost, TypeOK
        <3>2. QED
            BY <3>1, PopToKeepsLive
    <2>2. CASE ~IsTopmost(d)
        BY <1>1, <1>5, <2>2 DEF Destroy
    <2>3. QED
        BY <2>1, <2>2
<1>6. ASSUME NEW t \in BOOLEAN, DeleteTopmostDialog(t)
      PROVE  StackHoldsLiveDialogs'
    <2>1. CASE stack # <<>>
        <3>1. Len(stack) - 1 \in 0 .. Len(stack) /\ PopTo(Len(stack) - 1)
            BY <1>6, <2>1 DEF DeleteTopmostDialog, TypeOK
        <3>2. QED
            BY <3>1, PopToKeepsLive
    <2>2. CASE stack = <<>>
        BY <1>1, <1>6, <2>2 DEF DeleteTopmostDialog
    <2>3. QED
        BY <2>1, <2>2
<1>7. ASSUME DeleteAllDialogs PROVE StackHoldsLiveDialogs'
    <2>1. 0 \in 0 .. Len(stack) /\ PopTo(0)
        BY <1>7 DEF DeleteAllDialogs, TypeOK
    <2>2. QED
        BY <2>1, PopToKeepsLive
<1>8. StackHoldsLiveDialogs'
    <2>1. ASSUME NEW d \in Dialogs, EventCallNotTopmost(d)
          PROVE  StackHoldsLiveDialogs'
        BY <1>1, <2>1 DEF EventCallNotTopmost
    <2>2. ASSUME NEW src \in Dialogs \cup {NoDialog}, UserAction(src)
          PROVE  StackHoldsLiveDialogs'
        BY <1>1, <2>2 DEF UserAction
    <2>3. CASE UNCHANGED vars
        BY <1>1, <2>3 DEF vars
    <2>4. QED
        BY <1>2, <1>3, <1>4, <1>5, <1>6, <1>7, <2>1, <2>2, <2>3 DEF Next
<1>9. QED
    BY <1>0, <1>8

\* The initial state satisfies the inductive invariant: nothing is live.
LEMMA InitIInv == Init => IInv
<1> SUFFICES ASSUME Init PROVE IInv
    OBVIOUS
<1>1. TypeOK
    BY InitType
<1>2. Live = {}
    BY DEF Init, Live
<1>3. QED
    BY <1>1, <1>2 DEF Init, IInv, StackHoldsLiveDialogs

(***************************************************************************)
(* _dialogStack holds exactly the existing dialogs, each once, whatever    *)
(* mix of constructors, event calls, destroy(), deleteTopmostDialog(),     *)
(* deleteTo() and deleteAllDialogs() the application makes: no deleted     *)
(* dialog is left on it, for any number of dialogs.                        *)
(***************************************************************************)
THEOREM StackInvariant == Spec => []StackHoldsLiveDialogs
<1>1. Init => IInv
    BY InitIInv
<1>2. QED
    BY <1>1, IInvStep, PTL DEF Spec, IInv


-----------------------------------------------------------------------------
(***************************************************************************)
(* The last result, if an event, went to the topmost dialog and belongs to *)
(* it.  Every call that changes the stack also replaces the result, so     *)
(* the event stays valid while the backend only queues more events.      *)
(***************************************************************************)
EventInv ==
    result.outcome = "event" =>
        /\ result.src \in {result.asker, NoDialog}
        /\ IsTopmost(result.asker)

\* The result of an event call is the dialog's own event or none at all.
LEMMA EventCallResult ==
    ASSUME NEW d \in Dialogs,
           \/ WaitForEventForever(d) \/ WaitForEventTimeout(d)
           \/ PollEvent(d)
    PROVE  /\ stack' = stack /\ IsTopmost(d)
           /\ result'.outcome = "event" =>
                result'.asker = d /\ result'.src \in {d, NoDialog}
<1>1. CASE WaitForEventForever(d)
  BY <1>1 DEF WaitForEventForever, Res, BelongsTo
<1>2. CASE WaitForEventTimeout(d)
  BY <1>2 DEF WaitForEventTimeout, Res, BelongsTo
<1>3. CASE PollEvent(d)
  BY <1>3 DEF PollEvent, Res, BelongsTo
<1> QED
  BY <1>1, <1>2, <1>3

\* Every other call leaves the result alone or makes it something else.
LEMMA OtherCallResult ==
    ASSUME [Next]_vars,
           ~\E d \in Dialogs : \/ WaitForEventForever(d)
                               \/ WaitForEventTimeout(d) \/ PollEvent(d)
    PROVE  \/ result'.outcome # "event"
           \/ result' = result /\ stack' = stack
<1>1. ASSUME NEW d \in Dialogs, Create(d) \/ Open(d) \/ EventCallNotTopmost(d)
                                \/ DeleteTo(d)
      PROVE  result'.outcome # "event"
  BY <1>1 DEF Create, Open, EventCallNotTopmost, DeleteTo, Res
<1>2. ASSUME NEW d \in Dialogs, NEW t \in BOOLEAN, Destroy(d, t)
      PROVE  result'.outcome # "event"
  BY <1>2 DEF Destroy, Res
<1>3. ASSUME NEW t \in BOOLEAN, DeleteTopmostDialog(t)
      PROVE  result'.outcome # "event"
  BY <1>3 DEF DeleteTopmostDialog, Res
<1>4. ASSUME DeleteAllDialogs PROVE result'.outcome # "event"
  BY <1>4 DEF DeleteAllDialogs, Res
<1>5. ASSUME NEW s \in Dialogs \cup {NoDialog}, UserAction(s)
      PROVE  result' = result /\ stack' = stack
  BY <1>5 DEF UserAction
<1>6. CASE UNCHANGED vars
  BY <1>6 DEF vars
<1> QED
  BY <1>1, <1>2, <1>3, <1>4, <1>5, <1>6 DEF Next

LEMMA EventInvStep == EventInv /\ [Next]_vars => EventInv'
<1> SUFFICES ASSUME EventInv, [Next]_vars PROVE EventInv'
  OBVIOUS
<1>1. CASE \E d \in Dialogs : \/ WaitForEventForever(d)
                              \/ WaitForEventTimeout(d) \/ PollEvent(d)
  BY <1>1, EventCallResult DEF EventInv, IsTopmost
<1>2. CASE ~\E d \in Dialogs : \/ WaitForEventForever(d)
                               \/ WaitForEventTimeout(d) \/ PollEvent(d)
  BY <1>2, OtherCallResult DEF EventInv, IsTopmost
<1> QED
  BY <1>1, <1>2

(***************************************************************************)
(* waitForEvent() and pollEvent() hand an event only to the topmost dialog *)
(* that asked, and only one of its own widgets' events or one without      *)
(* widget, for any number of dialogs and events: filterInvalidEvents()     *)
(* drops what was queued for a dialog later covered or deleted.            *)
(***************************************************************************)
THEOREM EventsDelivered == Spec => EventsOnlyForAsker
<1>1. Init => EventInv
  BY DEF Init, EventInv, Res
<1>2. EventInv /\ [Next]_vars =>
        [result'.outcome = "event" =>
           /\ result'.src \in {result'.asker, NoDialog}
           /\ IsTopmost(result'.asker)]_vars
  <2> SUFFICES ASSUME EventInv, [Next]_vars, result'.outcome = "event"
               PROVE  /\ result'.src \in {result'.asker, NoDialog}
                      /\ IsTopmost(result'.asker)
    OBVIOUS
  <2>1. CASE \E d \in Dialogs : \/ WaitForEventForever(d)
                                \/ WaitForEventTimeout(d) \/ PollEvent(d)
    BY <2>1, EventCallResult
  <2>2. CASE ~\E d \in Dialogs : \/ WaitForEventForever(d)
                                 \/ WaitForEventTimeout(d) \/ PollEvent(d)
    BY <2>2, OtherCallResult DEF EventInv
  <2> QED
    BY <2>1, <2>2
<1> QED
  BY <1>1, <1>2, EventInvStep, PTL DEF Spec, EventsOnlyForAsker

-----------------------------------------------------------------------------
(***************************************************************************)
(* Deletions that name a dialog.  A pop to the first k entries leaves the *)
(* prefix of length k.                                                     *)
(***************************************************************************)
LEMMA PopToPrefix ==
    ASSUME TypeOK, NEW k \in 0 .. Len(stack), PopTo(k)
    PROVE  Len(stack') = k /\ stack' = SubSeq(stack, 1, Len(stack'))
<1>1. Len(stack') = k
    BY DEF TypeOK, PopTo
<1>2. QED
    BY <1>1 DEF PopTo

\* deleteTo( d ) of a live d pops down to just below d's entry.
LEMMA DeleteToExact ==
    ASSUME IInv, NEW d \in Dialogs, DeleteTo(d)
    PROVE  /\ Len(stack') < Len(stack)
           /\ stack[Len(stack') + 1] = d
           /\ stack' = SubSeq(stack, 1, Len(stack'))
<1> DEFINE at == {i \in 1 .. Len(stack) : stack[i] = d}
<1>1. at # {}
    BY DEF DeleteTo, IInv, StackHoldsLiveDialogs
<1>2. PICK i \in at : i = CHOOSE j \in at : TRUE
    BY <1>1
<1>3. PopTo(i - 1)
    BY <1>1, <1>2 DEF DeleteTo
<1>4. i \in 1 .. Len(stack) /\ stack[i] = d /\ i - 1 \in 0 .. Len(stack)
    BY <1>2 DEF IInv, TypeOK
<1>5. Len(stack') = i - 1 /\ stack' = SubSeq(stack, 1, Len(stack'))
    BY <1>3, <1>4, PopToPrefix DEF IInv
<1>6. QED
    BY <1>4, <1>5

(***************************************************************************)
(* A step that shrinks the stack and names a dialog in its result is      *)
(* destroy() of the topmost dialog or deleteTo(); both stop right below   *)
(* that dialog.                                                            *)
(***************************************************************************)
LEMMA DeletionStep ==
    ASSUME IInv, [Next]_vars, result'.asker \in Dialogs,
           Len(stack') < Len(stack)
    PROVE  /\ stack[Len(stack') + 1] = result'.asker
           /\ stack' = SubSeq(stack, 1, Len(stack'))
<1>1. stack' # stack
    OBVIOUS
<1>3. CASE \E d \in Dialogs : DeleteTo(d)
    <2>1. PICK d \in Dialogs : DeleteTo(d)
        BY <1>3
    <2>2. result'.asker = d
        BY <2>1 DEF DeleteTo, Res
    <2>3. QED
        BY <2>1, <2>2, DeleteToExact
<1>4. CASE \E d \in Dialogs, t \in BOOLEAN : Destroy(d, t)
    <2>1. PICK d \in Dialogs, t \in BOOLEAN : Destroy(d, t)
        BY <1>4
    <2>2. IsTopmost(d) /\ PopTo(Len(stack) - 1)
          /\ result'.asker = d
        BY <1>1, <2>1 DEF Destroy, Res
    <2>3. Len(stack) - 1 \in 0 .. Len(stack) /\ stack[Len(stack)] = d
        BY <2>2 DEF IsTopmost, IInv, TypeOK
    <2>4. Len(stack') = Len(stack) - 1 /\ stack' = SubSeq(stack, 1, Len(stack'))
        BY <2>2, <2>3, PopToPrefix DEF IInv
    <2>5. QED
        BY <2>2, <2>3, <2>4
<1>5. CASE \E t \in BOOLEAN : DeleteTopmostDialog(t)
    BY <1>5, StackAssumption DEF DeleteTopmostDialog, Res
<1>6. CASE DeleteAllDialogs
    BY <1>6, StackAssumption DEF DeleteAllDialogs, Res
<1>7. CASE \E d \in Dialogs : Create(d)
    BY <1>7 DEF Create, IInv, TypeOK
<1>8. CASE \/ \E d \in Dialogs : \/ Open(d) \/ EventCallNotTopmost(d)
                                 \/ WaitForEventForever(d)
                                 \/ WaitForEventTimeout(d) \/ PollEvent(d)
           \/ \E src \in Dialogs \cup {NoDialog} : UserAction(src)
           \/ UNCHANGED vars
    BY <1>1, <1>8 DEF Open, EventCallNotTopmost, WaitForEventForever,
       WaitForEventTimeout, PollEvent, UserAction, vars
<1>9. QED
    BY <1>3, <1>4, <1>5, <1>6, <1>7, <1>8 DEF Next

(***************************************************************************)
(* destroy() and deleteTo( d ) delete d and exactly the dialogs above it,  *)
(* for any number of dialogs: the first entry popped is d and the entries *)
(* below it are kept in place.  This rests on the stack invariant: a live *)
(* d is on the stack, so deleteTo() never runs off its bottom.             *)
(***************************************************************************)
THEOREM DeletionsStopAtDialog == Spec => DeletesDownToDialog
<1>1. IInv /\ [Next]_vars =>
        [result'.asker \in Dialogs /\ Len(stack') < Len(stack) =>
           /\ stack[Len(stack') + 1] = result'.asker
           /\ stack' = SubSeq(stack, 1, Len(stack'))]_vars
    BY DeletionStep
<1>2. Init => IInv
    BY InitIInv
<1>3. QED
    BY <1>1, <1>2, IInvStep, PTL DEF Spec, DeletesDownToDialog

=============================================================================
