----------------------------- MODULE DialogStack -----------------------------
(***************************************************************************)
(* The process-wide dialog stack and the event calls of YDialog            *)
(* (YDialog.h).                                                            *)
(*                                                                         *)
(* Each YDialog is pushed on _dialogStack when it is constructed (the      *)
(* stack holds "all currently existing dialogs"), opened by open() or      *)
(* lazily by the first waitForEvent()/pollEvent(), and deleted from the    *)
(* top by destroy(), deleteTopmostDialog(), deleteTo() or                  *)
(* deleteAllDialogs().  The backend queues user events; an event carries   *)
(* the dialog of the widget it comes from, or NoDialog (cancel from the    *)
(* window manager, debug).  filterInvalidEvents() drops an event that      *)
(* does not belong to the dialog that asks.                                *)
(*                                                                         *)
(* Every call returns to the application at once except                    *)
(* waitForEvent(0), which blocks until an event for its dialog arrives;   *)
(* the model takes that call as one step when such an event is queued.    *)
(***************************************************************************)
EXTENDS Integers, Sequences

CONSTANTS
    Dialogs,   \* addresses of the dialogs the application creates
    NoDialog,  \* the null pointer
    MaxQueue   \* most events pending in the backend

ASSUME StackAssumption ==
    /\ NoDialog \notin Dialogs
    /\ MaxQueue \in Nat \ {0}

Status == {"none", "created", "open", "destroyed"}

(***************************************************************************)
(* What the last call handed back to the application: an event (with the   *)
(* dialog it came from), a null event, a timeout event, true or false, or  *)
(* an exception.                                                           *)
(***************************************************************************)
Outcomes == {"none", "event", "null", "timeout", "true", "false",
             "exception"}

Results == [outcome : Outcomes, asker : Dialogs \cup {NoDialog},
            src : Dialogs \cup {NoDialog}]

VARIABLES
    stack,     \* YDialog::_dialogStack, bottom first
    status,    \* the life cycle of each address
    queue,     \* events pending in the backend: the dialog each is from
    result     \* what the last call returned

vars == <<stack, status, queue, result>>

TypeOK ==
    /\ stack \in Seq(Dialogs)
    /\ status \in [Dialogs -> Status]
    /\ queue \in Seq(Dialogs \cup {NoDialog})
    /\ Len(queue) <= MaxQueue
    /\ result \in Results

-----------------------------------------------------------------------------
\* isTopmostDialog().
IsTopmost(d) == stack # <<>> /\ stack[Len(stack)] = d

\* currentDialog(): the topmost dialog.
Top == stack[Len(stack)]

Live == {d \in Dialogs : status[d] \in {"created", "open"}}

Res(o, a, s) == [outcome |-> o, asker |-> a, src |-> s]

(***************************************************************************)
(* filterInvalidEvents(): an event from a widget of another dialog is not  *)
(* handed out; an event without widget always is.                         *)
(***************************************************************************)
\* Mutant: the filter lets every event through.
BelongsToAll(src, d) == TRUE

BelongsTo(src, d) == src \in {d, NoDialog}

\* open() as the event calls do it: openInternal() once, then isOpen().
Opened(d) == [status EXCEPT ![d] = "open"]

\* Mutant: only the topmost of the dialogs popped is deleted.
PoppedTopOnly(k) == IF k < Len(stack) THEN {stack[Len(stack)]} ELSE {}

\* The dialogs popped when the stack shrinks to its first k entries.
Popped(k) == {stack[i] : i \in k + 1 .. Len(stack)}

\* Pop down to the first k entries and delete the popped dialogs.
PopTo(k) ==
    /\ stack' = SubSeq(stack, 1, k)
    /\ status' = [d \in Dialogs |->
                    IF d \in Popped(k) THEN "destroyed" ELSE status[d]]

-----------------------------------------------------------------------------
(***************************************************************************)
(* The constructor: a new dialog at an unused address is pushed.           *)
(***************************************************************************)
Create(d) ==
    /\ status[d] = "none"
    /\ stack' = Append(stack, d)
    /\ status' = [status EXCEPT ![d] = "created"]
    /\ result' = Res("none", d, NoDialog)
    /\ UNCHANGED queue

\* open(): openInternal() exactly once; a second call does nothing.
Open(d) ==
    /\ d \in Live
    /\ status' = Opened(d)
    /\ result' = Res("none", d, NoDialog)
    /\ UNCHANGED <<stack, queue>>

(***************************************************************************)
(* A user action on a widget of the topmost open dialog, or a cancel from  *)
(* the window manager (YQDialog::closeEvent sends a YCancelEvent without   *)
(* widget): the backend queues the event.                                  *)
(***************************************************************************)
UserAction(src) ==
    /\ Len(queue) < MaxQueue
    /\ src # NoDialog => IsTopmost(src) /\ status[src] = "open"
    /\ queue' = Append(queue, src)
    /\ UNCHANGED <<stack, status, result>>

(***************************************************************************)
(* waitForEvent() or pollEvent() by a live dialog that is not topmost: an *)
(* exception, nothing else changes.                                        *)
(***************************************************************************)
EventCallNotTopmost(d) ==
    /\ d \in Live
    /\ ~IsTopmost(d)
    /\ result' = Res("exception", d, NoDialog)
    /\ UNCHANGED <<stack, status, queue>>

(***************************************************************************)
(* waitForEvent( t ) by the topmost dialog, opening it first if needed.    *)
(* With a timeout the first pending event is taken and filtered (a        *)
(* foreign one comes back as a null event), or the timeout fires if none  *)
(* is pending.  Without timeout, foreign events are dropped and the call  *)
(* returns the first one that belongs to the dialog.                      *)
(***************************************************************************)
WaitForEventTimeout(d) ==
    /\ IsTopmost(d)
    /\ status' = Opened(d)
    /\ IF queue = <<>>
       THEN /\ result' = Res("timeout", d, NoDialog)
            /\ UNCHANGED queue
       ELSE /\ result' = IF BelongsTo(Head(queue), d)
                         THEN Res("event", d, Head(queue))
                         ELSE Res("null", d, NoDialog)
            /\ queue' = Tail(queue)
    /\ UNCHANGED stack

WaitForEventForever(d) ==
    /\ IsTopmost(d)
    /\ \E i \in 1 .. Len(queue) :
         /\ BelongsTo(queue[i], d)
         /\ \A j \in 1 .. i - 1 : ~BelongsTo(queue[j], d)
         /\ result' = Res("event", d, queue[i])
         /\ queue' = SubSeq(queue, i + 1, Len(queue))
    /\ status' = Opened(d)
    /\ UNCHANGED stack

\* pollEvent(): like waitForEvent with a timeout, but null if none pending.
PollEvent(d) ==
    /\ IsTopmost(d)
    /\ status' = Opened(d)
    /\ IF queue = <<>>
       THEN /\ result' = Res("null", d, NoDialog)
            /\ UNCHANGED queue
       ELSE /\ result' = IF BelongsTo(Head(queue), d)
                         THEN Res("event", d, Head(queue))
                         ELSE Res("null", d, NoDialog)
            /\ queue' = Tail(queue)
    /\ UNCHANGED stack

(***************************************************************************)
(* destroy( doThrow ): the topmost dialog is popped and deleted; any other *)
(* live dialog stays, and the call throws or returns false.               *)
(***************************************************************************)
Destroy(d, doThrow) ==
    /\ d \in Live
    /\ IF IsTopmost(d)
       THEN /\ PopTo(Len(stack) - 1)
            /\ result' = Res("true", d, NoDialog)
       ELSE /\ result' = Res(IF doThrow THEN "exception" ELSE "false",
                             d, NoDialog)
            /\ UNCHANGED <<stack, status>>
    /\ UNCHANGED queue

(***************************************************************************)
(* deleteTopmostDialog( doThrow ): no dialog is an exception or false;     *)
(* otherwise the top is deleted and the call says whether one is left.    *)
(***************************************************************************)
DeleteTopmostDialog(doThrow) ==
    /\ IF stack = <<>>
       THEN /\ result' = Res(IF doThrow THEN "exception" ELSE "false",
                             NoDialog, NoDialog)
            /\ UNCHANGED <<stack, status>>
       ELSE /\ PopTo(Len(stack) - 1)
            /\ result' = Res(IF Len(stack) > 1 THEN "true" ELSE "false",
                             NoDialog, NoDialog)
    /\ UNCHANGED queue

\* deleteAllDialogs().
DeleteAllDialogs ==
    /\ PopTo(0)
    /\ result' = Res("none", NoDialog, NoDialog)
    /\ UNCHANGED queue

\* Mutant: deleteTo() stops when d is topmost instead of after deleting it.
DeleteToKeepingDialog(d) ==
    /\ d \in Live
    /\ LET at == {i \in 1 .. Len(stack) : stack[i] = d}
       IN  PopTo(IF at = {} THEN 0 ELSE CHOOSE i \in at : TRUE)
    /\ result' = Res("none", d, NoDialog)
    /\ UNCHANGED queue

(***************************************************************************)
(* deleteTo( d ): deleteTopmostDialog() until d has been deleted, or until *)
(* the stack is empty if d is not on it.                                   *)
(***************************************************************************)
DeleteTo(d) ==
    /\ d \in Live
    /\ LET at == {i \in 1 .. Len(stack) : stack[i] = d}
       IN  PopTo(IF at = {} THEN 0 ELSE (CHOOSE i \in at : TRUE) - 1)
    /\ result' = Res("none", d, NoDialog)
    /\ UNCHANGED queue

Init ==
    /\ stack = <<>>
    /\ status = [d \in Dialogs |-> "none"]
    /\ queue = <<>>
    /\ result = Res("none", NoDialog, NoDialog)

Next ==
    \/ \E d \in Dialogs : Create(d) \/ Open(d) \/ EventCallNotTopmost(d)
                          \/ WaitForEventForever(d) \/ WaitForEventTimeout(d)
                          \/ PollEvent(d) \/ DeleteTo(d)
    \/ \E d \in Dialogs, doThrow \in BOOLEAN : Destroy(d, doThrow)
    \/ \E doThrow \in BOOLEAN : DeleteTopmostDialog(doThrow)
    \/ DeleteAllDialogs
    \/ \E src \in Dialogs \cup {NoDialog} : UserAction(src)

Spec == Init /\ [][Next]_vars

-----------------------------------------------------------------------------
(***************************************************************************)
(* Properties.                                                             *)
(***************************************************************************)

(***************************************************************************)
(* The stack holds exactly the live dialogs, each once: no deleted dialog  *)
(* is left on it (a dangling pointer) and no live one is missing, whatever *)
(* mix of destroy(), deleteTopmostDialog(), deleteTo() and                 *)
(* deleteAllDialogs() the application used.                                *)
(***************************************************************************)
StackHoldsLiveDialogs ==
    /\ {stack[i] : i \in 1 .. Len(stack)} = Live
    /\ \A i, j \in 1 .. Len(stack) : stack[i] = stack[j] => i = j

(***************************************************************************)
(* An event handed to the application by waitForEvent() or pollEvent()    *)
(* belongs to the dialog that asked, and that dialog was the topmost one:  *)
(* events queued for a dialog that is later covered or deleted are never   *)
(* delivered to another one.                                               *)
(***************************************************************************)
EventsOnlyForAsker ==
    [][result'.outcome = "event" =>
         /\ result'.src \in {result'.asker, NoDialog}
         /\ IsTopmost(result'.asker)]_vars

(***************************************************************************)
(* The spec (section 3, Dialog Stack): the stack is the sequence of open   *)
(* dialogs and grows on open(), so every dialog on it has been opened.     *)
(* The code pushes in the constructor (_dialogStack holds "all currently   *)
(* existing dialogs"), so a dialog not yet opened is on it, and topmost.  *)
(***************************************************************************)
StackHoldsOpenDialogs ==
    \A i \in 1 .. Len(stack) : status[stack[i]] = "open"

(***************************************************************************)
(* A call on a dialog d that shrinks the stack (destroy() of d, deleteTo(  *)
(* d )) deletes d and exactly the dialogs above it: d was the lowest entry *)
(* popped and every entry below it stays where it was.  Stopping one      *)
(* dialog short or one too far, or destroying the topmost dialog when d   *)
(* is not topmost, breaks it while the stack still holds only live        *)
(* dialogs.                                                                *)
(***************************************************************************)
DeletesDownToDialog ==
    [][result'.asker \in Dialogs /\ Len(stack') < Len(stack) =>
         /\ stack[Len(stack') + 1] = result'.asker
         /\ stack' = SubSeq(stack, 1, Len(stack'))]_vars

=============================================================================
