------------------------------ MODULE DOMTimer ------------------------------
(***************************************************************************)
(* WebCore::DOMTimer (page/DOMTimer.cpp): setTimeout/setInterval timers of *)
(* one Document, their nesting level, interval clamping and throttling,    *)
(* and the tracking of one-shot timers installed by a one-shot timer's     *)
(* action (NestedTimersMap).                                               *)
(*                                                                         *)
(* The context is a Document or a worker (WorkerGlobalScope), fixed for a  *)
(* behaviour (isDocument).  A worker takes none of the Document-only       *)
(* branches: no NestedTimersMap, no DOMTimerFireState::current chain, no   *)
(* DOM tree and no throttling state updates.                               *)
(*                                                                         *)
(* Timers are object slots; a destroyed DOMTimer frees its slot.  The      *)
(* collaborators that are not in DOMTimer.cpp are abstracted:              *)
(*  - ScriptExecutionContext: the m_timeouts map (status = "live" for a     *)
(*    timer in it), circularSequentialID (seqId) and timerNestingLevel;    *)
(*  - SuspendableTimer/TimerBase: active (scheduled) and sched, the        *)
(*    interval it runs on (the repeat interval, or the delay of the one    *)
(*    pending fire of a one-shot timer);                                   *)
(*  - ScheduledAction::execute: the script run by a fired timer, a         *)
(*    sequence of Script* steps while its frame is on top of the stack.    *)
(* A fired() call is two steps, FireBegin (up to execute) and FireEnd      *)
(* (after it).  stack holds the frames of the fired() calls in progress;   *)
(* its frames are also the DOMTimerFireState chain (current = the top).    *)
(***************************************************************************)
EXTENDS Integers, Sequences, FiniteSets

CONSTANTS
    Timers,             \* DOMTimer object slots, 1..N
    NumIds,             \* circularSequentialID cycles through 1..NumIds
    Intervals,          \* intervals (ms) script passes to setTimeout/setInterval
    MinimumTimerInterval, \* ScriptExecutionContext::minimumTimerInterval()
    MaxDomChanges,      \* bound on domTreeVersion
    MaxFireDepth,       \* bound on nested fired() calls; above 1 another
                        \* Document's timer fires inside this context's
                        \* timer action (in-process Web Inspector)
    DocumentContexts    \* values is<Document>(context) may have

ASSUME Timers = 1..Cardinality(Timers) /\ NumIds >= Cardinality(Timers) /\ MaxFireDepth >= 1
       /\ DocumentContexts \subseteq BOOLEAN /\ DocumentContexts # {}

\* DOMTimer.cpp lines 55-57
maxIntervalForUserGestureForwarding == 1000
minIntervalForNonUserObservableChangeTimers == 1000
maxTimerNestingLevel == 5

Ids == 1..NumIds
NoTimer == 0
Throttles == {"Undetermined", "ShouldThrottle", "ShouldNotThrottle"}

VARIABLES
    status,     \* "free" | "live" (in m_timeouts) | "zombie" (removed, kept by fired())
    tid,        \* m_timeoutId
    single,     \* one-shot (setTimeout) or repeating (setInterval)
    orig,       \* m_originalInterval
    nesting,    \* m_nestingLevel
    throttle,   \* m_throttleState
    current,    \* m_currentTimerInterval
    gesture,    \* m_userGestureTokenToForward is non-null
    active,     \* TimerBase::isActive()
    sched,      \* TimerBase interval
    ctxNesting, \* context.timerNestingLevel()
    seqId,      \* context.circularSequentialID() counter
    tracking,   \* NestedTimersMap::isTrackingNestedTimers
    nestedMap,  \* NestedTimersMap::nestedTimers: timeout id -> timer
    stack,      \* fired() frames in progress (DOMTimerFireState)
    domVersion, \* document.domTreeVersion()
    throttlingEnabled, \* settings().domTimersThrottlingEnabled()
    isDocument  \* is<Document>(context)

timerVars == <<status, tid, single, orig, nesting, throttle, current, gesture, active, sched>>
vars == <<timerVars, ctxNesting, seqId, tracking, nestedMap, stack, domVersion, throttlingEnabled, isDocument>>

MaxOf(a, b) == IF a >= b THEN a ELSE b
MinOf(a, b) == IF a <= b THEN a ELSE b

-----------------------------------------------------------------------------
(* Pure helpers of DOMTimer.cpp.                                           *)

\* intervalClampedToMinimum() for a timer at nesting level n in state th
\* with original interval iv.
Clamped(n, th, iv) ==
    LET base == MaxOf(1, iv) IN
    IF n < maxTimerNestingLevel THEN base
    ELSE MaxOf(MaxOf(base, MinimumTimerInterval),
               IF th = "ShouldThrottle" THEN minIntervalForNonUserObservableChangeTimers ELSE 0)

\* shouldForwardUserGesture(interval, nestingLevel)
ShouldForwardUserGesture(processing, iv, n) ==
    processing /\ iv <= maxIntervalForUserGestureForwarding /\ n = 0

\* Mutation: the nesting increment of fired() without its bound.
NextNestingUnbounded(n) == n + 1

\* fired(), repeating case: if (m_nestingLevel < max) m_nestingLevel++
NextNestingLevel(n) == IF n < maxTimerNestingLevel THEN n + 1 ELSE n

\* The id the do { circularSequentialID() } while (!addTimeout) loop
\* settles on, starting after counter k: the first id of the cycle that no
\* timer in m_timeouts has.  The loop only ends when one is free.
RECURSIVE FreeIdAfter(_, _)
FreeIdAfter(k, tries) ==
    LET c == (k % NumIds) + 1 IN
    IF \A t \in Timers : ~(status[t] = "live" /\ tid[t] = c) THEN c
    ELSE IF tries = 1 THEN 0 ELSE FreeIdAfter(c, tries - 1)

\* DOMTimerFireState(context) for timer t: it records the DOM tree version
\* and starts with no observed changes; fired() also keeps t's forwarded
\* gesture token for the duration of the frame (UserGestureIndicator).
NewFireState(t) ==
    [timer |-> t, oneShot |-> single[t], initialDom |-> domVersion,
     userObs |-> FALSE, nonUserObs |-> FALSE, gesture |-> gesture[t]]

\* The DOMTimerFireState of another Document's one-shot timer firing in a
\* nested run loop: it holds no timer of this context, and this context's
\* script does not run while it is on top.
ForeignFireState ==
    [timer |-> NoTimer, oneShot |-> TRUE, initialDom |-> domVersion,
     userObs |-> FALSE, nonUserObs |-> FALSE, gesture |-> FALSE]

\* NestedTimersMap::instanceForContext(context): the process-wide map for
\* a Document, nullptr for a worker.
HasNestedTimersMap == isDocument

\* NestedTimersMap after startTracking() or stopTracking(): cleared.
NoNestedTimers == [i \in Ids |-> NoTimer]

\* NestedTimersMap::add(id, t): HashMap::add, only while tracking, and
\* keeping an entry already under that id.
TrackAdd(id, t) ==
    IF tracking /\ nestedMap[id] = NoTimer THEN [nestedMap EXCEPT ![id] = t] ELSE nestedMap

\* NestedTimersMap::remove(id), only while tracking.
TrackRemove(id) ==
    IF tracking THEN [nestedMap EXCEPT ![id] = NoTimer] ELSE nestedMap

\* The timer a frame fires and the timers some frame still holds.
OnStack(t) == \E i \in 1..Len(stack) : stack[i].timer = t

\* The top fired() frame is another Document's: script of this context is
\* suspended until it returns.
ForeignOnTop == stack # <<>> /\ stack[Len(stack)].timer = NoTimer

\* DOMTimerFireState::scriptMadeUserObservableChanges(): the DOM tree
\* version is compared only when contextDocument() is non-null.
UserObservable(f) == f.userObs \/ (isDocument /\ domVersion # f.initialDom)

\* DOMTimerFireState::current is non-null: the constructor links a frame
\* into the chain only for a Document.
FireStateCurrent == isDocument /\ stack # <<>>

\* UserGestureIndicator::processingUserGesture() inside a fired() call: a
\* frame with a forwarded token sets it; top-level script passes it in.
GestureInFrames == \E i \in 1..Len(stack) : stack[i].gesture

-----------------------------------------------------------------------------
(* Interval and throttling updates.                                        *)

\* Mutation: updateTimerIntervalIfNecessary() that forgets to tell the
\* TimerBase (no augmentRepeatInterval/augmentFireInterval).
IntervalUpdateNoAugment(t, n, th) ==
    [cur |-> Clamped(n, th, orig[t]), sched |-> sched[t]]

\* updateTimerIntervalIfNecessary(): the new m_currentTimerInterval and
\* the TimerBase interval moved by the same delta (augment*Interval).
IntervalUpdate(t, n, th) ==
    LET newI == Clamped(n, th, orig[t]) IN
    [cur |-> newI, sched |-> sched[t] + (newI - current[t])]

\* Mutation: updateThrottlingStateIfNecessary returning at once when the
\* setting is off, without unthrottling a timer throttled before.
NewThrottleKeptWhenDisabled(f, t) ==
    IF ~isDocument \/ ~throttlingEnabled THEN throttle[t]
    ELSE IF UserObservable(f) THEN "ShouldNotThrottle"
    ELSE IF f.nonUserObs THEN "ShouldThrottle"
    ELSE throttle[t]

\* The m_throttleState that updateThrottlingStateIfNecessary(f) leaves on t:
\* unchanged for a worker (no contextDocument).
NewThrottle(f, t) ==
    IF ~isDocument THEN throttle[t]
    ELSE IF ~throttlingEnabled
    THEN IF throttle[t] = "ShouldThrottle" THEN "ShouldNotThrottle" ELSE throttle[t]
    ELSE IF UserObservable(f) THEN "ShouldNotThrottle"
    ELSE IF f.nonUserObs THEN "ShouldThrottle"
    ELSE throttle[t]

-----------------------------------------------------------------------------
Init ==
    /\ status = [t \in Timers |-> "free"]
    /\ tid = [t \in Timers |-> 0]
    /\ single = [t \in Timers |-> FALSE]
    /\ orig = [t \in Timers |-> 0]
    /\ nesting = [t \in Timers |-> 0]
    /\ throttle = [t \in Timers |-> "Undetermined"]
    /\ current = [t \in Timers |-> 0]
    /\ gesture = [t \in Timers |-> FALSE]
    /\ active = [t \in Timers |-> FALSE]
    /\ sched = [t \in Timers |-> 0]
    /\ ctxNesting = 0
    /\ seqId = 0
    /\ tracking = FALSE
    /\ nestedMap = NoNestedTimers
    /\ stack = <<>>
    /\ domVersion = 0
    /\ throttlingEnabled \in BOOLEAN
    /\ isDocument \in DocumentContexts

\* ~DOMTimer of timer t: its slot is free again and its TimerBase stopped.
Destroy(t) ==
    /\ status' = [status EXCEPT ![t] = "free"]
    /\ tid' = [tid EXCEPT ![t] = 0]
    /\ single' = [single EXCEPT ![t] = FALSE]
    /\ orig' = [orig EXCEPT ![t] = 0]
    /\ nesting' = [nesting EXCEPT ![t] = 0]
    /\ throttle' = [throttle EXCEPT ![t] = "Undetermined"]
    /\ current' = [current EXCEPT ![t] = 0]
    /\ gesture' = [gesture EXCEPT ![t] = FALSE]
    /\ active' = [active EXCEPT ![t] = FALSE]
    /\ sched' = [sched EXCEPT ![t] = 0]

-----------------------------------------------------------------------------
(* Script: DOMTimer::install and DOMTimer::removeById, run by top-level    *)
(* script (stack empty) or by a fired timer's action (top frame).          *)

\* DOMTimer::install(context, action, timeout, singleShot) with the
\* constructor: g is processingUserGesture() of top-level script.
Install(iv, isSingle, g) ==
    LET t    == CHOOSE u \in Timers : status[u] = "free" /\ \A v \in 1..(u - 1) : status[v] # "free"
        lvl  == ctxNesting
        id   == FreeIdAfter(seqId, NumIds)
        proc == IF stack = <<>> THEN g ELSE GestureInFrames
        cur  == Clamped(lvl, "Undetermined", iv)
    IN
    /\ ~ForeignOnTop
    /\ \E u \in Timers : status[u] = "free"
    /\ id # 0
    /\ status' = [status EXCEPT ![t] = "live"]
    /\ tid' = [tid EXCEPT ![t] = id]
    /\ single' = [single EXCEPT ![t] = isSingle]
    /\ orig' = [orig EXCEPT ![t] = iv]
    /\ nesting' = [nesting EXCEPT ![t] = lvl]
    /\ throttle' = [throttle EXCEPT ![t] = "Undetermined"]
    /\ current' = [current EXCEPT ![t] = cur]
    /\ gesture' = [gesture EXCEPT ![t] = ShouldForwardUserGesture(proc, iv, lvl)]
    /\ active' = [active EXCEPT ![t] = TRUE]
    /\ sched' = [sched EXCEPT ![t] = cur]
    /\ seqId' = id
    /\ nestedMap' = IF HasNestedTimersMap THEN TrackAdd(id, t) ELSE nestedMap
    /\ UNCHANGED <<ctxNesting, tracking, stack, domVersion, throttlingEnabled, isDocument>>

\* context.removeTimeout(id): the timer leaves m_timeouts; it is destroyed
\* unless a fired() frame still holds its RefPtr.
RemoveTimeout(id) ==
    IF \E t \in Timers : status[t] = "live" /\ tid[t] = id
    THEN LET t == CHOOSE u \in Timers : status[u] = "live" /\ tid[u] = id IN
         IF OnStack(t)
         THEN /\ status' = [status EXCEPT ![t] = "zombie"]
              /\ UNCHANGED <<tid, single, orig, nesting, throttle, current, gesture, active, sched>>
         ELSE Destroy(t)
    ELSE UNCHANGED timerVars

\* Mutation: removeById that forgets nestedTimers->remove(timeoutId).
RemoveByIdKeepNested(id) ==
    /\ ~ForeignOnTop
    /\ RemoveTimeout(id)
    /\ UNCHANGED <<ctxNesting, seqId, tracking, nestedMap, stack, domVersion, throttlingEnabled, isDocument>>

\* DOMTimer::removeById(context, timeoutId), timeoutId > 0.
RemoveById(id) ==
    /\ ~ForeignOnTop
    /\ nestedMap' = IF HasNestedTimersMap THEN TrackRemove(id) ELSE nestedMap
    /\ RemoveTimeout(id)
    /\ UNCHANGED <<ctxNesting, seqId, tracking, stack, domVersion, throttlingEnabled, isDocument>>

\* Script changes the DOM tree (domTreeVersion increases).
DomChange ==
    /\ isDocument
    /\ domVersion < MaxDomChanges
    /\ domVersion' = domVersion + 1
    /\ UNCHANGED <<timerVars, ctxNesting, seqId, tracking, nestedMap, stack, throttlingEnabled, isDocument>>

\* DOMTimer::scriptDidInteractWithPlugin: marks DOMTimerFireState::current.
ScriptDidInteractWithPlugin(userObservable) ==
    /\ FireStateCurrent
    /\ ~ForeignOnTop
    /\ LET top == Len(stack) IN
       stack' = [stack EXCEPT ![top] =
                    IF userObservable THEN [@ EXCEPT !.userObs = TRUE]
                    ELSE [@ EXCEPT !.nonUserObs = TRUE]]
    /\ UNCHANGED <<timerVars, ctxNesting, seqId, tracking, nestedMap, domVersion, throttlingEnabled, isDocument>>

\* The page's domTimersThrottlingEnabled setting changes.
SetThrottlingEnabled(b) ==
    /\ throttlingEnabled' = b
    /\ UNCHANGED <<timerVars, ctxNesting, seqId, tracking, nestedMap, stack, domVersion, isDocument>>

-----------------------------------------------------------------------------
(* DOMTimer::fired(), called by the run loop when a timer is due.          *)

\* The one-shot timers in NestedTimersMap still pending (timer->isActive()
\* && !timer->repeatInterval()).
NestedOneShots ==
    {nestedMap[i] : i \in {j \in Ids : nestedMap[j] # NoTimer}}
        \cap {u \in Timers : active[u] /\ single[u]}

\* fired() up to m_action->execute(context).  A repeating timer is still
\* active (TimerBase rescheduled it before calling fired()); a one-shot one
\* is not, and is taken out of m_timeouts before its action runs.  The
\* run loop fires this context's timers from the top level only: while a
\* nested run loop runs, the context is suspended (the ASSERTs on
\* isSuspended and activeDOMObjectsAreSuspended).
FireBegin(t) ==
    /\ status[t] \in {"live", "zombie"}
    /\ active[t]
    /\ stack = <<>>
    /\ LET n     == nesting[t]
           frame == NewFireState(t)
       IN
       /\ stack' = Append(stack, frame)
       /\ ctxNesting' = MinOf(n + 1, maxTimerNestingLevel)
       /\ gesture' = [gesture EXCEPT ![t] = FALSE]
       /\ IF ~single[t]
          THEN LET n2  == NextNestingLevel(n)
                   upd == IntervalUpdate(t, n2, throttle[t])
               IN /\ nesting' = [nesting EXCEPT ![t] = n2]
                  /\ IF n < maxTimerNestingLevel
                     THEN /\ current' = [current EXCEPT ![t] = upd.cur]
                          /\ sched' = [sched EXCEPT ![t] = upd.sched]
                     ELSE UNCHANGED <<current, sched>>
                  /\ UNCHANGED <<status, active, tracking, nestedMap>>
          ELSE /\ active' = [active EXCEPT ![t] = FALSE]
               /\ status' = [status EXCEPT ![t] = "zombie"]
               /\ tracking' = IF HasNestedTimersMap THEN TRUE ELSE tracking
               /\ nestedMap' = IF HasNestedTimersMap THEN NoNestedTimers ELSE nestedMap
               /\ UNCHANGED <<nesting, current, sched>>
    /\ UNCHANGED <<tid, single, orig, throttle, seqId, domVersion, throttlingEnabled, isDocument>>

\* RefPtr<DOMTimer> reference goes out of scope at the end of fired(): the
\* timer is destroyed when it is no longer in m_timeouts and no outer
\* fired() frame holds another reference to it.
ReleasedByFrame(t, rest) ==
    status[t] = "zombie" /\ \A i \in 1..Len(rest) : rest[i].timer # t

\* fn with timer t's field set back to v when the timer dies.
Reset(fn, t, v, dies) == IF dies THEN [fn EXCEPT ![t] = v] ELSE fn

\* fired() after execute: a repeating timer updates its own throttling
\* state and returns; a one-shot timer updates that of the nested one-shot
\* timers and stops tracking (for a Document: a worker has no map) and
\* sets the nesting level back to 0.  The frame
\* drops its RefPtr: a timer no longer in m_timeouts is destroyed.
FireEnd ==
    /\ stack # <<>>
    /\ ~ForeignOnTop
    /\ LET f    == stack[Len(stack)]
           t    == f.timer
           rest == SubSeq(stack, 1, Len(stack) - 1)
           dies == ReleasedByFrame(t, rest)
           U    == IF ~f.oneShot THEN {t}
                   ELSE IF HasNestedTimersMap THEN NestedOneShots ELSE {}
           th1  == [u \in Timers |-> IF u \in U THEN NewThrottle(f, u) ELSE throttle[u]]
           chg  == {u \in U : th1[u] # throttle[u]}
           upd  == [u \in chg |-> IntervalUpdate(u, nesting[u], th1[u])]
           cur1 == [u \in Timers |-> IF u \in chg THEN upd[u].cur ELSE current[u]]
           sch1 == [u \in Timers |-> IF u \in chg THEN upd[u].sched ELSE sched[u]]
       IN
       /\ stack' = rest
       /\ throttle' = Reset(th1, t, "Undetermined", dies)
       /\ current' = Reset(cur1, t, 0, dies)
       /\ sched' = Reset(sch1, t, 0, dies)
       /\ status' = Reset(status, t, "free", dies)
       /\ tid' = Reset(tid, t, 0, dies)
       /\ single' = Reset(single, t, FALSE, dies)
       /\ orig' = Reset(orig, t, 0, dies)
       /\ nesting' = Reset(nesting, t, 0, dies)
       /\ gesture' = Reset(gesture, t, FALSE, dies)
       /\ active' = Reset(active, t, FALSE, dies)
       /\ tracking' = IF f.oneShot /\ HasNestedTimersMap THEN FALSE ELSE tracking
       /\ nestedMap' = IF f.oneShot /\ HasNestedTimersMap THEN NoNestedTimers ELSE nestedMap
       /\ ctxNesting' = IF f.oneShot THEN 0 ELSE ctxNesting
    /\ UNCHANGED <<seqId, domVersion, throttlingEnabled, isDocument>>

\* Another Document's one-shot timer fires inside this context's timer
\* action (the in-process Web Inspector case of the comment in
\* startTracking): its fired() links its DOMTimerFireState into the chain
\* and calls startTracking() on the one process-wide NestedTimersMap.
\* This context's timers and nesting level are another context's business.
ForeignFireBegin ==
    /\ isDocument
    /\ stack # <<>>
    /\ Len(stack) < MaxFireDepth
    /\ stack' = Append(stack, ForeignFireState)
    /\ tracking' = TRUE
    /\ nestedMap' = NoNestedTimers
    /\ UNCHANGED <<timerVars, ctxNesting, seqId, domVersion, throttlingEnabled, isDocument>>

\* That fired() after execute: its loop finds only its own script's timers
\* in the map, then stopTracking() clears the shared map and flag, and
\* ~DOMTimerFireState makes the outer frame current again.
ForeignFireEnd ==
    /\ ForeignOnTop
    /\ stack' = SubSeq(stack, 1, Len(stack) - 1)
    /\ tracking' = FALSE
    /\ nestedMap' = NoNestedTimers
    /\ UNCHANGED <<timerVars, ctxNesting, seqId, domVersion, throttlingEnabled, isDocument>>

-----------------------------------------------------------------------------
Next ==
    \/ \E iv \in Intervals, s \in BOOLEAN,
          g \in (IF stack = <<>> THEN BOOLEAN ELSE {FALSE}) : Install(iv, s, g)
    \/ \E id \in Ids : RemoveById(id)
    \/ DomChange
    \/ \E b \in BOOLEAN : ScriptDidInteractWithPlugin(b)
    \/ \E b \in BOOLEAN : SetThrottlingEnabled(b)
    \/ \E t \in Timers : FireBegin(t)
    \/ FireEnd
    \/ ForeignFireBegin
    \/ ForeignFireEnd

Spec == Init /\ [][Next]_vars

\* A fired() call in progress returns: its action is a finite script and
\* nothing in fired() after execute() waits (weak fairness of FireEnd and
\* of ForeignFireEnd).
\* The run loop fires a due timer: TimerBase keeps timers in a heap
\* ordered by fire time, so a timer that can fire again and again is not
\* passed over for ever by other timers that keep firing (strong fairness
\* of FireBegin(t), since it is disabled whenever a fired() call runs).
\* Script steps (Install, RemoveById, ...) get no fairness.
FairSpec == Spec /\ WF_vars(FireEnd) /\ WF_vars(ForeignFireEnd) /\ \A t \in Timers : SF_vars(FireBegin(t))

-----------------------------------------------------------------------------
(* Properties.                                                             *)

\* Types, with the nesting bounds the code ASSERTs
\* (m_nestingLevel <= maxTimerNestingLevel in updateTimerIntervalIfNecessary
\* and intervalClampedToMinimum): repeated fires of an interval timer and
\* chains of timers installed from timer actions never pass level 5.
TypeOK ==
    /\ status \in [Timers -> {"free", "live", "zombie"}]
    /\ tid \in [Timers -> 0..NumIds]
    /\ single \in [Timers -> BOOLEAN]
    /\ nesting \in [Timers -> 0..maxTimerNestingLevel]
    /\ throttle \in [Timers -> Throttles]
    /\ current \in [Timers -> Nat]
    /\ gesture \in [Timers -> BOOLEAN]
    /\ active \in [Timers -> BOOLEAN]
    /\ sched \in [Timers -> Int]
    /\ ctxNesting \in 0..maxTimerNestingLevel
    /\ tracking \in BOOLEAN
    /\ nestedMap \in [Ids -> Timers \cup {NoTimer}]
    /\ domVersion \in 0..MaxDomChanges

\* Every scheduled timer runs on the interval DOMTimer computed for it:
\* the TimerBase interval equals m_currentTimerInterval (the ASSERT of
\* updateTimerIntervalIfNecessary for repeating timers), and that equals
\* intervalClampedToMinimum() for the timer's present nesting level and
\* throttle state, however fires, nesting and throttling changes have
\* interleaved since it was installed.
IntervalConsistent ==
    \A t \in Timers :
        (status[t] # "free" /\ active[t]) =>
            /\ sched[t] = current[t]
            /\ current[t] = Clamped(nesting[t], throttle[t], orig[t])

\* NestedTimersMap holds entries only while a one-shot timer's action runs,
\* and every entry is a timer still in m_timeouts under that id: the loop
\* at the end of fired() never follows a pointer to a destroyed timer.
NestedMapSound ==
    /\ ~tracking => \A i \in Ids : nestedMap[i] = NoTimer
    /\ \A i \in Ids : nestedMap[i] # NoTimer =>
           status[nestedMap[i]] = "live" /\ tid[nestedMap[i]] = i

\* A timer installed by script that is not itself run by a timer is not
\* nested (comment at shouldForwardUserGesture: "Gestures should not be
\* forwarded to nested timers"): whenever no fired() call is in progress
\* the context's timer nesting level is 0.
IdleNestingLevelZero ==
    stack = <<>> => ctxNesting = 0

\* While a one-shot timer's action runs in a Document, NestedTimersMap
\* tracks the one-shot timers that action installs (startTracking before
\* execute, stopTracking after the loop at the end of fired()), so the
\* loop can throttle those that made no user-observable change.
NestedTrackingWhileOneShotRuns ==
    (isDocument /\ \E i \in 1..Len(stack) : stack[i].timer # NoTimer /\ stack[i].oneShot)
        => tracking

\* Turning domTimersThrottlingEnabled off lifts the throttle of every
\* throttled timer (the branch of updateThrottlingStateIfNecessary at
\* "throttling was disabled via settings"): unless the setting is turned
\* on again, a throttled timer is eventually unthrottled or destroyed.
\* Between the two it keeps its 1000 ms interval until it next fires.
ThrottleLiftedWhenDisabled ==
    \A t \in Timers :
        (throttle[t] = "ShouldThrottle" /\ ~throttlingEnabled)
            ~> (throttle[t] # "ShouldThrottle" \/ throttlingEnabled)

=============================================================================
