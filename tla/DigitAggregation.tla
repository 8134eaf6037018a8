-------------------------- MODULE DigitAggregation --------------------------
(***************************************************************************)
(* From a detector to the client: the digits (and bfsk bits) of one audio  *)
(* endpoint (src/src/sip.cpp).  With an inter-digit timer a detector, in a *)
(* media thread, puts the digit in the buffer of its mode; the             *)
(* digit_buffer_thread turns a buffer that has been quiet for longer than  *)
(* the timer into one event.  With no timer the detector itself pushes an  *)
(* event, and does so without the lock.  The main thread pushes the events *)
(* of the call, and hands events to the client, under the lock.            *)
(*                                                                         *)
(* Steps under g_mutex are single actions; the unlocked push_back is two,  *)
(* the reading of the end of the deque and the writing behind it.  Where   *)
(* two threads push at once the deque may lose what either pushed; that it *)
(* may also be malformed and the server crash is left out.                 *)
(***************************************************************************)
EXTENDS Integers, Sequences, SequencesExt

CONSTANTS Uses,        \* what calls are used for: [channels, timers, others], the detectors
                       \* at work, the values the timers are given (0 is aggregation
                       \* off), bounds on the other events of the call and on the
                       \* digits of each detector, and when it starts, in ms
          MAXDIGITS,
          DayMs,       \* milliseconds in a day, after which timestamps restart
          LastDigitMs, \* bound: the last digit, in ms since the start of the call
          LastMs,      \* bound: the end of time, in ms since the start of the call
          MaxDetected  \* bound: digits of a detector

Channels == {"rfc2833", "inband", "bfsk"}

ASSUME DigitAssumption ==
  /\ \A u \in Uses : /\ u.channels \subseteq Channels /\ u.timers \subseteq Nat
                     /\ u.others \in Nat /\ u.digits \in 0 .. MaxDetected
                     /\ u.first \in Nat
  /\ MAXDIGITS \in Nat /\ DayMs \in Nat \ {0}
  /\ LastMs \in Nat /\ LastDigitMs \in Nat
  /\ MaxDetected \in Nat

VARIABLES use,        \* what this call is used for; it does not change
          timer,      \* g_dtmf_inter_digit_timer and g_bfsk_inter_bit_timer
          has_id,     \* the call is in g_call_ids
          pc,         \* what the detector of each channel is about to do
          slot,       \* the end of g_events as a detector has read it
          Buffers, timestamp,
          now,        \* the clock, in ms
          g_events,   \* waiting events
          popped,     \* how many events have left g_events
          detected,   \* history: digits of each channel are 1, 2, ...
          handed,     \* history: digits handed to the client
          dropped,    \* history: digits that a full buffer has cost
          touched,    \* history: the time of the last digit of each buffer
          parked,     \* history: digits that waited when their timer was switched off
          clashed,    \* history: digits pushed while another thread pushed as well
          others       \* history: other events pushed

detector_vars == <<use, timer, has_id, pc, slot, Buffers, timestamp, now, g_events, popped,
                   detected, handed, dropped, touched, parked, clashed, others>>

detector == <<pc, slot, detected>>
buffer == <<Buffers, timestamp, dropped, touched>>
queue == <<g_events, popped, handed, others>>
faults == <<parked, clashed>>

Nul == 0

Kind(c) == IF c = "bfsk" THEN "bfsk" ELSE "dtmf"

TimerOf(c) == timer[Kind(c)]

DetectorInit == /\ use \in Uses
                /\ timer \in [{"dtmf", "bfsk"} -> use.timers]
                /\ has_id = TRUE
                /\ pc = [c \in Channels |-> "idle"]
                /\ slot = [c \in Channels |-> 0]
                /\ Buffers = [c \in Channels |-> <<>>]
                /\ timestamp = [c \in Channels |-> 0]
                /\ now = use.first
                /\ g_events = <<>>
                /\ popped = 0
                /\ detected = [c \in Channels |-> 0]
                /\ handed = [c \in Channels |-> <<>>]
                /\ dropped = [c \in Channels |-> {}]
                /\ touched = [c \in Channels |-> 0]
                /\ parked = [c \in Channels |-> {}]
                /\ clashed = [c \in Channels |-> {}]
                /\ others = 0

-----------------------------------------------------------------------------
ms_timestamp == now % DayMs

\* A slip: the first digit of a burst sets the time, later ones do not.
TouchOnce(c) == timestamp' = [timestamp EXCEPT ![c] = IF @ = 0 THEN ms_timestamp ELSE @]

Touch(c) == timestamp' = [timestamp EXCEPT ![c] = ms_timestamp]

\* on_dtmf(), on_inband_dtmf(), on_bfsk_bit() up to the test of the timer, which is
\* read without the lock.
Detect(c) ==
  /\ has_id
  /\ c \in use.channels
  /\ now <= use.first + LastDigitMs
  /\ detected[c] < use.digits
  /\ pc[c] = "idle"
  /\ detected' = [detected EXCEPT ![c] = @ + 1]
  /\ pc' = [pc EXCEPT ![c] = IF TimerOf(c) > 0 THEN "buffering" ELSE "reporting"]
  /\ UNCHANGED <<use, timer, has_id, slot, now, buffer, queue, faults>>

\* The digit enters the buffer, or is dropped when that is full.
Buffer(c) ==
  /\ pc[c] = "buffering"
  /\ \/ /\ Len(Buffers[c]) <= MAXDIGITS
        /\ Buffers' = [Buffers EXCEPT ![c] = Append(@, detected[c])]
        /\ Touch(c)
        /\ touched' = [touched EXCEPT ![c] = now]
        /\ UNCHANGED dropped
     \/ /\ Len(Buffers[c]) > MAXDIGITS
        /\ dropped' = [dropped EXCEPT ![c] = @ \cup {detected[c]}]
        /\ UNCHANGED <<Buffers, timestamp, touched>>
  /\ pc' = [pc EXCEPT ![c] = "idle"]
  /\ UNCHANGED <<use, timer, has_id, slot, now, detected, queue, faults>>

Event(c, digits) == [chan |-> c, digits |-> digits]

\* The channels whose detector is in the middle of a push.
Pushing == {c \in Channels : pc[c] = "pushing"}

\* The digits S[c] are being pushed while another thread pushes.
Clash(S) == clashed' = [c \in Channels |-> clashed[c] \cup S[c]]

InHand(c) == IF pc[c] = "idle" THEN {} ELSE {detected[c]}

\* The digits that the detectors of D hold.
HeldBy(D) == [c \in Channels |-> IF c \in D THEN InHand(c) ELSE {}]

\* dispatch_event() in the media thread, first half: where the deque ends.
BeginPush(c) ==
  /\ pc[c] = "reporting"
  /\ slot' = [slot EXCEPT ![c] = popped + Len(g_events)]
  /\ pc' = [pc EXCEPT ![c] = "pushing"]
  /\ IF Pushing # {} THEN Clash(HeldBy(Pushing \cup {c})) ELSE UNCHANGED clashed
  /\ UNCHANGED <<use, timer, has_id, now, detected, parked, buffer, queue>>

\* What was in the deque when the detector read its end, at s.
Prefix(s) == SubSeq(g_events, 1, Min({s - popped, Len(g_events)}))

\* The deque once e is written at s: if the end has moved since, e or what was pushed
\* meanwhile may be gone.
Pushed(s, e) ==
  IF s = popped + Len(g_events) THEN {Append(g_events, e)}
  ELSE {g_events, Append(g_events, e), Prefix(s), Append(Prefix(s), e)}

EndPush(c) == /\ pc[c] = "pushing"
              /\ g_events' \in Pushed(slot[c], Event(c, <<detected[c]>>))
              /\ pc' = [pc EXCEPT ![c] = "idle"]
              /\ UNCHANGED <<use, timer, has_id, slot, now, detected, popped, handed,
                             others, buffer, faults>>

-----------------------------------------------------------------------------
\* When check_digit_buffer() and check_bit_buffer() find a buffer quiet.
Due(c) == timestamp[c] > 0 /\ ms_timestamp - timestamp[c] > TimerOf(c)

\* A full buffer is closed with a NUL one past its end: for rfc2833 that is the first
\* place of the inband buffer, for inband and bfsk nothing in use.
Overrun == Due("rfc2833") /\ Len(Buffers["rfc2833"]) > MAXDIGITS

Contents(c) == IF c = "inband" /\ Overrun /\ Buffers[c] # <<>>
               THEN [Buffers[c] EXCEPT ![1] = Nul]
               ELSE Buffers[c]

\* "%.*s": the digits up to a NUL.
Printed(s) == LET k == SelectInSeq(s, LAMBDA d : d = Nul) IN
              IF k = 0 THEN s ELSE SubSeq(s, 1, k - 1)

Flushed(c) == IF Due(c) THEN <<Event(c, Printed(Contents(c)))>> ELSE <<>>

\* The digits that stand behind a NUL.
Cut(c) == IF Contents(c) # <<>> /\ Head(Contents(c)) = Nul THEN Range(Buffers[c]) ELSE {}

\* check_buffers() for the call: what is due is pushed.
Report ==
  /\ has_id
  /\ timer["dtmf"] > 0 \/ timer["bfsk"] > 0
  /\ g_events' = g_events \o Flushed("rfc2833") \o Flushed("inband") \o Flushed("bfsk")
  /\ dropped' = [c \in Channels |-> dropped[c] \cup Cut(c)]
  /\ IF Pushing # {} /\ \E c \in Channels : Due(c)
     THEN Clash([c \in Channels |->
                   HeldBy(Pushing)[c] \cup IF Due(c) THEN Range(Contents(c)) ELSE {}])
     ELSE UNCHANGED clashed
  /\ UNCHANGED <<use, timer, has_id, now, detector, touched, parked, popped, handed, others>>

\* Slips: the buffers are emptied whether due or not; a flushed buffer is kept; every
\* buffer is disarmed.
CheckAll == /\ Report
            /\ Buffers' = [c \in Channels |-> <<>>]
            /\ timestamp' = [c \in Channels |-> 0]

CheckKeepsDigits == /\ Report
                    /\ Buffers' = [c \in Channels |-> Contents(c)]
                    /\ timestamp' = [c \in Channels |-> IF Due(c) THEN 0 ELSE timestamp[c]]

CheckDisarms == /\ Report
                /\ Buffers' = [c \in Channels |-> IF Due(c) THEN <<>> ELSE Contents(c)]
                /\ timestamp' = [c \in Channels |-> 0]

\* One pass of digit_buffer_thread(); an ended call is not in the table it walks.
Check == /\ Report
         /\ Buffers' = [c \in Channels |-> IF Due(c) THEN <<>> ELSE Contents(c)]
         /\ timestamp' = [c \in Channels |-> IF Due(c) THEN 0 ELSE timestamp[c]]

-----------------------------------------------------------------------------
\* The digits of a channel that wait for its timer, or are about to.
Waiting(c) == Range(Buffers[c]) \cup IF pc[c] = "buffering" THEN {detected[c]} ELSE {}

\* pjw_dtmf_aggregation_on/off(), pjw_bfsk_aggregation_on/off().
SetTimer(kind, t) ==
  /\ timer' = [timer EXCEPT ![kind] = t]
  /\ parked' = [c \in Channels |-> IF Kind(c) = kind /\ t = 0 THEN parked[c] \cup Waiting(c)
                                                           ELSE parked[c]]
  /\ UNCHANGED <<use, has_id, now, clashed, detector, buffer, queue>>

\* Any other event of the call, dispatched by the main thread.
OtherEvent == /\ others < use.others
              /\ others' = others + 1
              /\ g_events' = Append(g_events, Event("call", <<>>))
              /\ Clash(HeldBy(Pushing))
              /\ UNCHANGED <<use, timer, has_id, now, detector, buffer, parked, popped,
                             handed>>

\* on_state_changed(): the call leaves g_call_ids.
EndCall == /\ has_id
           /\ has_id' = FALSE
           /\ UNCHANGED <<use, timer, now, detector, buffer, queue, faults>>

\* __pjw_poll().
Poll == /\ g_events # <<>>
        /\ LET e == Head(g_events) IN
           handed' = [c \in Channels |-> IF c = e.chan THEN handed[c] \o e.digits ELSE handed[c]]
        /\ g_events' = Tail(g_events)
        /\ popped' = popped + 1
        /\ UNCHANGED <<use, timer, has_id, now, others, detector, buffer, faults>>

\* The bound on time leaves room for a timer to run out after the last digit.
Tick == /\ now < use.first + LastMs
        /\ now >= use.first + LastDigitMs => \A c \in Channels : pc[c] = "idle"
        /\ now' = now + 1
        /\ UNCHANGED <<use, timer, has_id, detector, buffer, queue, faults>>

Detector(c) == Buffer(c) \/ BeginPush(c) \/ EndPush(c)

DetectorNext == \/ \E c \in Channels : Detect(c) \/ Detector(c)
                \/ Check
                \/ \E kind \in {"dtmf", "bfsk"}, t \in use.timers : SetTimer(kind, t)
                \/ OtherEvent
                \/ EndCall
                \/ Poll
                \/ Tick

\* Time passes and every thread gets to run: the detectors finish what they began,
\* the checker wakes every 100 ms, the main thread polls every 50 ms.
Fairness == /\ WF_detector_vars(Tick)
            /\ WF_detector_vars(Check)
            /\ WF_detector_vars(Poll)
            /\ \A c \in Channels : WF_detector_vars(Detector(c))

DetectorSpec == DetectorInit /\ [][DetectorNext]_detector_vars /\ Fairness

-----------------------------------------------------------------------------
Digits == 0 .. MaxDetected

DetectorTypeOK ==
  /\ use \in Uses
  /\ timer \in [{"dtmf", "bfsk"} -> use.timers]
  /\ has_id \in BOOLEAN
  /\ pc \in [Channels -> {"idle", "buffering", "reporting", "pushing"}]
  /\ slot \in [Channels -> Nat]
  /\ Buffers \in [Channels -> Seq(Digits)]
  /\ \A c \in Channels : Len(Buffers[c]) <= MAXDIGITS + 1
  /\ timestamp \in [Channels -> 0 .. DayMs - 1]
  /\ now \in Nat
  /\ g_events \in Seq([chan : Channels \cup {"call"}, digits : Seq(Digits)])
  /\ popped \in Nat
  /\ detected \in [Channels -> Digits]
  /\ handed \in [Channels -> Seq(Digits)]
  /\ dropped \in [Channels -> SUBSET Digits]
  /\ touched \in [Channels -> Nat]
  /\ parked \in [Channels -> SUBSET Digits]
  /\ clashed \in [Channels -> SUBSET Digits]
  /\ others \in 0 .. use.others

\* The digits of channel c that the n-th of the waiting events carries.
Carried(c, n) == IF g_events[n].chan = c THEN g_events[n].digits ELSE <<>>

\* The digits told, about to be told and buffered.
Kept(c) == Range(handed[c]) \cup Range(Buffers[c])
             \cup UNION {Range(Carried(c, n)) : n \in DOMAIN g_events}

(***************************************************************************)
(* Each detected digit is somewhere: in the detector's hands, in the       *)
(* buffer, in an event or with the client.  What may be gone is what a     *)
(* full buffer has cost (digits that found it full, and are logged, and    *)
(* inband digits that shared a buffer with a place which closing a full    *)
(* rfc2833 buffer overwrote) and digits whose event was pushed while       *)
(* another thread pushed one (dispatch_event takes no lock).  No other     *)
(* interleaving of detectors, checker, main thread and commands loses one. *)
(***************************************************************************)
NothingLost ==
  \A c \in Channels :
     1 .. detected[c] \subseteq Kept(c) \cup InHand(c) \cup dropped[c] \cup clashed[c]

\* Digit n may be told after digit m, where digits of late may be overtaken.
Follows(late, m, n) == m < n \/ n = Nul \/ (n \in late /\ n # m)

Ascending(late, s) == \A j, k \in DOMAIN s : j < k => Follows(late, s[j], s[k])

Before(late, s, t) == \A j \in DOMAIN s, k \in DOMAIN t : Follows(late, s[j], t[k])

\* What the client was told comes first, then the events that wait, then the buffer.
Queued(c) ==
  /\ Ascending(parked[c], handed[c])
  /\ Ascending(parked[c], Buffers[c])
  /\ Before(parked[c], handed[c], Buffers[c])
  /\ \A n \in DOMAIN g_events : /\ Ascending(parked[c], Carried(c, n))
                                /\ Before(parked[c], handed[c], Carried(c, n))
                                /\ Before(parked[c], Carried(c, n), Buffers[c])
  /\ \A m, n \in DOMAIN g_events :
       m < n => Before(parked[c], Carried(c, m), Carried(c, n))

(***************************************************************************)
(* The digits of a channel reach the client in the order they were         *)
(* detected, none twice; but for digits that waited for their timer when   *)
(* it was switched off, which later ones may overtake (on_dtmf,            *)
(* on_inband_dtmf and on_bfsk_bit then push at once).                      *)
(***************************************************************************)
InOrder == \A c \in Channels : Queued(c)

\* Digits wait, and none has come for longer than the timer.
Quiet(c) == Buffers[c] # <<>> /\ now - touched[c] > TimerOf(c)

(***************************************************************************)
(* A burst is reported whole: its buffer is emptied only once no digit has *)
(* come for longer than the timer, whatever the other buffers are at and   *)
(* however the timers are changed (check_digit_buffer, check_bit_buffer).  *)
(***************************************************************************)
BurstsStayWhole ==
  [][\A c \in Channels :
       Buffers[c] # <<>> /\ Buffers'[c] = <<>> => Quiet(c)]_detector_vars

Settled(c, n) == n \in Range(handed[c]) \cup dropped[c] \cup clashed[c]

Waits(c, n) == n \in Range(Buffers[c])

TimerSet == timer["dtmf"] > 0 \/ timer["bfsk"] > 0

\* The day has changed since the last digit of the buffer, or it came at midnight sharp.
PastMidnight(c) == touched[c] \div DayMs < now \div DayMs \/ touched[c] % DayMs = 0

(***************************************************************************)
(* Every digit is reported in the end, unless it is one of those that may  *)
(* be lost, or waits in a buffer when the call ends, when midnight passes, *)
(* or while no timer is set.  In the last case it is reported once a timer *)
(* is set for good.                                                        *)
(***************************************************************************)
EveryDigitReported ==
  \A c \in Channels, n \in 1 .. MaxDetected :
     <>[](Waits(c, n) => TimerSet) =>
       (n <= detected[c] ~> \/ Settled(c, n)
                            \/ Waits(c, n) /\ (~has_id \/ PastMidnight(c)))
=============================================================================
