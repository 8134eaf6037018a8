------------------------- MODULE AudioEndpointProofs -------------------------
(***************************************************************************)
(* Proofs about what an audio endpoint does beside its stream: the ports   *)
(* of its features (AudioPorts), for any number of audio media, any        *)
(* features and any number of negotiations and commands; and its digit     *)
(* detectors (DigitAggregation), for any timers, buffers and times.        *)
(***************************************************************************)
EXTENDS AudioPorts, DigitAggregation, WellFoundedInduction, SequenceTheorems, TLAPS

-----------------------------------------------------------------------------
(***************************************************************************)
(* The feature ports.                                                      *)
(***************************************************************************)
Statuses == {"none", "made", "added", "linked"}
Ports == {"none", "made", "in", "stale", "lost"}
Clocks == {"none", "running", "stopped"}
Endpoint == [open : BOOLEAN, stream : {"none", "live", "destroyed"}, port : Ports,
             conf : BOOLEAN, clock : Clocks, feature : [Features -> Statuses]]

TypeOK ==
  /\ eps \in [Media -> Endpoint]
  /\ in_call \in BOOLEAN
  /\ line \in 0 .. N + 1
  /\ waiting \in [on : BOOLEAN, old : BOOLEAN, stopped : BOOLEAN]
  /\ told \in {"none", "ok", "setup_failed"}
  /\ updates \in 0 .. MaxUpdates
  /\ commands \in 0 .. MaxCommands
  /\ fault \in {"none", "port", "stream"} \cup Features
  /\ faulted \in 0 .. N
  /\ started \in [Media -> SUBSET Features]
  /\ soiled \in [Media -> SUBSET Features]
  /\ failed \in SUBSET Media
  /\ unnoticed \in SUBSET Media
  /\ overtaken \in BOOLEAN

(***************************************************************************)
(* The inductive invariant.  Its parts about one medium are stated for a   *)
(* medium e: an update works on one of them, and leaves the others as they *)
(* are.                                                                    *)
(***************************************************************************)
Ordered == /\ in_call => ~overtaken
           /\ ~in_call /\ ~overtaken => line = 0
           /\ waiting.on => line \in Media

\* A medium that is off has no conference; one that waits for ICE is not off.
QuietAt(e) == ~overtaken => /\ ~eps[e].open => /\ ~eps[e].conf /\ eps[e].clock = "none"
                                                /\ eps[e].port = "none"
                            /\ waiting.on /\ e = line => eps[e].open

\* The ways to a misuse, and what the client was told before there was one.
Marked(p, so) == \A f \in Features : p.feature[f] = "made" => f \in so

ForetoldAt(e) ==
  /\ Marked(eps[e], soiled[e])
  /\ eps[e].port \in {"made", "lost"} => e \in failed
  /\ eps[e].port = "stale" => e \in failed \/ overtaken \/ (waiting.on /\ e = line)
  /\ eps[e].stream = "destroyed" => e \in failed

\* What a negotiation that keeps the format has to find: in p, of the medium e, where the
\* features st are started, those of so soiled, and a step went unnoticed if e is in un.
Joins(p, st, so, un, e) ==
  /\ p.port = "none" => p.feature = NoFeature
  /\ p.port # "none" /\ p.clock = "none" => e \in un
  /\ \A f \in Features : p.feature[f] = "added" =>
       f \in so \/ p.port \in {"made", "lost"} \/ e \in un
  /\ \A f \in st : p.feature[f] # "none"

JoiningAt(e) == in_call => Joins(eps[e], started[e], soiled[e], unnoticed, e)

Wired(e) == /\ eps[e].stream = "live" /\ eps[e].port = "in"
            /\ eps[e].conf /\ eps[e].clock = "running"

\* The update of a medium is done: by the negotiation that runs, or by the last one.
Done(e) == e < line \/ (told = "ok" /\ ~(waiting.on /\ e = line))

WiredAt(e) == in_call /\ e \notin unnoticed /\ eps[e].open /\ Done(e) => Wired(e)

\* What restart_media_stream() remembers of the medium that waits for ICE is true of it.
Paused ==
  /\ waiting.on => eps[line].stream = "live"
  /\ in_call /\ waiting.on =>
       /\ eps[line].port # "in"
       /\ waiting.old <=> eps[line].port # "none"
       /\ waiting.stopped <=> eps[line].clock # "none"

At(e) == QuietAt(e) /\ ForetoldAt(e) /\ JoiningAt(e) /\ WiredAt(e)

IInv == /\ FaultsAreForetold /\ NothingPlaysOn
        /\ fault = "none" => Ordered /\ Paused /\ \A e \in Media : At(e)

-----------------------------------------------------------------------------
(* The operators on an endpoint.                                           *)

\* An endpoint that differs from p in what a command may change.
SameBut(p, q, f) ==
  /\ q.open = p.open /\ q.stream = p.stream /\ q.port = p.port
  /\ q.conf = p.conf /\ q.clock = p.clock
  /\ \A g \in Features \ {f} : q.feature[g] = p.feature[g]

LEMMA EndpointFields ==
  ASSUME NEW p \in Endpoint
  PROVE  /\ p.open \in BOOLEAN /\ p.stream \in {"none", "live", "destroyed"}
         /\ p.port \in Ports /\ p.conf \in BOOLEAN /\ p.clock \in Clocks
         /\ p.feature \in [Features -> Statuses]
BY DEF Endpoint

LEMMA FunctionSet ==
  ASSUME NEW D, NEW R, NEW g \in [D -> R], NEW d \in D, NEW s \in R
  PROVE  /\ [g EXCEPT ![d] = s] \in [D -> R]
         /\ [g EXCEPT ![d] = s][d] = s
         /\ \A c \in D \ {d} : [g EXCEPT ![d] = s][c] = g[c]
OBVIOUS

LEMMA FeatureSet ==
  ASSUME NEW p \in Endpoint, NEW f \in Features, NEW s \in Statuses,
         NEW q, q = [p EXCEPT !.feature[f] = s]
  PROVE  q \in Endpoint /\ SameBut(p, q, f) /\ q.feature[f] = s
<1>1. p.feature \in [Features -> Statuses]
  BY EndpointFields
<1>2. PICK fs : fs = [p.feature EXCEPT ![f] = s]
  OBVIOUS
<1>6. PICK fq : fq = p.feature
  OBVIOUS
<1>7. /\ fs \in [Features -> Statuses]
      /\ fs[f] = s
      /\ \A g \in Features \ {f} : fs[g] = p.feature[g]
  <2>1. fq \in [Features -> Statuses]
    BY <1>1, <1>6
  <2>2. /\ [fq EXCEPT ![f] = s] \in [Features -> Statuses]
        /\ [fq EXCEPT ![f] = s][f] = s
        /\ \A g \in Features \ {f} : [fq EXCEPT ![f] = s][g] = fq[g]
    BY <2>1, FunctionSet
  <2> QED BY <1>2, <1>6, <2>2
<1>3. q = [p EXCEPT !.feature = fs]
  BY <1>2
<1>4. q \in Endpoint
  BY <1>3, <1>7 DEF Endpoint
<1>5. /\ q.open = p.open /\ q.stream = p.stream /\ q.port = p.port
      /\ q.conf = p.conf /\ q.clock = p.clock /\ q.feature = fs
  BY <1>3 DEF Endpoint
<1> QED BY <1>7, <1>4, <1>5 DEF SameBut

LEMMA Unchanging ==
  ASSUME NEW p \in Endpoint, NEW f \in Features
  PROVE  SameBut(p, p, f)
BY DEF SameBut

(***************************************************************************)
(* The result r of a command for the feature f on the endpoint p: a port   *)
(* that is made and not added, or added and not linked, is the end of a    *)
(* start that failed, or of one with a stream port that was never added.   *)
(***************************************************************************)
Result(p, f, r) ==
  /\ r.p \in Endpoint /\ SameBut(p, r.p, f)
  /\ r.reply \in {"ok", "error", "fault"}
  /\ r.p.feature[f] = "made" /\ p.feature[f] # "made" => r.reply = "error"
  /\ r.p.feature[f] = "added" /\ p.feature[f] # "added" => r.reply = "error" \/ p.port = "made"
  /\ p.port \notin {"in", "made"} /\ p.feature[f] = "none" => r.p.feature[f] = "none"
  /\ r.reply = "fault" => p.feature[f] = "made" \/ p.port \notin {"in", "made"}

LEMMA RemovedResult ==
  ASSUME NEW p \in Endpoint, NEW f \in Features
  PROVE  /\ Result(p, f, Removed(p, f))
         /\ Removed(p, f).reply = "fault" => p.feature[f] = "made"
         /\ Removed(p, f).reply = "ok" => Removed(p, f).p.feature[f] = "none"
<1>1. CASE p.feature[f] = "made"
  BY <1>1, Unchanging DEF Removed, Result
<1>2. CASE p.feature[f] # "made"
  <2>1. PICK q : q = [p EXCEPT !.feature[f] = "none"]
    OBVIOUS
  <2>2. q \in Endpoint /\ SameBut(p, q, f) /\ q.feature[f] = "none"
    BY <2>1, FeatureSet DEF Statuses
  <2>3. Removed(p, f) = [p |-> q, reply |-> "ok"]
    BY <1>2, <2>1 DEF Removed
  <2> QED BY <2>2, <2>3 DEF Result
<1> QED BY <1>1, <1>2

LEMMA PreparedCases ==
  ASSUME NEW p, NEW f, NEW mishap, NEW r, r = Prepared(p, f, mishap)
  PROVE  \/ r = [p |-> p, reply |-> "fault"] /\ p.port \notin {"in", "made"}
         \/ r = [p |-> p, reply |-> "error"]
         \/ /\ p.port \in {"in", "made"}
            /\ \E s \in {"made", "added", "linked"} : \E y \in {"ok", "error"} :
                 /\ r = [p |-> [p EXCEPT !.feature[f] = s], reply |-> y]
                 /\ s = "made" => y = "error"
                 /\ s = "added" => y = "error" \/ p.port # "in"
<1>1. CASE p.port \notin {"in", "made"}
  BY <1>1 DEF Prepared
<1>2. CASE p.port \in {"in", "made"} /\ mishap = "create"
  BY <1>2 DEF Prepared
<1>3. CASE p.port \in {"in", "made"} /\ mishap # "create" /\ (mishap = "add" \/ ~p.conf)
  BY <1>3 DEF Prepared
<1>4. CASE p.port \in {"in", "made"} /\ mishap \notin {"create", "add"} /\ p.conf
  <2>1. CASE mishap = "connect"
    BY <1>4, <2>1 DEF Prepared
  <2>2. CASE mishap # "connect"
    BY <1>4, <2>2 DEF Prepared, Connected
  <2> QED BY <2>1, <2>2
<1> QED BY <1>1, <1>2, <1>3, <1>4

LEMMA PreparedResult ==
  ASSUME NEW p \in Endpoint, NEW f \in Features, NEW mishap,
         NEW r, r = Prepared(p, f, mishap)
  PROVE  Result(p, f, r) /\ (r.reply = "ok" => r.p.feature[f] # "none")
<1>1. CASE r = [p |-> p, reply |-> "fault"] /\ p.port \notin {"in", "made"}
  BY <1>1, Unchanging DEF Result
<1>2. CASE r = [p |-> p, reply |-> "error"]
  BY <1>2, Unchanging DEF Result
<1>3. ASSUME p.port \in {"in", "made"},
             NEW s \in {"made", "added", "linked"}, NEW y \in {"ok", "error"},
             r = [p |-> [p EXCEPT !.feature[f] = s], reply |-> y],
             s = "made" => y = "error",
             s = "added" => y = "error" \/ p.port # "in"
      PROVE  Result(p, f, r) /\ (r.reply = "ok" => r.p.feature[f] # "none")
  <2>1. PICK q : q = [p EXCEPT !.feature[f] = s]
    OBVIOUS
  <2>2. q \in Endpoint /\ SameBut(p, q, f) /\ q.feature[f] = s
    BY <2>1, FeatureSet DEF Statuses
  <2>3. r.p = q /\ r.reply = y
    BY <1>3, <2>1
  <2> QED BY <1>3, <2>2, <2>3 DEF Result
<1> QED BY <1>1, <1>2, <1>3, PreparedCases

\* The start of a feature: when it is told ok, there is a port.
Started(p, f, r) == Result(p, f, r) /\ (r.reply = "ok" => r.p.feature[f] # "none")

LEMMA PreparedOnceResult ==
  ASSUME NEW p \in Endpoint, NEW f \in Features, NEW mishap
  PROVE  Started(p, f, PreparedOnce(p, f, mishap))
<1>1. CASE p.feature[f] # "none"
  <2>1. PreparedOnce(p, f, mishap) = [p |-> p, reply |-> "ok"]
    BY <1>1 DEF PreparedOnce
  <2> QED BY <1>1, <2>1, Unchanging DEF Started, Result
<1>2. CASE p.feature[f] = "none"
  BY <1>2, PreparedResult DEF PreparedOnce, Started
<1> QED BY <1>1, <1>2

LEMMA PreparedAnewResult ==
  ASSUME NEW p \in Endpoint, NEW f \in Features, NEW mishap
  PROVE  Started(p, f, PreparedAnew(p, f, mishap))
<1>1. PICK r : r = Removed(p, f)
  OBVIOUS
<1>2. /\ Result(p, f, r)
      /\ r.reply = "fault" => p.feature[f] = "made"
      /\ r.reply = "ok" => r.p.feature[f] = "none"
  BY <1>1, RemovedResult
<1>3. CASE r.reply # "ok"
  BY <1>1, <1>2, <1>3 DEF PreparedAnew, Started
<1>4. CASE r.reply = "ok"
  <2>1. PICK q \in Endpoint : q = r.p
    BY <1>2 DEF Result
  <2>2. PICK s : s = Prepared(q, f, mishap)
    OBVIOUS
  <2>3. Result(q, f, s) /\ (s.reply = "ok" => s.p.feature[f] # "none")
    BY <2>2, PreparedResult
  <2>4. PreparedAnew(p, f, mishap) = s
    BY <1>1, <1>4, <2>1, <2>2 DEF PreparedAnew
  <2>5. SameBut(p, q, f) /\ q.feature[f] = "none"
    BY <1>2, <1>4, <2>1 DEF Result
  <2>6. SameBut(p, s.p, f)
    BY <2>3, <2>5 DEF SameBut, Result
  <2>7. Result(p, f, s)
    BY <2>3, <2>5, <2>6 DEF Result, SameBut
  <2> QED BY <2>3, <2>4, <2>7 DEF Started
<1> QED BY <1>3, <1>4

LEMMA NotReadyResult ==
  ASSUME NEW p \in Endpoint, NEW f \in Features
  PROVE  Started(p, f, [p |-> p, reply |-> "error"])
BY Unchanging DEF Started, Result

LEMMA ReadyResult ==
  ASSUME NEW p \in Endpoint, NEW f \in Features, NEW mishap
  PROVE  Started(p, f, Ready(p, f, mishap))
BY PreparedAnewResult, NotReadyResult DEF Ready, IfReady

-----------------------------------------------------------------------------
(* Commands.                                                               *)
LEMMA MediaNat == Media \subseteq Nat /\ \A e \in Media : e >= 1 /\ e <= N
BY NAssumption DEF Media

LEMMA LeastExists ==
  ASSUME NEW T, T \subseteq Nat, T # {}
  PROVE  \E x \in T : \A y \in T : x <= y
<1>1. PICK x \in T : \A y \in T : ~ (<<y, x>> \in OpToRel(<, Nat))
  BY WFMin, NatLessThanWellFounded
<1>2. ASSUME NEW y \in T PROVE ~ (y < x)
  BY <1>1 DEF OpToRel
<1> QED BY <1>2

(***************************************************************************)
(* A command on the media of ms changes some of them, and its reply is ok  *)
(* or that of one it changed, which is the one it names; with an ok it has *)
(* changed them all.                                                       *)
(***************************************************************************)
OnMediaResult(ms, r, c) ==
  /\ c.eps = [e \in Media |-> c.eps[e]]
  /\ \A e \in Media : \/ c.eps[e] = eps[e]
                      \/ e \in ms /\ c.eps[e] = r[e].p /\ c.reply = r[e].reply
                      \/ e \in ms /\ c.eps[e] = r[e].p /\ r[e].reply = "ok"
  /\ \A e \in ms : c.reply = "ok" => c.eps[e] = r[e].p /\ r[e].reply = "ok"
  /\ \/ c.reply = "ok" /\ c.at = 0
     \/ c.at \in ms /\ c.eps[c.at] = r[c.at].p /\ c.reply = r[c.at].reply

LEMMA OnMediaDone ==
  ASSUME NEW ms \in SUBSET Media, NEW r, NEW c, c = OnMedia(ms, r)
  PROVE  OnMediaResult(ms, r, c)
<1> DEFINE reached == {e \in ms : \A d \in ms : d < e => r[d].reply = "ok"}
           refused == {e \in reached : r[e].reply # "ok"}
<1>0. PICK at : at = IF refused = {} THEN 0 ELSE CHOOSE e \in refused : TRUE
  OBVIOUS
<1>1. /\ c.eps = [e \in Media |-> IF e \in reached THEN r[e].p ELSE eps[e]]
      /\ c.reply = IF at = 0 THEN "ok" ELSE r[at].reply
      /\ c.at = at
  BY <1>0 DEF OnMedia
<1>2. ms \subseteq Nat /\ \A e \in ms : e >= 1
  BY MediaNat
<1>3. \A e \in refused : \A d \in refused : d = e
  BY <1>2
<1>4. \/ at = 0 /\ refused = {}
      \/ at # 0 /\ at \in refused
  <2>1. CASE refused = {}
    BY <1>0, <2>1
  <2>2. CASE refused # {}
    <3>1. PICK x : x = CHOOSE e \in refused : TRUE
      OBVIOUS
    <3>2. x \in refused /\ at = x
      BY <1>0, <2>2, <3>1
    <3>3. x \in ms
      BY <3>2
    <3> QED BY <1>2, <3>2, <3>3
  <2> QED BY <2>1, <2>2
<1>5. ASSUME NEW e \in ms, c.reply = "ok"
      PROVE  e \in reached
  <2>1. SUFFICES ASSUME e \notin reached PROVE FALSE
    OBVIOUS
  <2>2. PICK d \in ms : d < e /\ r[d].reply # "ok"
    BY <2>1
  <2> DEFINE T == {x \in ms : r[x].reply # "ok"}
  <2>4. T \subseteq Nat /\ T # {}
    BY <1>2, <2>2
  <2>5. PICK x \in T : \A y \in T : x <= y
    BY <2>4, LeastExists
  <2>6. x \in reached
    BY <1>2, <2>5
  <2>7. x \in refused
    BY <2>5, <2>6
  <2> QED BY <1>1, <1>3, <1>4, <1>5, <2>5, <2>7
<1>6. c.eps = [e \in Media |-> c.eps[e]]
  BY <1>1
<1>12. /\ reached \subseteq ms /\ refused \subseteq reached
       /\ \A e \in reached : e \notin refused <=> r[e].reply = "ok"
       /\ \A e \in ms : e \in Media
       /\ \A e \in Media : c.eps[e] = IF e \in reached THEN r[e].p ELSE eps[e]
  BY <1>1
<1>7. \A e \in refused : e = at /\ c.reply = r[e].reply
  BY <1>1, <1>3, <1>4
<1>8. \/ c.reply = "ok" /\ c.at = 0
      \/ c.at \in refused /\ c.reply = r[c.at].reply
  BY <1>1, <1>4
<1> HIDE DEF reached, refused
<1>9. \A e \in Media :
        \/ c.eps[e] = eps[e]
        \/ e \in ms /\ c.eps[e] = r[e].p /\ c.reply = r[e].reply
        \/ e \in ms /\ c.eps[e] = r[e].p /\ r[e].reply = "ok"
  BY <1>7, <1>12
<1>10. \A e \in ms : c.reply = "ok" => c.eps[e] = r[e].p /\ r[e].reply = "ok"
  BY <1>5, <1>7, <1>12
<1>11. \/ c.reply = "ok" /\ c.at = 0
       \/ c.at \in ms /\ c.eps[c.at] = r[c.at].p /\ c.reply = r[c.at].reply
  BY <1>8, <1>12
<1> QED BY <1>6, <1>9, <1>10, <1>11 DEF OnMediaResult

\* What a command leaves alone.
LEMMA CommandKeeps ==
  ASSUME TypeOK, IInv, MayCommand,
         eps' \in [Media -> Endpoint],
         \A e \in Media : \E f \in Features : SameBut(eps[e], eps'[e], f),
         UNCHANGED <<in_call, update, failed, unnoticed, overtaken>>
  PROVE  /\ NothingPlaysOn' /\ Ordered' /\ Paused'
         /\ \A e \in Media : QuietAt(e)' /\ WiredAt(e)'
<1>1. fault = "none" /\ in_call /\ line = 0 /\ ~overtaken /\ ~waiting.on
      /\ \A e \in Media : QuietAt(e) /\ WiredAt(e)
  BY MediaNat DEF MayCommand, Running, IInv, Ordered, At
<1>2. \A e \in Media : /\ eps'[e].open = eps[e].open /\ eps'[e].stream = eps[e].stream
                       /\ eps'[e].port = eps[e].port /\ eps'[e].conf = eps[e].conf
                       /\ eps'[e].clock = eps[e].clock
  BY DEF SameBut
<1>3. UNCHANGED <<in_call, line, waiting, told, unnoticed, overtaken>>
  BY DEF update
<1>4. \A e \in Media : QuietAt(e)' /\ WiredAt(e)'
  BY <1>1, <1>2, <1>3 DEF QuietAt, WiredAt, Done, Wired
<1>5. Ordered' /\ Paused'
  BY <1>1, <1>3 DEF Ordered, Paused
<1>6. NothingPlaysOn'
  BY <1>4 DEF NothingPlaysOn, QuietAt
<1> QED BY <1>4, <1>5, <1>6

LEMMA CommandTyped ==
  ASSUME TypeOK, NEW f \in Features, NEW ms \in SUBSET Media, NEW r,
         \A e \in Media : Result(eps[e], f, r[e]),
         NEW c, c = OnMedia(ms, r)
  PROVE  /\ c.eps \in [Media -> Endpoint]
         /\ c.reply \in {"ok", "error", "fault"} /\ c.at \in 0 .. N
         /\ \A e \in Media : SameBut(eps[e], c.eps[e], f)
<1>0. OnMediaResult(ms, r, c)
  BY OnMediaDone
<1>1. \A e \in Media : /\ eps[e] \in Endpoint /\ r[e].p \in Endpoint
                       /\ SameBut(eps[e], r[e].p, f)
                       /\ r[e].reply \in {"ok", "error", "fault"}
  BY DEF Result, TypeOK
<1>2. \A e \in Media : c.eps[e] = eps[e] \/ c.eps[e] = r[e].p
  BY <1>0 DEF OnMediaResult
<1>3. c.eps = [e \in Media |-> c.eps[e]]
  BY <1>0 DEF OnMediaResult
<1>4. c.reply \in {"ok", "error", "fault"}
  BY <1>0, <1>1 DEF OnMediaResult
<1>5. \A e \in Media : c.eps[e] \in Endpoint
  BY <1>1, <1>2
<1>6. c.eps \in [Media -> Endpoint]
  BY <1>3, <1>5
<1>7. \A e \in Media : SameBut(eps[e], c.eps[e], f)
  BY <1>1, <1>2, Unchanging
<1>8. c.at \in 0 .. N
  <2>1. c.at = 0 \/ c.at \in Media
    BY <1>0 DEF OnMediaResult
  <2> QED BY <2>1, NAssumption DEF Media
<1> QED BY <1>4, <1>6, <1>7, <1>8

LEMMA BeginTyped ==
  ASSUME TypeOK, Counted, NEW f \in Features, NEW ms \in SUBSET Media, NEW c,
         c.eps \in [Media -> Endpoint], c.at \in 0 .. N,
         Begin(f, ms, c)
  PROVE  TypeOK'
<1>1. /\ eps' \in [Media -> Endpoint] /\ fault' \in {"none", "port", "stream"} \cup Features
      /\ faulted' \in 0 .. N
  BY DEF Begin, Replied, misuse, TypeOK
<1>2. started' \in [Media -> SUBSET Features] /\ soiled' \in [Media -> SUBSET Features]
  BY DEF Begin, TypeOK
<1>3. UNCHANGED <<in_call, line, waiting, told, updates, failed, unnoticed, overtaken>>
  BY DEF Begin, update
<1>4. commands' \in 0 .. MaxCommands
  BY NAssumption DEF Counted, TypeOK
<1> QED BY <1>1, <1>2, <1>3, <1>4 DEF TypeOK, Media

\* Only a feature that does not look for the stream's port misses it.
Guards(p, f, r) == r.reply = "fault" /\ p.port = "none" => f \in Unguarded

(***************************************************************************)
(* A feature is started: a port left behind is in soiled, and one that is  *)
(* told ok is there.                                                       *)
(***************************************************************************)
LEMMA BeginIInv ==
  ASSUME TypeOK, IInv, MayCommand, NEW f \in Features, NEW ms \in SUBSET Media, NEW r,
         \A e \in Media : Started(eps[e], f, r[e]) /\ Guards(eps[e], f, r[e]),
         NEW c, c = OnMedia(ms, r), Begin(f, ms, c)
  PROVE  IInv'
<1>1. /\ fault = "none" /\ in_call /\ line = 0 /\ ~overtaken /\ ~waiting.on
      /\ \A e \in Media : ForetoldAt(e) /\ JoiningAt(e)
  BY MediaNat DEF MayCommand, Running, IInv, Ordered, At
<1>2. \A e \in Media : Result(eps[e], f, r[e])
  BY DEF Started
<1>20. OnMediaResult(ms, r, c)
  BY OnMediaDone
<1>3. /\ eps' = c.eps /\ eps' \in [Media -> Endpoint]
      /\ \A e \in Media : SameBut(eps[e], eps'[e], f)
  BY <1>2, CommandTyped DEF Begin, Replied
<1>4. UNCHANGED <<in_call, update, failed, unnoticed, overtaken>>
  BY DEF Begin
<1>5. UNCHANGED <<line, waiting>>
  BY <1>4 DEF update
<1>6. \A e \in Media :
        /\ started'[e] = IF e \notin ms THEN started[e]
                         ELSE IF c.reply = "ok" THEN started[e] \cup {f} ELSE started[e] \ {f}
        /\ soiled[e] \subseteq soiled'[e]
        /\ c.reply = "error" /\ eps'[e] # eps[e] /\ eps'[e].feature[f] \in {"made", "added"}
             => f \in soiled'[e]
  BY <1>3 DEF Begin
<1>7. ASSUME NEW e \in Media
      PROVE  /\ eps'[e].feature[f] \in {"made", "added"} /\ eps'[e].feature[f] # eps[e].feature[f]
                  => f \in soiled'[e] \/ (eps'[e].feature[f] = "added" /\ eps[e].port = "made")
             /\ eps[e].port = "none" /\ eps[e].feature[f] = "none" => eps'[e].feature[f] = "none"
  <2>1. Result(eps[e], f, r[e])
    BY <1>2
  <2>2. \/ eps'[e] = eps[e]
        \/ eps'[e] = r[e].p /\ (c.reply = r[e].reply \/ r[e].reply = "ok")
    BY <1>3, <1>20 DEF OnMediaResult
  <2> QED BY <1>6, <2>1, <2>2 DEF Result
<1>8. ASSUME NEW e \in Media PROVE ForetoldAt(e)'
  <2>1. ASSUME NEW g \in Features, eps'[e].feature[g] = "made" PROVE g \in soiled'[e]
    <3>1. CASE eps[e].feature[g] = "made"
      BY <1>1, <1>6, <3>1 DEF ForetoldAt, Marked
    <3>2. CASE eps[e].feature[g] # "made"
      <4>1. g = f
        BY <1>3, <2>1, <3>2 DEF SameBut
      <4>2. eps'[e].feature[f] = "made" /\ eps'[e].feature[f] # eps[e].feature[f]
        BY <2>1, <3>2, <4>1
      <4>3. f \in soiled'[e] \/ eps'[e].feature[f] = "added"
        BY <1>7, <4>2
      <4> QED BY <4>1, <4>2, <4>3
    <3> QED BY <3>1, <3>2
  <2>2. eps'[e].port = eps[e].port /\ eps'[e].stream = eps[e].stream
    BY <1>3 DEF SameBut
  <2> QED BY <1>1, <1>4, <1>5, <2>1, <2>2 DEF ForetoldAt, Marked
<1>9. ASSUME NEW e \in Media PROVE JoiningAt(e)'
  <2>1. /\ eps'[e].port = eps[e].port /\ eps'[e].clock = eps[e].clock
        /\ \A g \in Features \ {f} : eps'[e].feature[g] = eps[e].feature[g]
    BY <1>3 DEF SameBut
  <2>2. eps'[e].port = "none" => eps'[e].feature = NoFeature
    <3>1. SUFFICES ASSUME eps'[e].port = "none" PROVE eps'[e].feature = NoFeature
      OBVIOUS
    <3>2. eps[e].feature = NoFeature
      BY <1>1, <2>1, <3>1 DEF JoiningAt, Joins
    <3>3. \A g \in Features : eps'[e].feature[g] = "none"
      BY <1>7, <2>1, <3>1, <3>2 DEF NoFeature
    <3>4. eps'[e].feature \in [Features -> Statuses]
      BY <1>3, EndpointFields
    <3> QED BY <3>3, <3>4 DEF NoFeature
  <2>3. ASSUME NEW g \in Features, eps'[e].feature[g] = "added"
        PROVE  g \in soiled'[e] \/ eps'[e].port \in {"made", "lost"} \/ e \in unnoticed
    <3>1. CASE eps[e].feature[g] = "added"
      <4>1. g \in soiled[e] \/ eps[e].port \in {"made", "lost"} \/ e \in unnoticed
        BY <1>1, <3>1 DEF JoiningAt, Joins
      <4> QED BY <1>6, <2>1, <4>1
    <3>2. CASE eps[e].feature[g] # "added"
      <4>1. g = f
        BY <2>1, <2>3, <3>2
      <4>2. eps'[e].feature[f] = "added" /\ eps'[e].feature[f] # eps[e].feature[f]
        BY <2>3, <3>2, <4>1
      <4> QED BY <1>7, <2>1, <4>1, <4>2
    <3> QED BY <3>1, <3>2
  <2>4. ASSUME NEW g \in started'[e]
        PROVE  eps'[e].feature[g] # "none"
    <3>0. g \in Features
      BY <1>6 DEF TypeOK
    <3>1. CASE g # f
      <4>1. g \in started[e]
        BY <1>6, <2>4, <3>1
      <4>2. eps[e].feature[g] # "none"
        BY <1>1, <4>1 DEF JoiningAt, Joins
      <4> QED BY <2>1, <3>0, <3>1, <4>2
    <3>2. CASE g = f /\ e \notin ms
      <4>1. eps'[e] = eps[e]
        BY <1>3, <1>20, <3>2 DEF OnMediaResult
      <4> QED BY <1>1, <1>6, <2>4, <3>2, <4>1 DEF JoiningAt, Joins
    <3>3. CASE g = f /\ e \in ms
      <4>1. c.reply = "ok"
        BY <1>6, <2>4, <3>3
      <4>2. c.eps[e] = r[e].p /\ r[e].reply = "ok"
        BY <1>20, <3>3, <4>1 DEF OnMediaResult
      <4> QED BY <1>3, <3>3, <4>2 DEF Started
    <3> QED BY <3>1, <3>2, <3>3
  <2> QED BY <1>1, <1>4, <2>1, <2>2, <2>3, <2>4 DEF JoiningAt, Joins
<1>10. FaultsAreForetold'
  <2>1. SUFFICES ASSUME fault' # "none" PROVE FaultsAreForetold'
    BY DEF FaultsAreForetold
  <2>2. c.reply = "fault" /\ fault' = f /\ faulted' = c.at
    BY <1>1, <2>1 DEF Begin, Replied, misuse
  <2>3. PICK e \in ms : eps'[e] = r[e].p /\ r[e].reply = "fault" /\ faulted' = e
    BY <1>3, <1>20, <2>2 DEF OnMediaResult
  <2>4. eps[e].feature[f] = "made" \/ eps[e].port \notin {"in", "made"}
    BY <1>2, <2>3 DEF Result
  <2>5. CASE eps[e].feature[f] = "made"
    BY <1>1, <1>6, <2>2, <2>3, <2>5 DEF ForetoldAt, Marked, FaultsAreForetold
  <2>6. CASE eps[e].port \notin {"in", "made"}
    <3>1. eps[e].port \in Ports /\ eps'[e].port = eps[e].port
      BY <1>3, EndpointFields DEF TypeOK, SameBut
    <3>2. CASE eps[e].port = "none"
      <4>1. CASE f \in Unguarded
        BY <2>2, <2>3, <3>1, <3>2, <4>1 DEF FaultsAreForetold
      <4>2. CASE f \notin Unguarded
        BY <2>3, <3>2, <4>2 DEF Guards
      <4> QED BY <4>1, <4>2
    <3>3. CASE eps[e].port \in {"stale", "lost"}
      <4>1. e \in failed'
        BY <1>1, <1>4, <3>3 DEF ForetoldAt
      <4> QED BY <2>3, <4>1 DEF FaultsAreForetold
    <3> QED BY <2>6, <3>1, <3>2, <3>3 DEF Ports
  <2> QED BY <2>4, <2>5, <2>6
<1>11. /\ NothingPlaysOn' /\ Ordered' /\ Paused'
       /\ \A e \in Media : QuietAt(e)' /\ WiredAt(e)'
  BY <1>3, <1>4, CommandKeeps
<1> QED BY <1>8, <1>9, <1>10, <1>11 DEF IInv, At

\* A start whose results are r.
Starts(f, ms, r) ==
  /\ MayCommand /\ Counted /\ f \in Features /\ ms \subseteq Media
  /\ \A e \in Media : Started(eps[e], f, r[e]) /\ Guards(eps[e], f, r[e])
  /\ Begin(f, ms, OnMedia(ms, r))

LEMMA StartsIInv ==
  ASSUME TypeOK, IInv, NEW f, NEW ms, NEW r, Starts(f, ms, r)
  PROVE  TypeOK' /\ IInv'
<1>1. PICK c : c = OnMedia(ms, r)
  OBVIOUS
<1>2. /\ MayCommand /\ Counted /\ f \in Features /\ ms \in SUBSET Media
      /\ \A e \in Media : Started(eps[e], f, r[e]) /\ Guards(eps[e], f, r[e])
      /\ Begin(f, ms, c)
  BY <1>1 DEF Starts
<1>3. \A e \in Media : Result(eps[e], f, r[e])
  BY <1>2 DEF Started
<1>4. c.eps \in [Media -> Endpoint] /\ c.at \in 0 .. N
  BY <1>1, <1>2, <1>3, CommandTyped
<1>5. TypeOK'
  BY <1>2, <1>4, BeginTyped
<1>6. IInv'
  BY <1>1, <1>2, BeginIInv
<1> QED BY <1>5, <1>6

LEMMA TargetsAreMedia ==
  ASSUME NEW ms, ms \in One \/ ms \in OneOrAll \/ ms \in OneOrAllInUse
  PROVE  ms \subseteq Media
BY DEF One, OneOrAll, OneOrAllInUse

\* Every command that starts a feature is such a start.
LEMMA PreparedOnceStarts ==
  ASSUME TypeOK, SendDtmf \/ SendBfsk
  PROVE  \E f, ms, r : Starts(f, ms, r)
<1>1. Start("tonegen", OneOrAllInUse, PreparedOnce)
  BY DEF SendDtmf, SendBfsk
<1>2. PICK ms, at, mishap, r :
        /\ ms \in OneOrAllInUse /\ MayCommand /\ Counted /\ "tonegen" \in Features
        /\ r = [e \in Media |-> PreparedOnce(eps[e], "tonegen", IF e = at THEN mishap ELSE "none")]
        /\ Begin("tonegen", ms, OnMedia(ms, r))
  BY <1>1 DEF Start
<1>3. \A e \in Media : Started(eps[e], "tonegen", r[e])
  BY <1>2, PreparedOnceResult DEF TypeOK
<1>4. Starts("tonegen", ms, r)
  BY <1>2, <1>3, TargetsAreMedia DEF Starts, Guards, Unguarded
<1> QED BY <1>4

LEMMA ReadyGuards ==
  ASSUME NEW p, NEW f, NEW mishap
  PROVE  Guards(p, f, Ready(p, f, mishap))
BY DEF Guards, Ready, IfReady

LEMMA ReadyStarts ==
  ASSUME TypeOK,
         StartPlayWav \/ StartRecordWav \/ StartSpeechRecog \/ StartSpeechSynth
           \/ Start("player", OneOrAll, Ready)
  PROVE  \E f, ms, r : Starts(f, ms, r)
<1>1. PICK targets \in {One, OneOrAll} : Start("player", targets, Ready)
  BY DEF StartPlayWav, StartRecordWav, StartSpeechRecog, StartSpeechSynth
<1>2. PICK ms, at, mishap, r :
        /\ ms \in targets /\ MayCommand /\ Counted /\ "player" \in Features
        /\ r = [e \in Media |-> Ready(eps[e], "player", IF e = at THEN mishap ELSE "none")]
        /\ Begin("player", ms, OnMedia(ms, r))
  BY <1>1 DEF Start
<1>3. \A e \in Media : Started(eps[e], "player", r[e])
  BY <1>2, ReadyResult DEF TypeOK
<1>30. \A e \in Media : Guards(eps[e], "player", r[e])
  BY <1>2, ReadyGuards
<1>4. Starts("player", ms, r)
  BY <1>1, <1>2, <1>3, <1>30, TargetsAreMedia DEF Starts
<1> QED BY <1>4

LEMMA PreparedAnewStarts ==
  ASSUME TypeOK, StartEnvelopeDetection \/ Start("envelope", One, PreparedAnew)
  PROVE  \E f, ms, r : Starts(f, ms, r)
<1>1. PICK targets \in {One, OneOrAll} : Start("envelope", targets, PreparedAnew)
  BY DEF StartEnvelopeDetection
<1>2. PICK ms, at, mishap, r :
        /\ ms \in targets /\ MayCommand /\ Counted /\ "envelope" \in Features
        /\ r = [e \in Media |-> PreparedAnew(eps[e], "envelope", IF e = at THEN mishap ELSE "none")]
        /\ Begin("envelope", ms, OnMedia(ms, r))
  BY <1>1 DEF Start
<1>3. \A e \in Media : Started(eps[e], "envelope", r[e])
  BY <1>2, PreparedAnewResult DEF TypeOK
<1>4. Starts("envelope", ms, r)
  BY <1>1, <1>2, <1>3, TargetsAreMedia DEF Starts, Guards, Unguarded
<1> QED BY <1>4

LEMMA DetectionStarts ==
  ASSUME TypeOK, StartDetection
  PROVE  \E f, ms, r : Starts(f, ms, r)
<1>1. PICK ms, at, mishap, r :
        /\ ms \in OneOrAll /\ MayCommand /\ Counted /\ "detector" \in Features
        /\ r = [e \in Media |-> IfReady(eps[e], "detector", IF e = at THEN mishap ELSE "none",
                                        PreparedOnce)]
        /\ Begin("detector", ms, OnMedia(ms, r))
  BY DEF StartDetection, Start
<1>2. ASSUME NEW e \in Media PROVE Started(eps[e], "detector", r[e])
  BY <1>1, PreparedOnceResult, NotReadyResult DEF TypeOK, IfReady
<1>20. \A e \in Media : Guards(eps[e], "detector", r[e])
  BY <1>1 DEF Guards, IfReady
<1>3. Starts("detector", ms, r)
  BY <1>1, <1>2, <1>20, TargetsAreMedia DEF Starts
<1> QED BY <1>3

LEMMA StopIInv ==
  ASSUME TypeOK, IInv, Stop
  PROVE  TypeOK' /\ IInv'
<1>0. PICK f \in Features \ {"tonegen"}, ms \in OneOrAll :
        /\ Replied(f, OnMedia(ms, [e \in Media |-> Removed(eps[e], f)]))
        /\ started' = [e \in Media |-> IF e \in ms THEN started[e] \ {f} ELSE started[e]]
  BY DEF Stop
<1>1. PICK r, c :
        /\ f \in Features /\ ms \in SUBSET Media /\ MayCommand /\ Counted
        /\ r = [e \in Media |-> Removed(eps[e], f)]
        /\ c = OnMedia(ms, r)
        /\ Replied(f, c)
        /\ started' = [e \in Media |-> IF e \in ms THEN started[e] \ {f} ELSE started[e]]
        /\ UNCHANGED <<in_call, update, soiled, failed, unnoticed, overtaken>>
  <2>1. ms \in SUBSET Media
    BY <1>0, TargetsAreMedia
  <2>2. /\ UNCHANGED <<in_call, update, soiled, failed, unnoticed, overtaken>>
        /\ MayCommand
        /\ Counted
    BY DEF Stop
  <2> QED BY <1>0, <2>1, <2>2
<1>2. ASSUME NEW e \in Media
      PROVE  /\ Result(eps[e], f, r[e])
             /\ r[e].reply = "fault" => eps[e].feature[f] = "made"
             /\ r[e].reply = "ok" => r[e].p.feature[f] = "none"
             /\ r[e].reply # "ok" => r[e].p = eps[e]
  <2>1. eps[e] \in Endpoint /\ r[e] = Removed(eps[e], f)
    BY <1>1 DEF TypeOK
  <2>2. r[e].reply # "ok" => r[e].p = eps[e]
    BY <2>1 DEF Removed
  <2> QED BY <2>1, <2>2, RemovedResult
<1>3. /\ c.eps \in [Media -> Endpoint] /\ c.at \in 0 .. N
      /\ \A e \in Media : SameBut(eps[e], c.eps[e], f)
  BY <1>1, <1>2, CommandTyped
<1>4. OnMediaResult(ms, r, c)
  BY <1>1, OnMediaDone
<1>5. /\ eps' = c.eps /\ eps' \in [Media -> Endpoint]
      /\ fault' \in {"none", "port", "stream"} \cup Features /\ faulted' \in 0 .. N
  BY <1>1, <1>3 DEF Replied, misuse, TypeOK
<1>6. UNCHANGED <<in_call, line, waiting, told, updates, soiled, failed, unnoticed, overtaken>>
  BY <1>1 DEF update
<1>7. TypeOK'
  <2>1. commands' \in 0 .. MaxCommands
    BY <1>1, NAssumption DEF Counted, TypeOK
  <2>2. started' \in [Media -> SUBSET Features]
    BY <1>1 DEF TypeOK
  <2> QED BY <1>5, <1>6, <2>1, <2>2 DEF TypeOK, Media
<1>8. /\ fault = "none" /\ in_call /\ line = 0 /\ ~overtaken /\ ~waiting.on
      /\ \A e \in Media : ForetoldAt(e) /\ JoiningAt(e)
  BY <1>1, MediaNat DEF MayCommand, Running, IInv, Ordered, At
<1>9. ASSUME NEW e \in Media
      PROVE  /\ eps'[e].port = eps[e].port /\ eps'[e].clock = eps[e].clock
             /\ eps'[e].stream = eps[e].stream
             /\ \A g \in Features \ {f} : eps'[e].feature[g] = eps[e].feature[g]
             /\ eps'[e] = eps[e] \/ (e \in ms /\ eps'[e].feature[f] = "none")
  BY <1>2, <1>3, <1>4, <1>5 DEF SameBut, OnMediaResult
<1>10. ASSUME NEW e \in Media PROVE ForetoldAt(e)'
  <2>1. \A g \in Features : eps'[e].feature[g] = "made" => eps[e].feature[g] = "made"
    BY <1>9
  <2> QED BY <1>6, <1>8, <1>9, <2>1 DEF ForetoldAt, Marked
<1>11. ASSUME NEW e \in Media PROVE JoiningAt(e)'
  <2>1. CASE eps'[e] = eps[e]
    BY <1>1, <1>6, <1>8, <2>1 DEF JoiningAt, Joins
  <2>2. CASE e \in ms /\ eps'[e].feature[f] = "none"
    <3>1. \A g \in started'[e] : g # f /\ g \in started[e] /\ g \in Features
      BY <1>1, <2>2 DEF TypeOK
    <3>2. eps'[e].port = "none" => eps'[e].feature = NoFeature
      <4>1. eps'[e].feature \in [Features -> Statuses]
        BY <1>5, EndpointFields
      <4> QED BY <1>8, <1>6, <1>9, <2>2, <4>1 DEF JoiningAt, Joins, NoFeature
    <3>3. \A g \in Features : eps'[e].feature[g] = "added" => eps[e].feature[g] = "added"
      BY <1>9, <2>2
    <3>4. ASSUME NEW g \in started'[e]
          PROVE  eps'[e].feature[g] # "none"
      <4>1. eps'[e].feature[g] = eps[e].feature[g]
        BY <1>9, <3>1, <3>4
      <4>2. eps[e].feature[g] # "none"
        BY <1>8, <3>1, <3>4 DEF JoiningAt, Joins
      <4> QED BY <4>1, <4>2
    <3>5. unnoticed' = unnoticed /\ soiled' = soiled
      BY <1>6
    <3>6. eps'[e].port # "none" /\ eps'[e].clock = "none" => e \in unnoticed'
      BY <1>8, <1>9, <3>5 DEF JoiningAt, Joins
    <3>7. ASSUME NEW g \in Features, eps'[e].feature[g] = "added"
          PROVE  g \in soiled'[e] \/ eps'[e].port \in {"made", "lost"} \/ e \in unnoticed'
      <4>1. eps[e].feature[g] = "added"
        BY <3>3, <3>7
      <4> QED BY <1>8, <1>9, <3>5, <4>1 DEF JoiningAt, Joins
    <3> QED BY <3>2, <3>4, <3>6, <3>7 DEF JoiningAt, Joins
  <2> QED BY <1>9, <2>1, <2>2
<1>12. FaultsAreForetold'
  <2>1. SUFFICES ASSUME fault' # "none" PROVE FaultsAreForetold'
    BY DEF FaultsAreForetold
  <2>2. c.reply = "fault" /\ fault' = f /\ faulted' = c.at
    BY <1>1, <1>8, <2>1 DEF Replied, misuse
  <2>3. PICK e \in ms : r[e].reply = "fault" /\ faulted' = e
    BY <1>4, <2>2 DEF OnMediaResult
  <2>4. f \in soiled[e] /\ e \in Media
    BY <1>1, <1>2, <1>8, <2>3 DEF ForetoldAt, Marked
  <2> QED BY <1>6, <2>2, <2>3, <2>4 DEF FaultsAreForetold
<1>13. /\ NothingPlaysOn' /\ Ordered' /\ Paused'
       /\ \A e \in Media : QuietAt(e)' /\ WiredAt(e)'
  BY <1>1, <1>3, <1>5, CommandKeeps
<1> QED BY <1>7, <1>10, <1>11, <1>12, <1>13 DEF IInv, At

LEMMA UseStreamIInv ==
  ASSUME TypeOK, IInv, UseStream
  PROVE  TypeOK' /\ IInv'
<1>1. /\ fault' = "stream" /\ fault = "none"
      /\ UNCHANGED <<eps, in_call, line, waiting, told, updates, commands, history>>
  BY DEF UseStream, update, MayCommand, Running
<1>2. PICK e \in Media : eps[e].stream = "destroyed" /\ faulted' = e
  BY DEF UseStream
<1>3. e \in failed
  BY <1>1, <1>2 DEF IInv, At, ForetoldAt
<1>4. faulted' \in 0 .. N
  BY <1>2, NAssumption DEF Media
<1> QED BY <1>1, <1>2, <1>3, <1>4 DEF TypeOK, Media, history, IInv, FaultsAreForetold,
                                     NothingPlaysOn

-----------------------------------------------------------------------------
(* What restart_media_stream() does to an endpoint.                        *)
LEMMA BareFields ==
  ASSUME NEW p \in Endpoint, NEW q, q = Bare(p)
  PROVE  /\ q \in Endpoint /\ q.open = p.open /\ q.stream = p.stream
         /\ q.port = "none" /\ ~q.conf /\ q.clock = "none" /\ q.feature = NoFeature
<1>1. NoFeature \in [Features -> Statuses]
  BY DEF NoFeature, Statuses
<1> QED BY <1>1 DEF Bare, Endpoint, Ports, Clocks

LEMMA FreshFields ==
  /\ Fresh \in Endpoint /\ Fresh.open /\ Fresh.stream = "none" /\ Fresh.port = "none"
  /\ ~Fresh.conf /\ Fresh.clock = "none" /\ Fresh.feature = NoFeature
<1>1. NoFeature \in [Features -> Statuses]
  BY DEF NoFeature, Statuses
<1> QED BY <1>1 DEF Fresh, Endpoint, Ports, Clocks

LEMMA SilentFields ==
  ASSUME NEW p \in Endpoint, NEW q, q = Silent(p)
  PROVE  /\ q \in Endpoint /\ q.open = p.open /\ q.stream = p.stream /\ q.port = p.port
         /\ q.conf = p.conf /\ q.feature = p.feature
         /\ q.clock = "none" <=> p.clock = "none"
<1>1. PICK k \in Clocks : /\ k = "none" <=> p.clock = "none"
                          /\ q = [p EXCEPT !.clock = k]
  <2>1. CASE p.clock = "none"
    BY <2>1, EndpointFields DEF Silent, Clocks
  <2>2. CASE p.clock # "none"
    BY <2>2 DEF Silent, Clocks
  <2> QED BY <2>1, <2>2
<1> QED BY <1>1 DEF Endpoint

LEMMA PartedFields ==
  ASSUME NEW p \in Endpoint, NEW stream \in {"live", "destroyed"}, NEW q, q = Parted(p, stream)
  PROVE  /\ q \in Endpoint /\ q.open = p.open /\ q.stream = stream
         /\ q.port \notin {"in", "made"}
         /\ q.port = "none" <=> p.port = "none"
         /\ q.port = "lost" <=> p.port \in {"made", "lost"}
         /\ q.conf = p.conf /\ q.clock = p.clock /\ q.feature = p.feature
<1>1. p.port \in Ports
  BY EndpointFields
<1>2. PICK o : o = CASE p.port = "in" -> "stale" [] p.port = "made" -> "lost" [] OTHER -> p.port
  OBVIOUS
<1>3. /\ o \in Ports /\ o \notin {"in", "made"}
      /\ o = "none" <=> p.port = "none"
      /\ o = "lost" <=> p.port \in {"made", "lost"}
  <2>1. CASE p.port = "in"
    BY <1>2, <2>1 DEF Ports
  <2>2. CASE p.port = "made"
    BY <1>2, <2>2 DEF Ports
  <2>3. CASE p.port \notin {"in", "made"}
    BY <1>1, <1>2, <2>3 DEF Ports
  <2> QED BY <2>1, <2>2, <2>3
<1>4. q = [p EXCEPT !.stream = stream, !.port = o]
  BY <1>2 DEF Parted
<1> QED BY <1>3, <1>4 DEF Endpoint

LEMMA JoinedFields ==
  ASSUME NEW p \in Endpoint, NEW fs, NEW q, q = Joined(p, fs)
  PROVE  /\ q \in Endpoint /\ q.open = p.open /\ q.stream = p.stream /\ q.port = "in"
         /\ q.conf = p.conf /\ q.clock = p.clock
         /\ \A f \in Features :
              IF p.feature[f] \in {"none", "made"} THEN q.feature[f] = p.feature[f]
              ELSE q.feature[f] = IF f \in fs THEN "linked" ELSE "added"
<1>1. PICK g : g = [f \in Features |-> IF p.feature[f] \in {"none", "made"} THEN p.feature[f]
                                       ELSE IF f \in fs THEN "linked" ELSE "added"]
  OBVIOUS
<1>2. g \in [Features -> Statuses]
  BY <1>1 DEF Statuses
<1>3. q = [p EXCEPT !.port = "in", !.feature = g]
  BY <1>1 DEF Joined
<1>4. /\ q \in Endpoint /\ q.open = p.open /\ q.stream = p.stream /\ q.port = "in"
      /\ q.conf = p.conf /\ q.clock = p.clock /\ q.feature = g
  BY <1>2, <1>3 DEF Endpoint, Ports
<1> QED BY <1>1, <1>4

\* The feature ports of p are in q, linked or not.
Rejoined(p, q) ==
  \A f \in Features : IF p.feature[f] \in {"none", "made"} THEN q.feature[f] = p.feature[f]
                      ELSE q.feature[f] \in {"linked", "added"}

LEMMA RejoinedMarked ==
  ASSUME NEW p, NEW q, Rejoined(p, q), NEW so, Marked(p, so)
  PROVE  Marked(q, so)
BY DEF Rejoined, Marked

LEMMA RejoinedJoins ==
  ASSUME NEW p, NEW q, Rejoined(p, q), NEW st \in SUBSET Features, NEW so, NEW un, NEW e,
         Joins(p, st, so, un, e),
         q.port # "none", NEW um, q.clock = "none" => e \in um,
         \/ q.port \in {"made", "lost"} \/ e \in um
         \/ \A f \in Features : q.feature[f] # "added"
  PROVE  Joins(q, st, so, um, e)
BY DEF Rejoined, Joins

-----------------------------------------------------------------------------
(***************************************************************************)
(* A step of an update.  It goes on to the next medium, or ends the update *)
(* with or without an event, or waits; of the other media all that was     *)
(* said stays true.                                                        *)
(***************************************************************************)
AtLine ==
  /\ fault = "none" /\ line \in Media
  /\ eps' \in [Media -> Endpoint]
  /\ started' \in [Media -> SUBSET Features] /\ soiled' \in [Media -> SUBSET Features]
  /\ unnoticed' \in SUBSET Media
  /\ fault' = "none" /\ UNCHANGED faulted
  /\ waiting' \in [on : BOOLEAN, old : BOOLEAN, stopped : BOOLEAN]
  /\ waiting'.on => line' = line
  /\ \/ line' \in {0, line, line + 1} /\ UNCHANGED <<told, failed>>
     \/ SetUp
     \/ SetupFailed
  /\ \A e \in Media \ {line} : /\ eps'[e] = eps[e] /\ started'[e] = started[e]
                               /\ soiled'[e] = soiled[e]
                               /\ e \in unnoticed' <=> e \in unnoticed
  /\ UNCHANGED <<in_call, updates, commands, overtaken>>

LEMMA AtLineTyped ==
  ASSUME TypeOK, AtLine
  PROVE  TypeOK'
<1>1. line \in Nat /\ 1 <= line /\ line <= N /\ N \in Nat
  BY NAssumption DEF AtLine, Media
<1>2. line' \in 0 .. N + 1 /\ told' \in {"none", "ok", "setup_failed"} /\ failed' \in SUBSET Media
  <2>1. CASE line' \in {0, line, line + 1} /\ UNCHANGED <<told, failed>>
    BY <1>1, <2>1 DEF TypeOK
  <2>2. CASE SetupFailed
    BY <1>1, <2>2 DEF SetupFailed, AtLine, TypeOK
  <2>3. CASE SetUp
    BY <1>1, <2>3 DEF SetUp, NextLine, TypeOK
  <2> QED BY <2>1, <2>2, <2>3 DEF AtLine
<1> QED BY <1>2 DEF AtLine, TypeOK, Media

LEMMA ElsewhereAt ==
  ASSUME TypeOK, IInv, AtLine, NEW e \in Media \ {line}
  PROVE  At(e)'
<1>1. /\ QuietAt(e) /\ ForetoldAt(e) /\ JoiningAt(e) /\ WiredAt(e)
      /\ fault = "none" /\ Ordered /\ line \in Media
  BY DEF AtLine, IInv, At
<1>2. /\ eps'[e] = eps[e] /\ started'[e] = started[e] /\ soiled'[e] = soiled[e]
      /\ e \in unnoticed' <=> e \in unnoticed
      /\ in_call' = in_call /\ overtaken' = overtaken
  BY DEF AtLine
<1>3. e \in Nat /\ line \in Nat /\ e # line /\ e >= 1 /\ ~(waiting'.on /\ e = line')
  BY <1>1, MediaNat DEF AtLine
<1>4. QuietAt(e)'
  BY <1>1, <1>2, <1>3 DEF QuietAt
<1>5. ForetoldAt(e)'
  <2>1. e \in failed => e \in failed'
    BY DEF AtLine, SetUp, SetupFailed
  <2>2. eps[e].port = "stale" => e \in failed \/ overtaken
    BY <1>1, <1>3 DEF ForetoldAt
  <2> QED BY <1>1, <1>2, <2>1, <2>2 DEF ForetoldAt
<1>6. JoiningAt(e)'
  BY <1>1, <1>2 DEF JoiningAt, Joins
<1>7. WiredAt(e)'
  <2>1. Done(e)' => Done(e)
    <3>1. CASE line' = line + 1 /\ told' = told
      BY <1>3, <3>1 DEF Done
    <3>2. CASE line' \in {line, 0} /\ told' = told
      BY <1>3, <3>2 DEF Done
    <3>3. CASE SetupFailed
      BY <1>3, <3>3 DEF Done, SetupFailed
    <3> QED BY <3>1, <3>2, <3>3 DEF AtLine, SetUp, NextLine
  <2> QED BY <1>1, <1>2, <2>1 DEF WiredAt, Wired
<1> QED BY <1>4, <1>5, <1>6, <1>7 DEF At

LEMMA AtLineIInv ==
  ASSUME TypeOK, IInv, AtLine, NEW k \in Media, k = line,
         FaultsAreForetold', Paused', At(k)'
  PROVE  TypeOK' /\ IInv'
<1>1. \A e \in Media : At(e)'
  BY ElsewhereAt
<1>2. Ordered'
  <2>1. (in_call => ~overtaken) /\ (~in_call /\ ~overtaken => line = 0) /\ line # 0
    BY MediaNat DEF AtLine, IInv, Ordered
  <2>2. waiting'.on => line' \in Media
    BY DEF AtLine
  <2>3. UNCHANGED <<in_call, overtaken>>
    BY DEF AtLine
  <2> QED BY <2>1, <2>2, <2>3 DEF Ordered
<1>3. NothingPlaysOn'
  BY <1>1 DEF At, QuietAt, NothingPlaysOn
<1> QED BY <1>1, <1>2, <1>3, AtLineTyped DEF IInv

-----------------------------------------------------------------------------
(* The wait is over, or there was none: Wire().                            *)

\* What the features of the medium are known to be when the wiring of it ends.
Remembered ==
  /\ started' \in [Media -> SUBSET Features] /\ soiled' \in [Media -> SUBSET Features]
  /\ \A e \in Media \ {line} : started'[e] = started[e] /\ soiled'[e] = soiled[e]

Wiring == /\ fault = "none" /\ UNCHANGED misuse /\ line \in Media
          /\ waiting' = NotWaiting
          /\ Remembered
          /\ UNCHANGED <<in_call, updates, commands, overtaken>>

LEMMA WiringAtLine ==
  ASSUME TypeOK, Wiring, NEW q \in Endpoint, Becomes(q),
         \/ line' = 0 /\ UNCHANGED <<told, failed>>
         \/ SetUp
         \/ SetupFailed,
         unnoticed' \in {unnoticed, unnoticed \cup {line}, unnoticed \ {line}}
  PROVE  /\ AtLine /\ eps'[line] = q
         /\ ~waiting'.on /\ Paused'
<1>1. eps' \in [Media -> Endpoint] /\ eps'[line] = q /\ \A e \in Media \ {line} : eps'[e] = eps[e]
  BY DEF TypeOK, Becomes, Wiring
<1>2. unnoticed' \in SUBSET Media /\ \A e \in Media \ {line} : e \in unnoticed' <=> e \in unnoticed
  BY DEF TypeOK, Wiring
<1>3. /\ waiting' \in [on : BOOLEAN, old : BOOLEAN, stopped : BOOLEAN] /\ ~waiting'.on
  BY DEF Wiring, NotWaiting
<1>4. Paused'
  BY <1>3 DEF Paused
<1> QED BY <1>1, <1>2, <1>3, <1>4 DEF AtLine, Wiring, Remembered, misuse

(***************************************************************************)
(* The state of the medium k after its wiring: q.  When the update goes on *)
(* or says nothing it is wired, or something of it went unnoticed.         *)
(***************************************************************************)
LEMMA WiringIInv ==
  ASSUME TypeOK, IInv, Wiring, NEW k \in Media, k = line, NEW q \in Endpoint, Becomes(q),
         \/ line' = 0 /\ UNCHANGED <<told, failed>>
         \/ SetUp
         \/ SetupFailed,
         unnoticed' \in {unnoticed, unnoticed \cup {line}, unnoticed \ {line}},
         ~overtaken => q.open,
         Marked(q, soiled'[k]),
         q.port \in {"in", "made"}, q.port = "made" => SetupFailed,
         q.stream = "live",
         in_call => Joins(q, started'[k], soiled'[k], unnoticed', k),
         in_call /\ k \notin unnoticed' =>
           SetupFailed \/ (q.conf /\ q.clock = "running" /\ q.port = "in")
  PROVE  TypeOK' /\ IInv'
<1>1. /\ AtLine /\ eps'[k] = q /\ ~waiting'.on /\ Paused'
  BY WiringAtLine
<1>2. UNCHANGED <<in_call, overtaken>> /\ fault' = "none"
  BY DEF Wiring, misuse
<1>3. QuietAt(k)'
  BY <1>1, <1>2 DEF QuietAt
<1>4. ForetoldAt(k)'
  BY <1>1, <1>2 DEF ForetoldAt, SetupFailed
<1>5. JoiningAt(k)'
  BY <1>1, <1>2 DEF JoiningAt
<1>6. WiredAt(k)'
  <2>1. SUFFICES ASSUME in_call, k \notin unnoticed', Done(k)'
                 PROVE  Wired(k)'
    BY <1>2 DEF WiredAt
  <2>2. ~SetupFailed
    BY <2>1, MediaNat DEF SetupFailed, Done
  <2> QED BY <1>1, <2>1, <2>2 DEF Wired
<1>7. FaultsAreForetold'
  BY <1>2 DEF FaultsAreForetold
<1> QED BY <1>1, <1>3, <1>4, <1>5, <1>6, <1>7, AtLineIInv DEF At

\* The conference is made for b, of which no feature is left.
LEMMA MakeConfIInv ==
  ASSUME TypeOK, IInv, Wiring, NEW k \in Media, k = line, NEW b \in Endpoint,
         NEW kept \in BOOLEAN, MakeConf(b, kept),
         ~overtaken => b.open,
         Marked(b, soiled'[k]),
         b.stream = "live",
         in_call => b.feature = NoFeature /\ started'[k] = {}
  PROVE  TypeOK' /\ IInv'
<1>1. PICK clock \in Clocks :
        /\ unnoticed' = IF clock = "running" THEN unnoticed \ {line} ELSE unnoticed \cup {line}
        /\ \/ /\ Becomes([b EXCEPT !.port = "in", !.conf = TRUE, !.clock = clock])
              /\ IF kept /\ clock # "running" THEN SetupFailed ELSE SetUp
           \/ /\ \E conf \in {TRUE, clock # "none"} :
                   Becomes([b EXCEPT !.port = "made", !.conf = conf, !.clock = clock])
              /\ SetupFailed
  BY DEF MakeConf, Clocks
<1> DEFINE Made(port, conf, q) ==
             /\ port \in {"in", "made"} /\ conf \in BOOLEAN
             /\ q = [b EXCEPT !.port = port, !.conf = conf, !.clock = clock]
             /\ Becomes(q)
             /\ SetupFailed \/ (SetUp /\ port = "in" /\ conf)
             /\ port = "made" => SetupFailed
<1>20. \E port, conf, q : Made(port, conf, q)
  <2>1. CASE /\ Becomes([b EXCEPT !.port = "in", !.conf = TRUE, !.clock = clock])
             /\ IF kept /\ clock # "running" THEN SetupFailed ELSE SetUp
    <3>1. SetupFailed \/ SetUp
      BY <2>1
    <3>2. PICK q : q = [b EXCEPT !.port = "in", !.conf = TRUE, !.clock = clock]
      OBVIOUS
    <3>3. Made("in", TRUE, q)
      BY <2>1, <3>1, <3>2
    <3> HIDE DEF Made
    <3> QED BY <3>3
  <2>2. CASE /\ \E conf \in {TRUE, clock # "none"} :
                  Becomes([b EXCEPT !.port = "made", !.conf = conf, !.clock = clock])
             /\ SetupFailed
    <3>1. PICK conf \in {TRUE, clock # "none"} :
            Becomes([b EXCEPT !.port = "made", !.conf = conf, !.clock = clock])
      BY <2>2
    <3>2. PICK q : q = [b EXCEPT !.port = "made", !.conf = conf, !.clock = clock]
      OBVIOUS
    <3>3. Made("made", conf, q)
      BY <2>2, <3>1, <3>2
    <3> HIDE DEF Made
    <3> QED BY <3>3
  <2> HIDE DEF Made
  <2> QED BY <1>1, <2>1, <2>2
<1> HIDE DEF Made
<1>21. PICK port, conf, q : Made(port, conf, q)
  BY <1>20
<1>2. /\ port \in {"in", "made"} /\ conf \in BOOLEAN
      /\ q = [b EXCEPT !.port = port, !.conf = conf, !.clock = clock]
      /\ Becomes(q)
      /\ SetupFailed \/ (SetUp /\ port = "in" /\ conf)
      /\ port = "made" => SetupFailed
  BY <1>21 DEF Made
<1>3. /\ q \in Endpoint /\ q.open = b.open /\ q.stream = b.stream /\ q.port = port
      /\ q.conf = conf /\ q.clock = clock /\ q.feature = b.feature
  BY <1>2 DEF Endpoint, Ports
<1>4. Marked(q, soiled'[k])
  BY <1>3 DEF Marked
<1>5. in_call => Joins(q, started'[k], soiled'[k], unnoticed', k)
  <2>1. q.clock = "none" => k \in unnoticed'
    BY <1>1, <1>3
  <2> QED BY <1>2, <1>3, <2>1 DEF Joins, NoFeature
<1>6. k \notin unnoticed' => clock = "running"
  BY <1>1
<1>7. SetUp \/ SetupFailed
  BY <1>2
<1>8. unnoticed' \in {unnoticed, unnoticed \cup {line}, unnoticed \ {line}}
  BY <1>1
<1>9. /\ q \in Endpoint /\ Becomes(q) /\ q.port \in {"in", "made"}
      /\ ~overtaken => q.open
      /\ q.port = "made" => SetupFailed
      /\ q.stream = "live"
  BY <1>2, <1>3
<1>10. in_call /\ k \notin unnoticed' =>
         SetupFailed \/ (q.conf /\ q.clock = "running" /\ q.port = "in")
  BY <1>2, <1>3, <1>6
<1> QED BY <1>4, <1>5, <1>7, <1>8, <1>9, <1>10, WiringIInv

\* The conference is kept, and the new port takes the place of p's.
LEMMA KeepConfIInv ==
  ASSUME TypeOK, IInv, Wiring, NEW k \in Media, k = line, NEW p \in Endpoint,
         NEW stopped \in BOOLEAN, KeepConf(p, stopped),
         started'[k] = started[k], soiled'[k] = soiled[k],
         ~overtaken => p.open,
         Marked(p, soiled[k]),
         p.stream = "live",
         in_call => /\ Joins(p, started[k], soiled[k], unnoticed, k)
                    /\ stopped <=> p.clock # "none"
                    /\ p.port # "none"
  PROVE  TypeOK' /\ IInv'
<1>0. started[k] \in SUBSET Features
  BY DEF TypeOK
<1>1. CASE /\ p.conf
           /\ Becomes([Joined(p, Features) EXCEPT !.clock = IF stopped THEN "running" ELSE @])
           /\ SetUp
           /\ unnoticed' = IF stopped THEN unnoticed \ {line} ELSE unnoticed
  <2>1. PICK j : j = Joined(p, Features)
    OBVIOUS
  <2>2. /\ j \in Endpoint /\ j.open = p.open /\ j.stream = p.stream /\ j.port = "in"
        /\ j.conf = p.conf /\ j.clock = p.clock
        /\ \A f \in Features :
             IF p.feature[f] \in {"none", "made"} THEN j.feature[f] = p.feature[f]
             ELSE j.feature[f] = "linked"
    BY <2>1, JoinedFields
  <2>3. PICK clock \in Clocks : clock = IF stopped THEN "running" ELSE j.clock
    BY <2>2, EndpointFields DEF Clocks
  <2>4. PICK q : q = [j EXCEPT !.clock = clock]
    OBVIOUS
  <2>5. /\ q \in Endpoint /\ q.open = p.open /\ q.stream = p.stream /\ q.port = "in"
        /\ q.conf = p.conf /\ q.clock = clock /\ q.feature = j.feature
    BY <2>2, <2>4 DEF Endpoint
  <2>6. Becomes(q)
    BY <1>1, <2>1, <2>3, <2>4
  <2>7. Rejoined(p, q) /\ \A f \in Features : q.feature[f] # "added"
    BY <2>2, <2>5 DEF Rejoined
  <2>8. Marked(q, soiled'[k])
    BY <2>7, RejoinedMarked
  <2>9. in_call => Joins(q, started'[k], soiled'[k], unnoticed', k)
    <3>1. SUFFICES ASSUME in_call PROVE Joins(q, started'[k], soiled'[k], unnoticed', k)
      OBVIOUS
    <3>2. q.clock = "none" => k \in unnoticed'
      BY <1>1, <2>2, <2>3, <2>5, <3>1 DEF Joins
    <3> QED BY <1>0, <2>5, <2>7, <3>1, <3>2, RejoinedJoins
  <2>10. in_call /\ k \notin unnoticed' => clock = "running"
    BY <1>1, <2>3, <2>2 DEF Joins
  <2>11. /\ SetUp
         /\ unnoticed' \in {unnoticed, unnoticed \cup {line}, unnoticed \ {line}}
    BY <1>1
  <2> QED BY <1>1, <2>5, <2>6, <2>8, <2>9, <2>10, <2>11, WiringIInv
<1>2. CASE /\ Becomes([p EXCEPT !.port = "made", !.feature = Joined(p, {}).feature])
           /\ SetupFailed
           /\ UNCHANGED unnoticed
  <2>1. PICK j : j = Joined(p, {})
    OBVIOUS
  <2>2. /\ j \in Endpoint
        /\ \A f \in Features :
             IF p.feature[f] \in {"none", "made"} THEN j.feature[f] = p.feature[f]
             ELSE j.feature[f] = "added"
    BY <2>1, JoinedFields
  <2>3. PICK g \in [Features -> Statuses] : g = j.feature
    BY <2>2, EndpointFields
  <2>4. PICK q : q = [p EXCEPT !.port = "made", !.feature = g]
    OBVIOUS
  <2>5. /\ q \in Endpoint /\ q.open = p.open /\ q.stream = p.stream /\ q.port = "made"
        /\ q.clock = p.clock /\ q.feature = g
    BY <2>4 DEF Endpoint, Ports
  <2>6. Becomes(q)
    BY <1>2, <2>1, <2>3, <2>4
  <2>7. Rejoined(p, q)
    BY <2>2, <2>3, <2>5 DEF Rejoined
  <2>8. Marked(q, soiled'[k])
    BY <2>7, RejoinedMarked
  <2>9. in_call => Joins(q, started'[k], soiled'[k], unnoticed', k)
    <3>1. SUFFICES ASSUME in_call PROVE Joins(q, started'[k], soiled'[k], unnoticed', k)
      OBVIOUS
    <3>2. q.clock = "none" => k \in unnoticed'
      BY <1>2, <2>5, <3>1 DEF Joins
    <3> QED BY <1>0, <2>5, <2>7, <3>1, <3>2, RejoinedJoins
  <2> QED BY <1>2, <2>5, <2>6, <2>8, <2>9, WiringIInv
<1>3. ASSUME NEW fs, NEW j, j = Joined(p, fs), Becomes(j),
             \/ fs = Features /\ SetupFailed /\ UNCHANGED unnoticed
             \/ line' = 0 /\ UNCHANGED <<told, failed>> /\ unnoticed' = unnoticed \cup {line}
      PROVE  TypeOK' /\ IInv'
  <2>1. /\ j \in Endpoint /\ j.open = p.open /\ j.stream = p.stream /\ j.port = "in"
        /\ j.conf = p.conf /\ j.clock = p.clock
        /\ \A f \in Features :
             IF p.feature[f] \in {"none", "made"} THEN j.feature[f] = p.feature[f]
             ELSE j.feature[f] = IF f \in fs THEN "linked" ELSE "added"
    BY <1>3, JoinedFields
  <2>2. /\ Rejoined(p, j)
        /\ k \in unnoticed' \/ \A f \in Features : j.feature[f] # "added"
    BY <1>3, <2>1 DEF Rejoined
  <2>3. Marked(j, soiled'[k])
    BY <2>2, RejoinedMarked
  <2>4. in_call => Joins(j, started'[k], soiled'[k], unnoticed', k)
    <3>1. SUFFICES ASSUME in_call PROVE Joins(j, started'[k], soiled'[k], unnoticed', k)
      OBVIOUS
    <3>2. j.clock = "none" => k \in unnoticed'
      BY <1>3, <2>1, <3>1 DEF Joins
    <3> QED BY <1>0, <2>1, <2>2, <3>1, <3>2, RejoinedJoins
  <2>5. k \notin unnoticed' => SetupFailed
    BY <1>3
  <2>6. /\ (line' = 0 /\ UNCHANGED <<told, failed>>) \/ SetupFailed
        /\ unnoticed' \in {unnoticed, unnoticed \cup {line}, unnoticed \ {line}}
    BY <1>3
  <2> QED BY <1>3, <2>1, <2>3, <2>4, <2>5, <2>6, WiringIInv
<1>4. CASE p.conf /\ stopped /\ Becomes(Joined(p, Features)) /\ SetupFailed /\ UNCHANGED unnoticed
  BY <1>3, <1>4
<1>5. CASE /\ p.conf
           /\ \E fs \in SUBSET Features :
                Joined(p, Features) # Joined(p, fs) /\ Becomes(Joined(p, fs))
           /\ line' = 0
           /\ unnoticed' = unnoticed \cup {line}
           /\ UNCHANGED <<told, failed>>
  BY <1>3, <1>5
<1> QED BY <1>1, <1>2, <1>4, <1>5 DEF KeepConf

\* What the medium k of the line is when its wiring begins, as p.
Suits(p, k, old, stopped) ==
  /\ ~overtaken => p.open
  /\ Marked(p, soiled[k])
  /\ p.port = "lost" => k \in failed
  /\ p.stream = "live"
  /\ in_call => /\ Joins(p, started[k], soiled[k], unnoticed, k)
                /\ old <=> p.port # "none"
                /\ stopped <=> p.clock # "none"

LEMMA WireIInv ==
  ASSUME TypeOK, IInv, fault = "none", NEW k \in Media, k = line, NEW p \in Endpoint,
         NEW old \in BOOLEAN, NEW stopped \in BOOLEAN, Suits(p, k, old, stopped),
         Wire(p, old, stopped),
         UNCHANGED <<in_call, updates, commands, overtaken>>
  PROVE  TypeOK' /\ IInv'
<1>1. waiting' = NotWaiting
  BY DEF Wire
<1>2. Remembers => Remembered /\ started'[k] = started[k] /\ soiled'[k] = soiled[k]
  BY DEF Remembers, Remembered, TypeOK
<1>3. Forgets => Remembered /\ started'[k] = {}
  BY DEF Forgets, Remembered, TypeOK
<1>4. CASE ~old /\ MakeConf(p, FALSE) /\ Remembers /\ UNCHANGED misuse
  <2>1. Wiring /\ started'[k] = started[k] /\ soiled'[k] = soiled[k]
    BY <1>1, <1>2, <1>4 DEF Wiring
  <2>2. in_call => p.feature = NoFeature /\ started[k] = {}
    <3>1. started[k] \subseteq Features
      BY DEF TypeOK
    <3> QED BY <1>4, <3>1 DEF Suits, Joins, NoFeature
  <2> QED BY <1>4, <2>1, <2>2, MakeConfIInv DEF Suits
<1>5. CASE old /\ MakeConf(Bare(p), stopped) /\ Forgets /\ UNCHANGED misuse
  <2>1. Wiring /\ started'[k] = {}
    BY <1>1, <1>3, <1>5 DEF Wiring
  <2>2. PICK b : b = Bare(p)
    OBVIOUS
  <2>3. b \in Endpoint /\ b.open = p.open /\ b.stream = p.stream /\ b.feature = NoFeature
    BY <2>2, BareFields
  <2>4. Marked(b, soiled'[k])
    BY <2>3 DEF Marked, NoFeature
  <2>5. MakeConf(b, stopped)
    BY <1>5, <2>2
  <2> QED BY <2>1, <2>3, <2>4, <2>5, MakeConfIInv DEF Suits
<1>6. CASE old /\ p.port # "lost" /\ KeepConf(p, stopped) /\ Remembers /\ UNCHANGED misuse
  <2>1. Wiring /\ started'[k] = started[k] /\ soiled'[k] = soiled[k]
    BY <1>1, <1>2, <1>6 DEF Wiring
  <2> QED BY <1>6, <2>1, KeepConfIInv DEF Suits
<1>7. CASE /\ old /\ p.port = "lost"
           /\ fault' = "port" /\ faulted' = line
           /\ UNCHANGED <<eps, line, told, started, soiled, failed, unnoticed>>
  <2>1. k \in failed
    BY <1>7 DEF Suits
  <2>2. TypeOK'
    <3>1. faulted' \in 0 .. N
      BY <1>7, NAssumption DEF Media
    <3> QED BY <1>1, <1>7, <3>1 DEF TypeOK, NotWaiting, Media
  <2> QED BY <1>7, <2>1, <2>2 DEF IInv, FaultsAreForetold, NothingPlaysOn
<1> QED BY <1>4, <1>5, <1>6, <1>7 DEF Wire

-----------------------------------------------------------------------------
(* The steps of an update.                                                 *)

\* The update ends with an event that says so; q is the medium it was at.
LEMMA SetupFailedIInv ==
  ASSUME TypeOK, IInv, fault = "none", NEW k \in Media, k = line, NEW q \in Endpoint, Becomes(q),
         SetupFailed, waiting' \in [on : BOOLEAN, old : BOOLEAN, stopped : BOOLEAN], ~waiting'.on,
         UNCHANGED <<misuse, started, soiled, unnoticed, in_call, updates, commands, overtaken>>,
         ~overtaken => q.open,
         Marked(q, soiled[k]),
         in_call => Joins(q, started[k], soiled[k], unnoticed, k)
  PROVE  TypeOK' /\ IInv'
<1>1. eps' \in [Media -> Endpoint] /\ eps'[k] = q /\ \A e \in Media \ {line} : eps'[e] = eps[e]
  BY DEF TypeOK, Becomes
<1>2. AtLine
  BY <1>1 DEF AtLine, TypeOK, misuse
<1>3. QuietAt(k)' /\ ForetoldAt(k)' /\ JoiningAt(k)'
  BY <1>1 DEF QuietAt, ForetoldAt, JoiningAt, SetupFailed
<1>4. ~Done(k)'
  BY MediaNat DEF Done, SetupFailed
<1>5. FaultsAreForetold' /\ Paused'
  BY DEF FaultsAreForetold, Paused, misuse
<1> QED BY <1>2, <1>3, <1>4, <1>5, AtLineIInv DEF At, WiredAt

\* What the medium of the line is known to be, and so is the new one in its place.
LEMMA SubjectFacts ==
  ASSUME TypeOK, IInv, fault = "none", NEW k \in Media, k = line, ~waiting.on,
         NEW s, s = Subject
  PROVE  /\ s \in Endpoint /\ s.open
         /\ Marked(s, soiled[k])
         /\ s.port \in {"made", "lost"} => k \in failed
         /\ s.stream = "destroyed" => k \in failed
         /\ in_call => Joins(s, started[k], soiled[k], unnoticed, k)
<1>1. /\ eps[k] \in Endpoint /\ eps[k].open \in BOOLEAN
      /\ QuietAt(k) /\ ForetoldAt(k) /\ JoiningAt(k)
      /\ in_call => ~overtaken
      /\ started[k] \subseteq Features
  BY EndpointFields DEF TypeOK, IInv, At, Ordered
<1>2. CASE eps[k].open
  BY <1>1, <1>2 DEF Subject, Now, ForetoldAt, JoiningAt
<1>3. CASE ~eps[k].open
  <2>1. s = Fresh
    BY <1>3 DEF Subject, Now
  <2>2. Marked(s, soiled[k])
    BY <2>1, FreshFields DEF Marked, NoFeature
  <2>3. in_call => Joins(s, started[k], soiled[k], unnoticed, k)
    <3>1. SUFFICES ASSUME in_call PROVE Joins(s, started[k], soiled[k], unnoticed, k)
      OBVIOUS
    <3>2. eps[k].port = "none"
      BY <1>1, <1>3, <3>1 DEF QuietAt
    <3>3. started[k] = {}
      BY <1>1, <3>1, <3>2 DEF JoiningAt, Joins, NoFeature
    <3> QED BY <2>1, <3>3, FreshFields DEF Joins, NoFeature
  <2> QED BY <2>1, <2>2, <2>3, FreshFields
<1> QED BY <1>1, <1>2, <1>3

\* The same is known of it when its clock is stopped and its stream is gone.
LEMMA SameMarked ==
  ASSUME NEW p, NEW q, q.feature = p.feature, NEW so, Marked(p, so)
  PROVE  Marked(q, so)
BY DEF Marked

LEMMA SameJoins ==
  ASSUME NEW p, NEW q, NEW st, NEW so, NEW un, NEW e, Joins(p, st, so, un, e),
         q.feature = p.feature,
         q.clock = "none" <=> p.clock = "none", q.port = "none" <=> p.port = "none",
         p.port \in {"made", "lost"} => q.port \in {"made", "lost"}
  PROVE  Joins(q, st, so, un, e)
BY DEF Joins

LEMMA RestartMediaStreamIInv ==
  ASSUME TypeOK, IInv, RestartMediaStream
  PROVE  TypeOK' /\ IInv'
<1>1. PICK k \in Media : k = line
  BY DEF RestartMediaStream, Going
<1>2. PICK s : s = Subject
  OBVIOUS
<1>3. PICK p : p = Silent(s)
  OBVIOUS
<1>4. PICK alive : alive = Parted(p, "live")
  OBVIOUS
<1>5. PICK gone : gone = Parted(p, "destroyed")
  OBVIOUS
<1>6. PICK old \in BOOLEAN : old <=> p.port # "none"
  OBVIOUS
<1>7. PICK stopped \in BOOLEAN : stopped <=> s.clock # "none"
  OBVIOUS
<1>8. /\ fault = "none" /\ ~waiting.on
      /\ UNCHANGED <<in_call, updates, commands, overtaken>>
  BY DEF RestartMediaStream, Going, Running
<1>9. /\ s \in Endpoint /\ s.open
      /\ Marked(s, soiled[k])
      /\ s.port \in {"made", "lost"} => k \in failed
      /\ s.stream = "destroyed" => k \in failed
      /\ in_call => Joins(s, started[k], soiled[k], unnoticed, k)
  BY <1>1, <1>2, <1>8, SubjectFacts
<1>10. /\ p \in Endpoint /\ p.open /\ p.stream = s.stream /\ p.port = s.port
       /\ p.feature = s.feature
       /\ p.clock = "none" <=> s.clock = "none"
  BY <1>3, <1>9, SilentFields
<1>11. ASSUME NEW q, q \in {alive, gone}
       PROVE  /\ q \in Endpoint /\ q.open /\ q.feature = p.feature /\ q.clock = p.clock
              /\ q.port \notin {"in", "made"}
              /\ q.port = "none" <=> p.port = "none"
              /\ q.port = "lost" <=> p.port \in {"made", "lost"}
  BY <1>4, <1>5, <1>10, <1>11, PartedFields
<1>12. alive.stream = "live"
  BY <1>4, <1>10, PartedFields
<1>13. ASSUME NEW q \in {p, alive, gone}
       PROVE  /\ q \in Endpoint /\ q.open
              /\ Marked(q, soiled[k])
              /\ in_call => Joins(q, started[k], soiled[k], unnoticed, k)
  <2>1. /\ q \in Endpoint /\ q.open /\ q.feature = s.feature
        /\ q.clock = "none" <=> s.clock = "none"
        /\ q.port = "none" <=> s.port = "none"
        /\ s.port \in {"made", "lost"} => q.port \in {"made", "lost"}
    BY <1>10, <1>11
  <2>2. Marked(q, soiled[k])
    BY <1>9, <2>1, SameMarked
  <2>3. in_call => Joins(q, started[k], soiled[k], unnoticed, k)
    BY <1>9, <2>1, SameJoins
  <2> QED BY <2>1, <2>2, <2>3
<1>14. CASE /\ p.stream = "destroyed" \/ ~in_call
            /\ fault' = "stream" /\ faulted' = line
            /\ UNCHANGED <<eps, line, waiting, told, history>>
  <2>1. k \in failed \/ overtaken
    <3>1. CASE p.stream = "destroyed"
      BY <1>9, <1>10, <3>1
    <3>2. CASE ~in_call
      BY <1>1, <1>8, <3>2, MediaNat DEF IInv, Ordered
    <3> QED BY <1>14, <3>1, <3>2
  <2>2. TypeOK'
    <3>1. faulted' \in 0 .. N
      BY <1>14, <1>1, NAssumption DEF Media
    <3> QED BY <1>8, <1>14, <3>1 DEF TypeOK, history, Media
  <2> QED BY <1>1, <1>8, <1>14, <2>1, <2>2 DEF IInv, FaultsAreForetold, NothingPlaysOn, history
<1>15. ASSUME NEW q \in {p, alive, gone}, Becomes(q), SetupFailed,
              UNCHANGED <<waiting, misuse, started, soiled, unnoticed>>
       PROVE  TypeOK' /\ IInv'
  <2>1. waiting' \in [on : BOOLEAN, old : BOOLEAN, stopped : BOOLEAN] /\ ~waiting'.on
    BY <1>8, <1>15 DEF TypeOK
  <2> QED BY <1>1, <1>8, <1>13, <1>15, <2>1, SetupFailedIInv
<1>16. CASE /\ in_call
            /\ Becomes(alive)
            /\ waiting' = [on |-> TRUE, old |-> old, stopped |-> stopped]
            /\ UNCHANGED <<line, told, misuse, history>>
  <2>1. eps' \in [Media -> Endpoint] /\ eps'[k] = alive
        /\ \A e \in Media \ {line} : eps'[e] = eps[e]
    BY <1>1, <1>13, <1>16 DEF TypeOK, Becomes
  <2>2. /\ waiting' \in [on : BOOLEAN, old : BOOLEAN, stopped : BOOLEAN]
        /\ waiting'.on /\ waiting'.old = old /\ waiting'.stopped = stopped
    BY <1>16
  <2>3. AtLine
    BY <1>1, <1>8, <1>16, <2>1, <2>2 DEF AtLine, TypeOK, history, misuse
  <2>4. QuietAt(k)'
    BY <1>13, <2>1 DEF QuietAt
  <2>5. ForetoldAt(k)'
    <3>1. UNCHANGED <<soiled, failed, line>>
      BY <1>16 DEF history
    <3>2. alive.port = "lost" => k \in failed
      BY <1>9, <1>10, <1>11
    <3> QED BY <1>1, <1>11, <1>12, <1>13, <2>1, <2>2, <3>1, <3>2 DEF ForetoldAt
  <2>6. JoiningAt(k)'
    BY <1>8, <1>13, <1>16, <2>1 DEF JoiningAt, history
  <2>7. ~Done(k)'
    <3>1. line' = line
      BY <1>16
    <3> QED BY <1>1, <2>2, <3>1, MediaNat DEF Done
  <2>8. FaultsAreForetold'
    BY <1>8, <1>16 DEF FaultsAreForetold, misuse
  <2>9. Paused'
    <3>1. line' = k
      BY <1>1, <1>16
    <3>2. /\ alive.stream = "live" /\ alive.port # "in"
          /\ old <=> alive.port # "none"
          /\ stopped <=> alive.clock # "none"
      BY <1>6, <1>7, <1>10, <1>11, <1>12
    <3> QED BY <2>1, <2>2, <3>1, <3>2 DEF Paused
  <2> QED BY <1>1, <2>3, <2>4, <2>5, <2>6, <2>7, <2>8, <2>9, AtLineIInv DEF At, WiredAt
<1>17. CASE in_call /\ Wire(alive, old, stopped)
  <2>1. Suits(alive, k, old, stopped)
    BY <1>6, <1>7, <1>9, <1>10, <1>11, <1>12, <1>13 DEF Suits
  <2> QED BY <1>1, <1>8, <1>13, <1>17, <2>1, WireIInv
<1>18. p = Silent(Subject) /\ old = (p.port # "none") /\ stopped = (Subject.clock # "none")
  BY <1>2, <1>3, <1>6, <1>7
<1> QED
  <2>1. \/ /\ p.stream = "destroyed" \/ ~in_call
           /\ fault' = "stream" /\ faulted' = line
           /\ UNCHANGED <<eps, line, waiting, told, history>>
        \/ /\ p.stream # "destroyed" /\ in_call
           /\ \/ /\ \/ Becomes(p)
                    \/ p.stream # "none" /\ Becomes(gone)
                    \/ Becomes(alive)
                 /\ SetupFailed
                 /\ UNCHANGED <<waiting, misuse, started, soiled, unnoticed>>
              \/ /\ line \in IceMedia
                 /\ Becomes(alive)
                 /\ waiting' = [on |-> TRUE, old |-> old, stopped |-> stopped]
                 /\ UNCHANGED <<line, told, misuse, history>>
              \/ /\ line \notin IceMedia
                 /\ Wire(alive, old, stopped)
    BY <1>4, <1>5, <1>18, Zenon DEF RestartMediaStream
  <2> QED BY <1>14, <1>15, <1>16, <1>17, <2>1

LEMMA IceDoneIInv ==
  ASSUME TypeOK, IInv, IceDone
  PROVE  TypeOK' /\ IInv'
<1>1. /\ fault = "none" /\ waiting.on /\ UNCHANGED <<in_call, updates, commands, overtaken>>
      /\ line \in Media
  BY DEF IceDone, Running, IInv, Ordered
<1>2. PICK k \in Media : k = line
  BY <1>1
<1>3. PICK p \in Endpoint : p = eps[k]
  BY DEF TypeOK
<1>4. QuietAt(k) /\ ForetoldAt(k) /\ JoiningAt(k) /\ Paused
  BY <1>1 DEF IInv, At
<1>5. PICK old \in BOOLEAN, stopped \in BOOLEAN : old = waiting.old /\ stopped = waiting.stopped
  BY DEF TypeOK
<1>6. CASE Wire(Now, waiting.old, waiting.stopped)
  <2>1. Wire(p, old, stopped)
    BY <1>2, <1>3, <1>5, <1>6 DEF Now
  <2>2. Suits(p, k, old, stopped)
    BY <1>1, <1>2, <1>3, <1>4, <1>5 DEF Suits, QuietAt, ForetoldAt, JoiningAt, Paused
  <2> QED BY <1>1, <1>2, <2>1, <2>2, WireIInv
<1>7. CASE /\ waiting' = NotWaiting
           /\ SetupFailed
           /\ UNCHANGED <<eps, misuse, started, soiled, unnoticed>>
  <2>1. Becomes(p)
    BY <1>2, <1>3, <1>7 DEF Becomes, TypeOK
  <2>2. waiting' \in [on : BOOLEAN, old : BOOLEAN, stopped : BOOLEAN] /\ ~waiting'.on
    BY <1>7 DEF NotWaiting
  <2>3. (~overtaken => p.open) /\ Marked(p, soiled[k])
        /\ (in_call => Joins(p, started[k], soiled[k], unnoticed, k))
    BY <1>1, <1>2, <1>3, <1>4 DEF QuietAt, ForetoldAt, JoiningAt
  <2> QED BY <1>1, <1>2, <1>7, <2>1, <2>2, <2>3, SetupFailedIInv
<1> QED BY <1>6, <1>7 DEF IceDone

LEMMA LineOffIInv ==
  ASSUME TypeOK, IInv, LineOff
  PROVE  TypeOK' /\ IInv'
<1>1. /\ fault = "none" /\ ~waiting.on /\ line \in Media
      /\ UNCHANGED <<in_call, updates, commands, overtaken>>
      /\ line' = line + 1 /\ UNCHANGED <<told, failed, waiting, fault, faulted, unnoticed>>
      /\ started' = [started EXCEPT ![line] = {}] /\ soiled' = [soiled EXCEPT ![line] = {}]
  BY DEF LineOff, Going, Running, Forgets, NextLine, misuse
<1>2. PICK k \in Media : k = line
  BY <1>1
<1>3. PICK b : b = Bare(eps[k])
  OBVIOUS
<1>4. /\ b \in Endpoint /\ b.stream = eps[k].stream /\ b.port = "none" /\ ~b.conf
      /\ b.clock = "none" /\ b.feature = NoFeature
  BY <1>3, BareFields DEF TypeOK
<1>5. PICK q : q = [b EXCEPT !.open = FALSE]
  OBVIOUS
<1>6. /\ q \in Endpoint /\ ~q.open /\ q.stream = eps[k].stream /\ q.port = "none" /\ ~q.conf
      /\ q.clock = "none" /\ q.feature = NoFeature
  BY <1>4, <1>5 DEF Endpoint
<1>7. eps' = [eps EXCEPT ![line] = q]
  BY <1>2, <1>3, <1>5 DEF LineOff, Becomes, Now
<1>8. /\ eps' \in [Media -> Endpoint] /\ eps'[k] = q /\ started'[k] = {} /\ soiled'[k] = {}
      /\ started' \in [Media -> SUBSET Features] /\ soiled' \in [Media -> SUBSET Features]
      /\ \A e \in Media \ {line} : /\ eps'[e] = eps[e] /\ started'[e] = started[e]
                                   /\ soiled'[e] = soiled[e]
  BY <1>1, <1>2, <1>6, <1>7 DEF TypeOK
<1>9. AtLine
  BY <1>1, <1>8 DEF AtLine, TypeOK
<1>10. QuietAt(k)' /\ WiredAt(k)'
  BY <1>1, <1>6, <1>8 DEF QuietAt, WiredAt
<1>11. ForetoldAt(k)'
  <2>1. eps[k].stream = "destroyed" => k \in failed
    BY <1>1, <1>2 DEF IInv, At, ForetoldAt
  <2>2. Marked(q, {})
    BY <1>6 DEF Marked, NoFeature
  <2> QED BY <1>1, <1>6, <1>8, <2>1, <2>2 DEF ForetoldAt
<1>12. JoiningAt(k)'
  BY <1>6, <1>8 DEF JoiningAt, Joins, NoFeature
<1>13. FaultsAreForetold' /\ Paused'
  BY <1>1 DEF FaultsAreForetold, Paused
<1> QED BY <1>2, <1>9, <1>10, <1>11, <1>12, <1>13, AtLineIInv DEF At

\* Between two updates no medium waits.
LEMMA OnMediaUpdateIInv ==
  ASSUME TypeOK, IInv, OnMediaUpdate
  PROVE  TypeOK' /\ IInv'
<1>1. /\ fault = "none" /\ in_call /\ line = 0 /\ line' = 1
      /\ updates < MaxUpdates /\ updates' = updates + 1
      /\ UNCHANGED <<eps, in_call, waiting, told, commands, fault, faulted, started, soiled,
                     failed, unnoticed, overtaken>>
  BY DEF OnMediaUpdate, Running, history, misuse
<1>2. ~waiting.on /\ Ordered /\ \A e \in Media : At(e)
  BY <1>1, MediaNat DEF IInv, Ordered
<1>3. TypeOK'
  BY <1>1, NAssumption DEF TypeOK, Media
<1>4. ASSUME NEW e \in Media PROVE At(e)'
  <2>1. Done(e)' => Done(e)
    BY <1>1, <1>2, MediaNat DEF Done
  <2>2. WiredAt(e)'
    BY <1>1, <1>2, <2>1 DEF At, WiredAt, Wired
  <2>3. QuietAt(e)' /\ ForetoldAt(e)' /\ JoiningAt(e)'
    BY <1>1, <1>2 DEF At, QuietAt, ForetoldAt, JoiningAt
  <2> QED BY <2>2, <2>3 DEF At
<1>5. Ordered' /\ Paused'
  BY <1>1, <1>2 DEF Ordered, Paused
<1>6. FaultsAreForetold' /\ NothingPlaysOn'
  BY <1>1 DEF IInv, FaultsAreForetold, NothingPlaysOn
<1> QED BY <1>3, <1>4, <1>5, <1>6 DEF IInv

LEMMA UpdateOkIInv ==
  ASSUME TypeOK, IInv, UpdateOk
  PROVE  TypeOK' /\ IInv'
<1>1. /\ fault = "none" /\ line = N + 1 /\ line' = 0 /\ told' = "ok"
      /\ UNCHANGED <<eps, in_call, waiting, updates, commands, fault, faulted, started, soiled,
                     failed, unnoticed, overtaken>>
  BY DEF UpdateOk, Running, history, misuse
<1>2. ~waiting.on /\ Ordered /\ \A e \in Media : At(e)
  BY <1>1, NAssumption, MediaNat DEF IInv, Ordered
<1>3. TypeOK'
  BY <1>1, NAssumption DEF TypeOK, Media
<1>4. ASSUME NEW e \in Media PROVE At(e)'
  <2>1. Done(e)
    BY <1>1, NAssumption, MediaNat DEF Done
  <2>2. WiredAt(e)'
    BY <1>1, <1>2, <2>1 DEF At, WiredAt, Wired
  <2>3. QuietAt(e)' /\ ForetoldAt(e)' /\ JoiningAt(e)'
    BY <1>1, <1>2 DEF At, QuietAt, ForetoldAt, JoiningAt
  <2> QED BY <2>2, <2>3 DEF At
<1>5. Ordered' /\ Paused'
  BY <1>1, <1>2 DEF Ordered, Paused
<1>6. FaultsAreForetold' /\ NothingPlaysOn'
  BY <1>1 DEF IInv, FaultsAreForetold, NothingPlaysOn
<1> QED BY <1>3, <1>4, <1>5, <1>6 DEF IInv

LEMMA DisconnectedIInv ==
  ASSUME TypeOK, IInv, Disconnected
  PROVE  TypeOK' /\ IInv'
<1>1. /\ fault = "none" /\ in_call /\ (line = 0 \/ waiting.on) /\ ~in_call'
      /\ eps' = Closed /\ overtaken' = waiting.on /\ in_call' \in BOOLEAN
      /\ UNCHANGED <<line, waiting, told, updates, commands, fault, faulted, started, soiled,
                     failed, unnoticed>>
  BY DEF Disconnected, Running, update, misuse
<1>2. Ordered /\ \A e \in Media : At(e)
  BY <1>1 DEF IInv
<1>3. ASSUME NEW e \in Media
      PROVE  /\ eps'[e] \in Endpoint /\ ~eps'[e].open /\ eps'[e].stream = eps[e].stream
             /\ eps'[e].port = "none" /\ ~eps'[e].conf
             /\ eps'[e].clock = "none" /\ eps'[e].feature = NoFeature
  <2>1. PICK b : b = Bare(eps[e])
    OBVIOUS
  <2>2. /\ b \in Endpoint /\ b.stream = eps[e].stream /\ b.port = "none" /\ ~b.conf
        /\ b.clock = "none" /\ b.feature = NoFeature
    BY <2>1, BareFields DEF TypeOK
  <2>3. eps'[e] = [b EXCEPT !.open = FALSE]
    BY <1>1, <2>1 DEF Closed
  <2> QED BY <2>2, <2>3 DEF Endpoint
<1>4. eps' \in [Media -> Endpoint]
  BY <1>1, <1>3 DEF Closed
<1>5. TypeOK'
  BY <1>1, <1>4 DEF TypeOK, Media
<1>6. ASSUME NEW e \in Media PROVE At(e)'
  <2>1. ForetoldAt(e)'
    <3>1. Marked(eps'[e], soiled[e])
      BY <1>3 DEF Marked, NoFeature
    <3>2. eps[e].stream = "destroyed" => e \in failed
      BY <1>2 DEF At, ForetoldAt
    <3> QED BY <1>1, <1>3, <3>1, <3>2 DEF ForetoldAt
  <2>2. QuietAt(e)'
    BY <1>1, <1>3 DEF QuietAt
  <2> QED BY <1>1, <2>1, <2>2 DEF At, JoiningAt, WiredAt
<1>7. Ordered' /\ Paused'
  BY <1>1, <1>2, <1>3 DEF Ordered, Paused, IInv
<1>8. FaultsAreForetold' /\ NothingPlaysOn'
  BY <1>1, <1>3 DEF FaultsAreForetold, NothingPlaysOn
<1> QED BY <1>5, <1>6, <1>7, <1>8 DEF IInv

-----------------------------------------------------------------------------
LEMMA InitIInv == Init => TypeOK /\ IInv
<1> SUFFICES ASSUME Init PROVE TypeOK /\ IInv
  OBVIOUS
<1>1. eps \in [Media -> Endpoint] /\ \A e \in Media : eps[e] = Fresh
  BY FreshFields DEF Init
<1>2. TypeOK
  <2>1. line \in 0 .. N + 1 /\ updates \in 0 .. MaxUpdates /\ commands \in 0 .. MaxCommands
    BY NAssumption DEF Init
  <2>4. faulted \in 0 .. N
    BY NAssumption DEF Init
  <2>2. waiting \in [on : BOOLEAN, old : BOOLEAN, stopped : BOOLEAN]
    BY DEF Init, NotWaiting
  <2>3. started \in [Media -> SUBSET Features] /\ soiled \in [Media -> SUBSET Features]
    BY DEF Init
  <2> QED BY <1>1, <2>1, <2>2, <2>3, <2>4 DEF Init, TypeOK
<1>3. ASSUME NEW e \in Media PROVE At(e)
  <2>1. ForetoldAt(e)
    BY <1>1, FreshFields DEF ForetoldAt, Marked, NoFeature
  <2>2. JoiningAt(e)
    BY <1>1, FreshFields DEF JoiningAt, Joins, NoFeature, Init
  <2>3. QuietAt(e)
    BY <1>1, FreshFields DEF QuietAt, Init, NotWaiting
  <2>4. ~Done(e)
    BY MediaNat DEF Done, Init
  <2> QED BY <2>1, <2>2, <2>3, <2>4 DEF At, WiredAt
<1>4. Ordered /\ Paused /\ FaultsAreForetold
  BY DEF Init, Ordered, Paused, NotWaiting, FaultsAreForetold
<1>5. NothingPlaysOn
  BY <1>1, FreshFields DEF NothingPlaysOn
<1> QED BY <1>2, <1>3, <1>4, <1>5 DEF IInv

LEMMA NextIInv == TypeOK /\ IInv /\ [Next]_vars => TypeOK' /\ IInv'
<1> SUFFICES ASSUME TypeOK, IInv, [Next]_vars PROVE TypeOK' /\ IInv'
  OBVIOUS
<1>1. CASE SendDtmf \/ SendBfsk
  BY <1>1, PreparedOnceStarts, StartsIInv
<1>2. CASE StartPlayWav \/ StartRecordWav \/ StartSpeechRecog \/ StartSpeechSynth
  BY <1>2, ReadyStarts, StartsIInv
<1>3. CASE StartEnvelopeDetection
  BY <1>3, PreparedAnewStarts, StartsIInv
<1>4. CASE StartInbandDtmfDetection \/ StartBfskDetection
  BY <1>4, DetectionStarts, StartsIInv DEF StartInbandDtmfDetection, StartBfskDetection
<1>5. CASE StartFax
  <2>1. CASE Start("player", OneOrAll, Ready)
    BY <2>1, ReadyStarts, StartsIInv
  <2>2. CASE Start("envelope", One, PreparedAnew)
    BY <2>2, PreparedAnewStarts, StartsIInv
  <2> QED BY <1>5, <2>1, <2>2 DEF StartFax
<1>6. CASE Stop
  BY <1>6, StopIInv
<1>7. CASE DialDtmf \/ GetStreamStat
  BY <1>7, UseStreamIInv DEF DialDtmf, GetStreamStat
<1>8. CASE OnMediaUpdate
  BY <1>8, OnMediaUpdateIInv
<1>9. CASE RestartMediaStream
  BY <1>9, RestartMediaStreamIInv
<1>10. CASE IceDone
  BY <1>10, IceDoneIInv
<1>11. CASE LineOff
  BY <1>11, LineOffIInv
<1>12. CASE UpdateOk
  BY <1>12, UpdateOkIInv
<1>13. CASE Disconnected
  BY <1>13, DisconnectedIInv
<1>14. CASE UNCHANGED vars
  <2>1. UNCHANGED <<eps, in_call, line, waiting, told, updates, commands, fault, faulted, started,
                    soiled, failed, unnoticed, overtaken>>
    BY <1>14 DEF vars, update, history, misuse
  <2>2. TypeOK'
    BY <2>1 DEF TypeOK, Media
  <2>3. \A e \in Media : At(e) => At(e)'
    BY <2>1 DEF At, QuietAt, ForetoldAt, JoiningAt, WiredAt, Done, Wired
  <2> QED BY <2>1, <2>2, <2>3 DEF IInv, Ordered, Paused, FaultsAreForetold, NothingPlaysOn
<1> QED BY <1>1, <1>2, <1>3, <1>4, <1>5, <1>6, <1>7, <1>8, <1>9, <1>10, <1>11, <1>12, <1>13,
           <1>14 DEF Next

LEMMA Invariance == Spec => [](TypeOK /\ IInv)
BY InitIInv, NextIInv, PTL DEF Spec

(***************************************************************************)
(* Each variable keeps to its type: an AudioEndpoint has a stream, a port, *)
(* a conference and a clock in one of the conditions the code knows, and   *)
(* its features are those of the client.                                   *)
(***************************************************************************)
THEOREM TypeCorrect == Spec => []TypeOK
BY Invariance, PTL

(***************************************************************************)
(* After a media_update that says ok every medium in use is wired: it has  *)
(* a stream in a conference whose clock runs, and what is not soiled of    *)
(* its features is joined to the stream (restart_media_stream).            *)
(***************************************************************************)
THEOREM WiredCorrect == Spec => []OkMeansWired
<1>1. TypeOK /\ IInv => OkMeansWired
  <2> SUFFICES ASSUME TypeOK, IInv, AtRest, told = "ok",
                      NEW e \in Media \ unnoticed, eps[e].open
               PROVE  /\ eps[e].stream = "live" /\ eps[e].port = "in"
                      /\ eps[e].conf /\ eps[e].clock = "running"
                      /\ \A f \in Features \ soiled[e] : eps[e].feature[f] \in {"none", "linked"}
    BY DEF OkMeansWired
  <2>1. in_call /\ WiredAt(e) /\ JoiningAt(e) /\ ForetoldAt(e) /\ Done(e)
    BY MediaNat DEF AtRest, IInv, At, Done
  <2>2. Wired(e)
    BY <2>1 DEF WiredAt
  <2>3. \A f \in Features : eps[e].feature[f] \in Statuses
    BY EndpointFields DEF TypeOK
  <2> QED BY <2>1, <2>2, <2>3 DEF Wired, JoiningAt, Joins, ForetoldAt, Marked, Statuses
<1> QED BY <1>1, Invariance, PTL

(***************************************************************************)
(* A feature the client was told had started is joined to the stream while *)
(* the last media_update said ok, through every re-INVITE that keeps the   *)
(* format (audio_endpoint_start_..., restart_media_stream).                *)
(***************************************************************************)
THEOREM StartedCorrect == Spec => []StartedMeansRunning
<1>1. TypeOK /\ IInv => StartedMeansRunning
  <2> SUFFICES ASSUME TypeOK, IInv, AtRest, told = "ok",
                      NEW e \in Media \ unnoticed, NEW f \in started[e] \ soiled[e]
               PROVE  eps[e].feature[f] = "linked"
    BY DEF StartedMeansRunning
  <2>1. /\ in_call /\ WiredAt(e) /\ JoiningAt(e) /\ ForetoldAt(e) /\ Done(e) /\ QuietAt(e)
        /\ ~overtaken
    BY MediaNat DEF AtRest, IInv, At, Done, Ordered
  <2>2. f \in Features
    BY DEF TypeOK
  <2>3. eps[e].feature[f] \in Statuses /\ eps[e].feature[f] # "none"
    BY <2>1, <2>2, EndpointFields DEF TypeOK, JoiningAt, Joins
  <2>4. eps[e].open
    BY <2>1, <2>2, <2>3 DEF QuietAt, JoiningAt, Joins, NoFeature
  <2>5. Wired(e)
    BY <2>1, <2>4 DEF WiredAt
  <2> QED BY <2>1, <2>2, <2>3, <2>5 DEF Wired, JoiningAt, Joins, ForetoldAt, Marked, Statuses
<1> QED BY <1>1, Invariance, PTL

(***************************************************************************)
(* A destroyed stream, its port or the slot of a port that has none is     *)
(* used only on a medium whose last setup had failed, for a feature of     *)
(* which a start on that medium was refused, by a feature that does not    *)
(* look for the stream's port, or where the call ended within the wait for *)
(* ICE (restart_media_stream, audio_endpoint_start_..., pjw_call_...).     *)
(***************************************************************************)
THEOREM FaultsCorrect == Spec => []FaultsAreForetold
<1>1. IInv => FaultsAreForetold
  BY DEF IInv
<1> QED BY <1>1, Invariance, PTL

(***************************************************************************)
(* No medium that is off, and none of a call that ended, keeps a           *)
(* conference or a clock (close_media, close_media_endpoint).              *)
(***************************************************************************)
THEOREM QuietCorrect == Spec => []NothingPlaysOn
<1>1. IInv => NothingPlaysOn
  BY DEF IInv
<1> QED BY <1>1, Invariance, PTL

-----------------------------------------------------------------------------
(***************************************************************************)
(* The detectors: bursts are reported whole, no digit is lost but where    *)
(* NothingLost says so, and none is overtaken but where InOrder says so.   *)
(*                                                                         *)
(* The argument: between a detector and the client there are the buffer    *)
(* and the queue; each holds a channel's digits in ascending order, and    *)
(* everything in the queue comes before everything in the buffer (Queued). *)
(* A digit is pushed past a buffer only while its timer is off, and then   *)
(* all that is in the buffer is parked (OffParked).  What an unlocked push *)
(* may take with it lies behind the end it has read, and was pushed since, *)
(* that is, during the push (Behind).                                      *)
(***************************************************************************)

\* The first part of the inductive invariant is about buffers and time and holds for all
\* uses.
BufferType == /\ use \in Uses
              /\ timer \in [{"dtmf", "bfsk"} -> use.timers]
              /\ pc \in [Channels -> {"idle", "buffering", "reporting", "pushing"}]
              /\ Buffers \in [Channels -> Seq(Digits)]
              /\ \A c \in Channels : Len(Buffers[c]) <= MAXDIGITS + 1
              /\ detected \in [Channels -> Digits]
              /\ timestamp \in [Channels -> 0 .. DayMs - 1]
              /\ touched \in [Channels -> Nat]
              /\ now \in Nat

\* A timestamp is that of the last digit.
Touched == \A c \in Channels :
             /\ touched[c] <= now
             /\ timestamp[c] = 0 \/ timestamp[c] = touched[c] % DayMs

Timed == BufferType /\ Touched

\* The second part is about the digits on their way.
Events == [chan : Channels \cup {"call"}, digits : Seq(Digits)]

QueueType == /\ has_id \in BOOLEAN
             /\ slot \in [Channels -> Nat]
             /\ g_events \in Seq(Events)
             /\ popped \in Nat
             /\ handed \in [Channels -> Seq(Digits)]
             /\ dropped \in [Channels -> SUBSET Digits]
             /\ parked \in [Channels -> SUBSET Digits]
             /\ clashed \in [Channels -> SUBSET Digits]
             /\ others \in 0 .. use.others

\* What is behind the end that the push of c has read was pushed during that push.
Behind(c) ==
  /\ slot[c] # popped + Len(g_events) => detected[c] \in clashed[c]
  /\ \A n \in DOMAIN g_events : n > slot[c] - popped =>
       \A d \in Channels : Range(Carried(d, n)) \subseteq clashed[d]

Race == /\ \A c \in Pushing : Behind(c)
        /\ \A c, d \in Pushing : c # d => detected[c] \in clashed[c]

\* What is kept was detected, and is not what is in hand.
Earlier(c, s) == \A k \in DOMAIN s : /\ s[k] <= detected[c]
                                     /\ pc[c] # "idle" => s[k] < detected[c]

KeptDetected(c) == /\ Earlier(c, handed[c]) /\ Earlier(c, Buffers[c])
                   /\ \A n \in DOMAIN g_events : Earlier(c, Carried(c, n))

\* A NUL can only be at the start of a buffer.
NulFirst(c) == /\ \A k \in DOMAIN Buffers[c] : Buffers[c][k] = Nul => k = 1
               /\ pc[c] # "idle" => 0 < detected[c]

OffParked(c) ==
  /\ TimerOf(c) = 0 => Waiting(c) \subseteq parked[c] \cup {Nul}
  /\ pc[c] \in {"reporting", "pushing"} => Range(Buffers[c]) \subseteq parked[c] \cup {Nul}

Held(c) ==
  1 .. detected[c] \subseteq Kept(c) \cup InHand(c) \cup dropped[c] \cup clashed[c]

ChannelOK(c) == KeptDetected(c) /\ NulFirst(c) /\ OffParked(c) /\ Held(c) /\ Queued(c)

DetectorInv == Timed /\ QueueType /\ Race /\ \A c \in Channels : ChannelOK(c)
-----------------------------------------------------------------------------
(***************************************************************************)
(* Buffers and time.                                                       *)
(***************************************************************************)

\* A time of day cannot have run further than the clock has.
LEMMA DayTimes ==
  ASSUME NEW D \in Nat \ {0}, NEW a \in Nat, NEW b \in Nat, b <= a
  PROVE  a % D > b % D => (a % D) - (b % D) <= a - b
<1>1. /\ a = D * (a \div D) + (a % D) /\ a \div D \in Int /\ a % D \in 0 .. D - 1
      /\ b = D * (b \div D) + (b % D) /\ b \div D \in Int /\ b % D \in 0 .. D - 1
  OBVIOUS
<1> DEFINE q == a \div D
           r == a % D
           p == b \div D
           s == b % D
<1>2. /\ q \in Int /\ p \in Int /\ r \in 0 .. D - 1 /\ s \in 0 .. D - 1
      /\ a = D * q + r /\ b = D * p + s
  BY <1>1
<1> HIDE DEF q, r, p, s
<1>3. p <= q
  <2> SUFFICES ASSUME q <= p - 1 PROVE FALSE
    BY <1>2
  <2>1. D * q <= D * (p - 1)
    BY <1>2
  <2>2. D * (p - 1) = D * p - D
    BY <1>2
  <2> QED BY <1>2, <2>1, <2>2
<1>4. D * p <= D * q
  BY <1>2, <1>3
<1>5. r - s <= a - b
  BY <1>2, <1>4
<1> QED BY <1>5 DEF q, r, p, s
LEMMA InitTimed == DetectorInit => Timed
<1> SUFFICES ASSUME DetectorInit PROVE Timed
  OBVIOUS
<1>1. \A c \in Channels : Buffers[c] = <<>> /\ timestamp[c] = 0 /\ touched[c] = 0
  BY DEF DetectorInit
<1>2. BufferType
  <2>1. MAXDIGITS \in Nat /\ MaxDetected \in Nat /\ DayMs \in Nat \ {0} /\ use.first \in Nat
    BY DigitAssumption DEF DetectorInit
  <2>2. use \in Uses /\ timer \in [{"dtmf", "bfsk"} -> use.timers] /\ now \in Nat
    BY <2>1 DEF DetectorInit
  <2>3. /\ pc \in [Channels -> {"idle", "buffering", "reporting", "pushing"}]
        /\ detected \in [Channels -> Digits]
        /\ timestamp \in [Channels -> 0 .. DayMs - 1]
        /\ touched \in [Channels -> Nat]
    BY <2>1 DEF DetectorInit, Digits
  <2>4. Buffers \in [Channels -> Seq(Digits)]
    BY DEF DetectorInit
  <2>5. \A c \in Channels : Len(Buffers[c]) <= MAXDIGITS + 1
    BY <1>1, <2>1
  <2> QED BY <2>2, <2>3, <2>4, <2>5 DEF BufferType
<1>3. Touched
  BY <1>1, <1>2 DEF BufferType, Touched
<1> QED BY <1>2, <1>3 DEF Timed

LEMMA ContentsType ==
  ASSUME BufferType, NEW c \in Channels
  PROVE  /\ Contents(c) \in Seq(Digits) /\ Len(Contents(c)) = Len(Buffers[c])
         /\ Contents(c) = <<>> => Buffers[c] = <<>>
<1>1. Buffers[c] \in Seq(Digits)
  BY DEF BufferType
<1>2. Nul \in Digits
  BY DigitAssumption DEF Nul, Digits
<1>3. CASE Contents(c) = Buffers[c]
  BY <1>1, <1>3
<1>4. CASE Buffers[c] # <<>> /\ Contents(c) = [Buffers[c] EXCEPT ![1] = Nul]
  <2>1. 1 \in 1 .. Len(Buffers[c])
    BY <1>1, <1>4, EmptySeq, LenProperties
  <2>2. Contents(c) \in Seq(Digits) /\ Len(Contents(c)) = Len(Buffers[c])
    BY <1>1, <1>2, <1>4, <2>1, ExceptSeq
  <2>3. Contents(c) # <<>>
    BY <1>1, <2>1, <2>2, EmptySeq
  <2> QED BY <2>2, <2>3
<1> QED BY <1>3, <1>4 DEF Contents

\* What Buffer and Check do to buffers and times.
LEMMA BufferStep ==
  ASSUME Timed, NEW c \in Channels, Buffer(c)
  PROVE  Timed' /\ \A d \in Channels : Buffers[d] # <<>> => Buffers'[d] # <<>>
<1>1. BufferType /\ Touched
  BY DEF Timed
<1>2. /\ pc' = [pc EXCEPT ![c] = "idle"]
      /\ UNCHANGED <<use, timer, now, detected>>
  BY DEF Buffer
<1>3. pc' \in [Channels -> {"idle", "buffering", "reporting", "pushing"}]
  BY <1>1, <1>2 DEF BufferType
<1>4. CASE UNCHANGED <<Buffers, timestamp, touched>>
  BY <1>1, <1>2, <1>3, <1>4 DEF Timed, BufferType, Touched
<1>5. CASE /\ Len(Buffers[c]) <= MAXDIGITS
           /\ Buffers' = [Buffers EXCEPT ![c] = Append(@, detected[c])]
           /\ Touch(c)
           /\ touched' = [touched EXCEPT ![c] = now]
  <2>1. /\ Buffers[c] \in Seq(Digits) /\ detected[c] \in Digits /\ MAXDIGITS \in Nat
        /\ DayMs \in Nat \ {0} /\ now \in Nat
    BY <1>1, DigitAssumption DEF BufferType
  <2> DEFINE s == Append(Buffers[c], detected[c])
  <2>2. s \in Seq(Digits) /\ Len(s) = Len(Buffers[c]) + 1 /\ Len(Buffers[c]) \in Nat /\ s # <<>>
    BY <2>1, AppendProperties, LenProperties, EmptySeq
  <2>3. Buffers' = [Buffers EXCEPT ![c] = s]
    BY <1>5
  <2> HIDE DEF s
  <2>4. now % DayMs \in 0 .. DayMs - 1
    BY <2>1
  <2>5. timestamp' = [timestamp EXCEPT ![c] = now % DayMs]
    BY <1>5 DEF Touch, ms_timestamp
  <2>6. BufferType'
    <3>1. Buffers' \in [Channels -> Seq(Digits)]
      BY <1>1, <2>2, <2>3 DEF BufferType
    <3>2. \A d \in Channels : Len(Buffers'[d]) <= MAXDIGITS + 1
      BY <1>1, <1>5, <2>1, <2>2, <2>3 DEF BufferType
    <3>3. timestamp' \in [Channels -> 0 .. DayMs - 1] /\ touched' \in [Channels -> Nat]
      BY <1>1, <1>5, <2>1, <2>4, <2>5 DEF BufferType
    <3> QED BY <1>1, <1>2, <1>3, <3>1, <3>2, <3>3 DEF BufferType
  <2>7. Touched'
    <3>1. ASSUME NEW d \in Channels
          PROVE  /\ touched'[d] <= now'
                 /\ timestamp'[d] = 0 \/ timestamp'[d] = touched'[d] % DayMs
      <4>1. CASE d = c
        <5>1. touched'[d] = now /\ timestamp'[d] = now % DayMs /\ now' = now
          BY <1>1, <1>2, <1>5, <2>5, <4>1 DEF BufferType
        <5> QED BY <2>1, <5>1
      <4>2. CASE d # c
        <5>1. touched'[d] = touched[d] /\ timestamp'[d] = timestamp[d] /\ now' = now
          BY <1>1, <1>2, <1>5, <2>5, <4>2 DEF BufferType
        <5> QED BY <1>1, <5>1 DEF Touched
      <4> QED BY <4>1, <4>2
    <3> QED BY <3>1 DEF Touched
  <2>8. ASSUME NEW d \in Channels, Buffers[d] # <<>> PROVE Buffers'[d] # <<>>
    BY <1>1, <2>2, <2>3, <2>8 DEF BufferType
  <2> QED BY <2>6, <2>7, <2>8 DEF Timed
<1> QED BY <1>4, <1>5 DEF Buffer

LEMMA CheckBuffers ==
  ASSUME Timed, Check
  PROVE  /\ Timed'
         /\ \A c \in Channels : Buffers[c] # <<>> /\ Buffers'[c] = <<>> => Due(c)
<1>1. BufferType /\ Touched
  BY DEF Timed
<1>2. /\ Buffers' = [c \in Channels |-> IF Due(c) THEN <<>> ELSE Contents(c)]
      /\ timestamp' = [c \in Channels |-> IF Due(c) THEN 0 ELSE timestamp[c]]
      /\ UNCHANGED <<use, timer, now, pc, detected, touched>>
  BY DEF Check, Report, detector
<1>3. ASSUME NEW c \in Channels
      PROVE  /\ Buffers'[c] \in Seq(Digits) /\ Len(Buffers'[c]) <= MAXDIGITS + 1
             /\ timestamp'[c] \in 0 .. DayMs - 1
             /\ timestamp'[c] = 0 \/ timestamp'[c] = timestamp[c]
             /\ Buffers[c] # <<>> /\ Buffers'[c] = <<>> => Due(c)
  <2>1. MAXDIGITS \in Nat /\ DayMs \in Nat \ {0}
    BY DigitAssumption
  <2>2. CASE Due(c)
    <3>1. Buffers'[c] = <<>> /\ timestamp'[c] = 0
      BY <1>2, <2>2
    <3>2. <<>> \in Seq(Digits) /\ Len(<<>>) = 0
      OBVIOUS
    <3> QED BY <2>1, <2>2, <3>1, <3>2
  <2>3. CASE ~Due(c)
    <3>1. Buffers'[c] = Contents(c) /\ timestamp'[c] = timestamp[c]
      BY <1>2, <2>3
    <3> QED BY <1>1, <3>1, ContentsType DEF BufferType
  <2> QED BY <2>2, <2>3
<1>4. Buffers' \in [Channels -> Seq(Digits)] /\ timestamp' \in [Channels -> 0 .. DayMs - 1]
  BY <1>2, <1>3
<1>5. BufferType'
  BY <1>1, <1>2, <1>3, <1>4 DEF BufferType
<1>6. Touched'
  BY <1>1, <1>2, <1>3 DEF Touched
<1> QED BY <1>3, <1>5, <1>6 DEF Timed

\* Whatever else happens leaves buffers and times alone, but for the clock.
LEMMA OtherTimed ==
  ASSUME Timed,
         \/ \E c \in Channels : Detect(c) \/ BeginPush(c) \/ EndPush(c)
         \/ \E kind \in {"dtmf", "bfsk"}, t \in use.timers : SetTimer(kind, t)
         \/ OtherEvent \/ EndCall \/ Poll \/ Tick \/ UNCHANGED detector_vars
  PROVE  Timed' /\ Buffers' = Buffers
<1>1. BufferType /\ Touched
  BY DEF Timed
<1>2. UNCHANGED <<use, Buffers, timestamp, touched>>
  BY DEF Detect, BeginPush, EndPush, SetTimer, OtherEvent, EndCall, Poll, Tick, detector_vars,
         buffer, queue
<1>3. now' \in Nat /\ now <= now'
  <2>1. now \in Nat
    BY <1>1 DEF BufferType
  <2>2. now' = now \/ now' = now + 1
    BY DEF Detect, BeginPush, EndPush, SetTimer, OtherEvent, EndCall, Poll, Tick, detector_vars
  <2> QED BY <2>1, <2>2
<1>4. timer' \in [{"dtmf", "bfsk"} -> use.timers]
  <2>1. timer \in [{"dtmf", "bfsk"} -> use.timers]
    BY <1>1 DEF BufferType
  <2>2. ASSUME NEW kind \in {"dtmf", "bfsk"}, NEW t \in use.timers, SetTimer(kind, t)
        PROVE  timer' \in [{"dtmf", "bfsk"} -> use.timers]
    BY <2>1, <2>2 DEF SetTimer
  <2>3. CASE timer' = timer
    BY <2>1, <2>3
  <2> QED BY <2>2, <2>3 DEF Detect, BeginPush, EndPush, OtherEvent, EndCall, Poll, Tick,
                            detector_vars
<1>5. pc' \in [Channels -> {"idle", "buffering", "reporting", "pushing"}]
  BY <1>1 DEF BufferType, Detect, BeginPush, EndPush, SetTimer, OtherEvent, EndCall, Poll,
              Tick,
              detector_vars, detector
<1>6. detected' \in [Channels -> Digits]
  <2>1. ASSUME NEW c \in Channels, Detect(c) PROVE detected' \in [Channels -> Digits]
    <3>1. detected[c] + 1 \in Digits
      <4>1. use.digits \in 0 .. MaxDetected /\ MaxDetected \in Nat
        BY <1>1, DigitAssumption DEF BufferType
      <4> QED BY <1>1, <2>1, <4>1 DEF BufferType, Detect, Digits
    <3> QED BY <1>1, <2>1, <3>1 DEF BufferType, Detect
  <2> QED BY <1>1, <2>1 DEF BufferType, BeginPush, EndPush, SetTimer, OtherEvent, EndCall,
                            Poll,
                            Tick, detector_vars, detector
<1>7. BufferType'
  BY <1>1, <1>2, <1>3, <1>4, <1>5, <1>6 DEF BufferType
<1>8. Touched'
  BY <1>1, <1>2, <1>3 DEF BufferType, Touched
<1> QED BY <1>2, <1>7, <1>8 DEF Timed

LEMMA StepTimed ==
  ASSUME Timed, [DetectorNext]_detector_vars
  PROVE  /\ Timed'
         /\ \A c \in Channels : Buffers[c] # <<>> /\ Buffers'[c] = <<>> => Due(c)
<1>1. CASE Check
  BY <1>1, CheckBuffers
<1>2. ASSUME NEW c \in Channels, Buffer(c)
      PROVE  Timed' /\ \A d \in Channels : Buffers[d] # <<>> => Buffers'[d] # <<>>
  BY <1>2, BufferStep
<1>3. CASE \/ \E c \in Channels : Detect(c) \/ BeginPush(c) \/ EndPush(c)
           \/ \E kind \in {"dtmf", "bfsk"}, t \in use.timers : SetTimer(kind, t)
           \/ OtherEvent \/ EndCall \/ Poll \/ Tick \/ UNCHANGED detector_vars
  BY <1>3, OtherTimed
<1> QED BY <1>1, <1>2, <1>3 DEF DetectorNext, Detector

\* A buffer that is due is quiet.
LEMMA DueQuiet ==
  ASSUME Timed, NEW c \in Channels, Due(c), Buffers[c] # <<>>
  PROVE  Quiet(c)
<1>1. /\ timestamp[c] \in 0 .. DayMs - 1 /\ touched[c] \in Nat /\ now \in Nat
      /\ touched[c] <= now
      /\ timestamp[c] = 0 \/ timestamp[c] = touched[c] % DayMs
  BY DEF Timed, BufferType, Touched
<1>2. DayMs \in Nat \ {0}
  BY DigitAssumption
<1>3. TimerOf(c) \in Nat
  <2>1. Kind(c) \in {"dtmf", "bfsk"}
    BY DEF Kind
  <2>2. use.timers \subseteq Nat
    BY DigitAssumption DEF Timed, BufferType
  <2> QED BY <2>1, <2>2 DEF TimerOf, Timed, BufferType
<1>4. timestamp[c] = touched[c] % DayMs /\ (now % DayMs) - timestamp[c] > TimerOf(c)
  BY <1>1, <1>2 DEF Due, ms_timestamp
<1>5. now % DayMs \in 0 .. DayMs - 1 /\ touched[c] % DayMs \in 0 .. DayMs - 1
  BY <1>1, <1>2
<1>6. now % DayMs > touched[c] % DayMs
  BY <1>3, <1>4, <1>5
<1>7. (now % DayMs) - (touched[c] % DayMs) <= now - touched[c]
  BY <1>1, <1>2, <1>6, DayTimes
<1>8. now - touched[c] > TimerOf(c)
  BY <1>1, <1>3, <1>4, <1>5, <1>7
<1> QED BY <1>8 DEF Quiet

(***************************************************************************)
(* A buffer that is reported has been quiet for longer than its timer, so  *)
(* that a burst is never cut in two: whatever the timers, which may change *)
(* at any moment, and across midnight, where timestamps restart            *)
(* (check_digit_buffer).                                                   *)
(***************************************************************************)
THEOREM BurstsCorrect == DetectorSpec => BurstsStayWhole
<1>1. Timed /\ [DetectorNext]_detector_vars =>
        [\A c \in Channels : Buffers[c] # <<>> /\ Buffers'[c] = <<>> => Quiet(c)]_detector_vars
  BY StepTimed, DueQuiet
<1>2. Timed /\ [DetectorNext]_detector_vars => Timed'
  BY StepTimed
<1> QED BY <1>1, <1>2, InitTimed, PTL DEF DetectorSpec, BurstsStayWhole
-----------------------------------------------------------------------------
(***************************************************************************)
(* Digits on their way.                                                    *)
(***************************************************************************)
Then(s, t) == s \o t

LEMMA Longer ==
  ASSUME NEW S, NEW s \in Seq(S), NEW t \in Seq(S)
  PROVE  /\ Then(s, t) \in Seq(S)
         /\ \A k \in DOMAIN Then(s, t) :
              \/ k \in DOMAIN s /\ Then(s, t)[k] = s[k]
              \/ \E m \in DOMAIN t : k = Len(s) + m /\ Then(s, t)[k] = t[m]
         /\ \A k \in DOMAIN s : k \in DOMAIN Then(s, t) /\ Then(s, t)[k] = s[k]
         /\ \A m \in DOMAIN t :
              Len(s) + m \in DOMAIN Then(s, t) /\ Then(s, t)[Len(s) + m] = t[m]
<1>1. /\ Then(s, t) \in Seq(S) /\ Len(Then(s, t)) = Len(s) + Len(t)
      /\ \A k \in 1 .. Len(s) + Len(t) :
           Then(s, t)[k] = IF k <= Len(s) THEN s[k] ELSE t[k - Len(s)]
  BY ConcatProperties DEF Then
<1>2. /\ DOMAIN s = 1 .. Len(s) /\ Len(s) \in Nat /\ DOMAIN t = 1 .. Len(t) /\ Len(t) \in Nat
      /\ DOMAIN Then(s, t) = 1 .. Len(s) + Len(t)
  BY <1>1, LenProperties
<1>3. ASSUME NEW k \in DOMAIN Then(s, t)
      PROVE  \/ k \in DOMAIN s /\ Then(s, t)[k] = s[k]
             \/ \E m \in DOMAIN t : k = Len(s) + m /\ Then(s, t)[k] = t[m]
  <2>1. CASE k <= Len(s)
    BY <1>1, <1>2, <2>1
  <2>2. CASE ~ (k <= Len(s))
    <3>1. k - Len(s) \in DOMAIN t /\ k = Len(s) + (k - Len(s))
      BY <1>2, <2>2
    <3>2. Then(s, t)[k] = t[k - Len(s)]
      BY <1>1, <1>2, <2>2
    <3> QED BY <3>1, <3>2
  <2> QED BY <2>1, <2>2
<1>4. ASSUME NEW k \in DOMAIN s PROVE k \in DOMAIN Then(s, t) /\ Then(s, t)[k] = s[k]
  BY <1>1, <1>2
<1>5. ASSUME NEW m \in DOMAIN t
      PROVE  Len(s) + m \in DOMAIN Then(s, t) /\ Then(s, t)[Len(s) + m] = t[m]
  <2>1. /\ Len(s) + m \in 1 .. Len(s) + Len(t) /\ ~ (Len(s) + m <= Len(s))
        /\ (Len(s) + m) - Len(s) = m
    BY <1>2
  <2> QED BY <1>1, <1>2, <2>1
<1> QED BY <1>1, <1>3, <1>4, <1>5

LEMMA KeptTypes ==
  ASSUME BufferType, QueueType, NEW c \in Channels
  PROVE  /\ handed[c] \in Seq(Digits) /\ Buffers[c] \in Seq(Digits)
         /\ \A n \in DOMAIN g_events : Carried(c, n) \in Seq(Digits)
         /\ DOMAIN g_events = 1 .. Len(g_events) /\ Len(g_events) \in Nat
         /\ \A k \in DOMAIN handed[c] : handed[c][k] \in Nat
         /\ \A k \in DOMAIN Buffers[c] : Buffers[c][k] \in Nat
         /\ \A n \in DOMAIN g_events : \A k \in DOMAIN Carried(c, n) : Carried(c, n)[k] \in Nat
         /\ detected[c] \in Nat
<1>1. \A s \in Seq(Digits) : \A k \in DOMAIN s : s[k] \in Nat
  <2> SUFFICES ASSUME NEW s \in Seq(Digits), NEW k \in DOMAIN s PROVE s[k] \in Nat
    OBVIOUS
  <2>1. s[k] \in Digits
    BY LenProperties, ElementOfSeq
  <2> QED BY <2>1, DigitAssumption DEF Digits
<1>2. handed[c] \in Seq(Digits) /\ Buffers[c] \in Seq(Digits)
  BY DEF BufferType, QueueType
<1>3. DOMAIN g_events = 1 .. Len(g_events) /\ Len(g_events) \in Nat
  BY LenProperties DEF QueueType
<1>4. ASSUME NEW n \in DOMAIN g_events PROVE Carried(c, n) \in Seq(Digits)
  <2>1. g_events[n] \in Events
    BY <1>3, ElementOfSeq DEF QueueType
  <2>2. g_events[n].digits \in Seq(Digits)
    BY <2>1 DEF Events
  <2>3. <<>> \in Seq(Digits)
    OBVIOUS
  <2> QED BY <2>2, <2>3 DEF Carried
<1>5. detected[c] \in Nat
  BY DigitAssumption DEF BufferType, Digits
<1> QED BY <1>1, <1>2, <1>3, <1>4, <1>5

\* More digits may be overtaken.
LEMMA LateGrows ==
  ASSUME NEW P, NEW Q, P \subseteq Q
  PROVE  /\ \A s : Ascending(P, s) => Ascending(Q, s)
         /\ \A s, t : Before(P, s, t) => Before(Q, s, t)
BY DEF Ascending, Before, Follows

LEMMA NoDigits ==
  \A P, s : Ascending(P, <<>>) /\ Before(P, s, <<>>) /\ Before(P, <<>>, s)
BY DEF Ascending, Before

(***************************************************************************)
(* The first k events stay; behind them the digits s of channel c come in  *)
(* one event, at p, or none; the buffer of c becomes b.                    *)
(***************************************************************************)
LEMMA Line ==
  ASSUME NEW c \in Channels, KeptDetected(c), Queued(c),
         parked[c] \subseteq parked'[c], handed'[c] = handed[c], detected'[c] = detected[c],
         pc'[c] # "idle" => pc[c] # "idle",
         NEW k \in Nat, NEW p \in Nat, k < p, NEW s, NEW b, Buffers'[c] = b,
         DOMAIN g_events' \subseteq Nat,
         \A n \in DOMAIN g_events' :
           n <= k => n \in DOMAIN g_events /\ g_events'[n] = g_events[n],
         \A n \in DOMAIN g_events' :
           ~(n <= k) => Carried(c, n)' = <<>> \/ (n = p /\ Carried(c, n)' = s),
         Ascending(parked'[c], s), Ascending(parked'[c], b),
         Before(parked'[c], handed[c], s), Before(parked'[c], handed[c], b),
         Before(parked'[c], s, b),
         \A n \in DOMAIN g_events : /\ Before(parked'[c], Carried(c, n), s)
                                    /\ Before(parked'[c], Carried(c, n), b),
         Earlier(c, s)', Earlier(c, b)'
  PROVE  KeptDetected(c)' /\ Queued(c)'
<1>1. \A n \in DOMAIN g_events' :
        \/ n <= k /\ n \in DOMAIN g_events /\ Carried(c, n)' = Carried(c, n)
        \/ ~(n <= k) /\ n = p /\ Carried(c, n)' = s
        \/ Carried(c, n)' = <<>>
  BY DEF Carried
<1>2. KeptDetected(c)'
  <2>1. Earlier(c, handed[c])' /\ Earlier(c, Buffers[c])'
    BY DEF KeptDetected, Earlier
  <2>2. ASSUME NEW n \in DOMAIN g_events' PROVE Earlier(c, Carried(c, n))'
    <3>1. CASE n \in DOMAIN g_events /\ Carried(c, n)' = Carried(c, n)
      BY <3>1 DEF KeptDetected, Earlier
    <3>2. CASE Carried(c, n)' = s
      BY <3>2 DEF Earlier
    <3>3. CASE Carried(c, n)' = <<>>
      BY <3>3 DEF Earlier
    <3> QED BY <1>1, <3>1, <3>2, <3>3
  <2> QED BY <2>1, <2>2 DEF KeptDetected
<1> DEFINE Q == parked'[c]
<1>3. /\ Ascending(Q, handed[c])
      /\ \A n \in DOMAIN g_events : /\ Ascending(Q, Carried(c, n))
                                    /\ Before(Q, handed[c], Carried(c, n))
      /\ \A m, n \in DOMAIN g_events : m < n => Before(Q, Carried(c, m), Carried(c, n))
  BY LateGrows DEF Queued
<1> HIDE DEF Q
<1>4. ASSUME NEW n \in DOMAIN g_events'
      PROVE  /\ Ascending(Q, Carried(c, n)') /\ Before(Q, handed'[c], Carried(c, n)')
             /\ Before(Q, Carried(c, n)', Buffers'[c])
  <2>1. CASE n \in DOMAIN g_events /\ Carried(c, n)' = Carried(c, n)
    BY <1>3, <2>1 DEF Q
  <2>2. CASE Carried(c, n)' = s
    BY <2>2 DEF Q
  <2>3. CASE Carried(c, n)' = <<>>
    BY <2>3, NoDigits
  <2> QED BY <1>1, <2>1, <2>2, <2>3
<1>5. ASSUME NEW m \in DOMAIN g_events', NEW n \in DOMAIN g_events', m < n
      PROVE  Before(Q, Carried(c, m)', Carried(c, n)')
  <2>1. CASE Carried(c, m)' = <<>> \/ Carried(c, n)' = <<>>
    BY <2>1, NoDigits
  <2>2. CASE /\ m \in DOMAIN g_events /\ Carried(c, m)' = Carried(c, m)
             /\ n \in DOMAIN g_events /\ Carried(c, n)' = Carried(c, n)
    BY <1>3, <1>5, <2>2
  <2>3. CASE /\ m \in DOMAIN g_events /\ Carried(c, m)' = Carried(c, m)
             /\ Carried(c, n)' = s
    BY <2>3 DEF Q
  <2>4. CASE m = p /\ ~(m <= k)
    BY <1>1, <1>5, <2>1, <2>4
  <2> QED BY <1>1, <2>1, <2>2, <2>3, <2>4
<1>6. Queued(c)'
  <2>1. /\ Ascending(Q, handed'[c]) /\ Ascending(Q, Buffers'[c])
        /\ Before(Q, handed'[c], Buffers'[c])
    BY <1>3 DEF Q
  <2> QED BY <1>4, <1>5, <2>1 DEF Queued, Q
<1> QED BY <1>2, <1>6

\* Where the digits of channel c are now, they may be found after the step.
LEMMA HeldStep ==
  ASSUME NEW c \in Channels, Held(c), detected'[c] = detected[c],
         NEW U, U = Kept(c)' \cup InHand(c)' \cup dropped'[c] \cup clashed'[c],
         Range(handed[c]) \cup Range(Buffers[c]) \cup InHand(c) \subseteq U,
         \A n \in DOMAIN g_events : Range(Carried(c, n)) \subseteq U,
         dropped[c] \cup clashed[c] \subseteq U
  PROVE  Held(c)'
BY DEF Held, Kept

\* Nothing about channel c changes but the events of others, and what clashed.
LEMMA OthersEvents ==
  ASSUME NEW c \in Channels, ChannelOK(c), NEW k \in Nat,
         handed'[c] = handed[c], Buffers'[c] = Buffers[c], detected'[c] = detected[c],
         dropped[c] \subseteq dropped'[c], parked[c] \subseteq parked'[c],
         clashed[c] \subseteq clashed'[c],
         pc'[c] = "idle" <=> pc[c] = "idle",
         OffParked(c)',
         DOMAIN g_events' \subseteq Nat,
         \A n \in DOMAIN g_events' :
           n <= k => n \in DOMAIN g_events /\ g_events'[n] = g_events[n],
         \A n \in DOMAIN g_events : \/ n \in DOMAIN g_events' /\ g_events'[n] = g_events[n]
                                    \/ Range(Carried(c, n)) \subseteq clashed[c],
         \A n \in DOMAIN g_events' : ~(n <= k) => Carried(c, n)' = <<>>
  PROVE  ChannelOK(c)'
<1>1. KeptDetected(c) /\ NulFirst(c) /\ Held(c) /\ Queued(c)
  BY DEF ChannelOK
<1>2. PICK b : b = Buffers[c]
  OBVIOUS
<1>3. KeptDetected(c)' /\ Queued(c)'
  <2>0. Earlier(c, b)' /\ Earlier(c, <<>>)'
    BY <1>1, <1>2 DEF KeptDetected, Earlier
  <2>1. /\ Ascending(parked'[c], b) /\ Before(parked'[c], handed[c], b)
        /\ \A n \in DOMAIN g_events : Before(parked'[c], Carried(c, n), b)
    BY <1>1, <1>2, LateGrows DEF Queued
  <2>2. PICK s : s = <<>>
    OBVIOUS
  <2>3. PICK p \in Nat : p = k + 1
    OBVIOUS
  <2>4. /\ Ascending(parked'[c], s) /\ Before(parked'[c], s, b)
        /\ Before(parked'[c], handed[c], s)
        /\ \A n \in DOMAIN g_events : Before(parked'[c], Carried(c, n), s)
    BY <2>2, NoDigits
  <2>5. k < p /\ Earlier(c, s)'
    BY <2>0, <2>2, <2>3
  <2> QED BY <1>1, <1>2, <2>0, <2>1, <2>2, <2>4, <2>5, Line
<1>4. NulFirst(c)'
  BY <1>1 DEF NulFirst
<1>5. Held(c)'
  <2>1. InHand(c)' = InHand(c)
    BY DEF InHand
  <2>2. PICK U : U = Kept(c)' \cup InHand(c)' \cup dropped'[c] \cup clashed'[c]
    OBVIOUS
  <2>3. \A n \in DOMAIN g_events : Range(Carried(c, n)) \subseteq U
    <3> SUFFICES ASSUME NEW n \in DOMAIN g_events PROVE Range(Carried(c, n)) \subseteq U
      OBVIOUS
    <3>1. CASE n \in DOMAIN g_events' /\ g_events'[n] = g_events[n]
      <4>1. Carried(c, n)' = Carried(c, n)
        BY <3>1 DEF Carried
      <4>2. Range(Carried(c, n)') \subseteq Kept(c)'
        BY <3>1 DEF Kept
      <4> QED BY <2>2, <4>1, <4>2
    <3> QED BY <2>2, <3>1
  <2>4. Range(handed[c]) \cup Range(Buffers[c]) \cup InHand(c) \subseteq U
    BY <2>1, <2>2 DEF Kept
  <2> QED BY <1>1, <2>2, <2>3, <2>4, HeldStep
<1> QED BY <1>3, <1>4, <1>5 DEF ChannelOK

\* Neither the timer of c nor what its detector is about to do changes for the worse.
LEMMA OffStays ==
  ASSUME NEW c \in Channels, OffParked(c), timer' = timer, Buffers'[c] = Buffers[c],
         parked[c] \subseteq parked'[c],
         detected'[c] = detected[c],
         pc'[c] = "buffering" => pc[c] = "buffering",
         pc'[c] \in {"reporting", "pushing"} => pc[c] \in {"reporting", "pushing"}
  PROVE  OffParked(c)'
BY DEF OffParked, Waiting, TimerOf

LEMMA DetectOK ==
  ASSUME BufferType, QueueType, NEW c \in Channels, Detect(c), ChannelOK(c)
  PROVE  ChannelOK(c)'
<1>0. KeptDetected(c) /\ NulFirst(c) /\ OffParked(c) /\ Held(c) /\ Queued(c)
  BY DEF ChannelOK
<1>1. /\ UNCHANGED <<handed, Buffers, g_events, dropped, timer, parked, clashed>>
      /\ detected'[c] = detected[c] + 1 /\ pc[c] = "idle"
      /\ pc'[c] = IF TimerOf(c) > 0 THEN "buffering" ELSE "reporting"
  BY DEF Detect, BufferType, buffer, queue, faults
<1>2. \A n \in DOMAIN g_events : Carried(c, n)' = Carried(c, n)
  BY <1>1 DEF Carried
<1>3. KeptDetected(c)'
  <2>1. \A s : Earlier(c, s) /\ (\A k \in DOMAIN s : s[k] \in Nat) => Earlier(c, s)'
    BY <1>1, KeptTypes DEF Earlier
  <2> QED BY <1>0, <1>1, <1>2, <2>1, KeptTypes DEF KeptDetected
<1>4. Queued(c)'
  BY <1>0, <1>1, <1>2 DEF Queued
<1>5. NulFirst(c)'
  BY <1>0, <1>1, KeptTypes DEF NulFirst
<1>6. OffParked(c)'
  <2>1. TimerOf(c)' = TimerOf(c) /\ TimerOf(c) \in Nat
    <3>1. use.timers \subseteq Nat /\ Kind(c) \in {"dtmf", "bfsk"}
      BY DigitAssumption DEF BufferType, Kind
    <3> QED BY <1>1, <3>1 DEF TimerOf, BufferType
  <2>2. CASE TimerOf(c) > 0
    BY <1>1, <2>1, <2>2 DEF OffParked
  <2>3. CASE TimerOf(c) = 0
    <3>1. Range(Buffers[c]) \subseteq parked[c] \cup {Nul} /\ pc'[c] = "reporting"
      BY <1>0, <1>1, <2>3 DEF OffParked, Waiting
    <3> QED BY <1>1, <3>1 DEF OffParked, Waiting
  <2> QED BY <2>1, <2>2, <2>3
<1>7. Held(c)'
  <2>1. InHand(c) = {} /\ InHand(c)' = {detected'[c]}
    BY <1>1 DEF InHand
  <2>2. Kept(c)' = Kept(c)
    BY <1>1, <1>2 DEF Kept
  <2>3. \A d \in 1 .. detected'[c] : d \in 1 .. detected[c] \/ d = detected'[c]
    <3>1. detected[c] \in Nat /\ detected'[c] = detected[c] + 1
      BY <1>1, KeptTypes
    <3> QED BY <3>1
  <2> QED BY <1>0, <1>1, <2>1, <2>2, <2>3 DEF Held
<1> QED BY <1>3, <1>4, <1>5, <1>6, <1>7 DEF ChannelOK

LEMMA BufferOK ==
  ASSUME BufferType, QueueType, NEW c \in Channels, Buffer(c), ChannelOK(c)
  PROVE  ChannelOK(c)'
<1>0. KeptDetected(c) /\ NulFirst(c) /\ OffParked(c) /\ Held(c) /\ Queued(c)
  BY DEF ChannelOK
<1>1. /\ UNCHANGED <<handed, g_events, detected, timer, parked, clashed>>
      /\ pc[c] = "buffering" /\ pc'[c] = "idle"
  BY DEF Buffer, BufferType, queue, faults
<1>2. \A n \in DOMAIN g_events : Carried(c, n)' = Carried(c, n)
  BY <1>1 DEF Carried
<1>3. InHand(c) = {detected[c]} /\ InHand(c)' = {}
  BY <1>1 DEF InHand
<1>4. CASE /\ dropped' = [dropped EXCEPT ![c] = @ \cup {detected[c]}]
           /\ Buffers' = Buffers
  <2>1. KeptDetected(c)' /\ NulFirst(c)'
    BY <1>0, <1>1, <1>2, <1>4 DEF KeptDetected, Earlier, NulFirst
  <2>2. Queued(c)'
    BY <1>0, <1>1, <1>2, <1>4 DEF Queued
  <2>3. Kept(c)' = Kept(c)
    BY <1>1, <1>2, <1>4 DEF Kept
  <2>4. dropped'[c] = dropped[c] \cup {detected[c]}
    BY <1>4 DEF QueueType
  <2>5. Held(c)'
    BY <1>0, <1>1, <1>3, <2>3, <2>4 DEF Held
  <2>6. OffParked(c)'
    BY <1>0, <1>1, <1>4, OffStays
  <2> QED BY <2>1, <2>2, <2>5, <2>6 DEF ChannelOK
<1>5. CASE /\ Buffers' = [Buffers EXCEPT ![c] = Append(@, detected[c])]
           /\ dropped' = dropped
  <2>1. PICK b : b = Buffers[c]
    OBVIOUS
  <2>2. PICK s : s = Append(b, detected[c])
    OBVIOUS
  <2>3. /\ b \in Seq(Digits) /\ detected[c] \in Digits /\ Buffers'[c] = s
    BY <1>5, <2>1, <2>2 DEF BufferType
  <2>4. /\ DOMAIN b = 1 .. Len(b) /\ Len(b) \in Nat /\ DOMAIN s = 1 .. Len(b) + 1
        /\ \A k \in 1 .. Len(b) : s[k] = b[k]
        /\ s[Len(b) + 1] = detected[c]
    BY <2>2, <2>3, AppendProperties, LenProperties
  <2>5. \A k \in DOMAIN s : \/ k \in DOMAIN b /\ s[k] = b[k]
                            \/ k = Len(b) + 1 /\ s[k] = detected[c]
    BY <2>4
  <2>6. detected[c] \in Nat /\ 0 < detected[c]
    BY <1>0, <1>1, KeptTypes DEF NulFirst
  <2>7. /\ Earlier(c, handed[c]) /\ Earlier(c, b)
        /\ \A n \in DOMAIN g_events : Earlier(c, Carried(c, n))
    BY <1>0, <2>1 DEF KeptDetected
  <2>8. KeptDetected(c)'
    <3>1. \A k \in DOMAIN s : s[k] <= detected[c]
      BY <1>1, <2>5, <2>6, <2>7 DEF Earlier
    <3>2. Earlier(c, Buffers[c])'
      BY <1>1, <2>3, <3>1 DEF Earlier
    <3> QED BY <1>1, <1>2, <2>7, <3>2 DEF KeptDetected, Earlier
  <2>9. Queued(c)'
    <3> DEFINE P == parked[c]
    <3>1. /\ Ascending(P, handed[c]) /\ Ascending(P, b) /\ Before(P, handed[c], b)
          /\ \A n \in DOMAIN g_events : /\ Ascending(P, Carried(c, n))
                                        /\ Before(P, handed[c], Carried(c, n))
                                        /\ Before(P, Carried(c, n), b)
          /\ \A m, n \in DOMAIN g_events : m < n => Before(P, Carried(c, m), Carried(c, n))
      BY <1>0, <2>1 DEF Queued
    <3> HIDE DEF P
    <3>2. Ascending(P, s)
      <4> SUFFICES ASSUME NEW j \in DOMAIN s, NEW k \in DOMAIN s, j < k
                   PROVE  Follows(P, s[j], s[k])
        BY DEF Ascending
      <4>1. j \in DOMAIN b /\ s[j] = b[j]
        BY <2>4, <2>5
      <4>2. CASE k \in DOMAIN b /\ s[k] = b[k]
        BY <3>1, <4>1, <4>2 DEF Ascending
      <4>3. CASE s[k] = detected[c]
        BY <1>1, <2>7, <4>1, <4>3 DEF Earlier, Follows
      <4> QED BY <2>5, <4>2, <4>3
    <3>3. ASSUME NEW t, Before(P, t, b), Earlier(c, t) PROVE Before(P, t, s)
      <4>1. \A j \in DOMAIN t : t[j] < detected[c]
        BY <1>1, <3>3 DEF Earlier
      <4> QED BY <2>5, <3>3, <4>1 DEF Before, Follows
    <3>4. /\ Before(P, handed[c], s)
          /\ \A n \in DOMAIN g_events : Before(P, Carried(c, n), s)
      BY <2>7, <3>1, <3>3
    <3>5. /\ handed'[c] = handed[c] /\ g_events' = g_events /\ Buffers'[c] = s
          /\ parked'[c] = P
      BY <1>1, <2>3 DEF P
    <3> QED BY <1>2, <3>1, <3>2, <3>4, <3>5 DEF Queued
  <2>10. Held(c)'
    <3>1. Range(b) \cup {detected[c]} \subseteq Range(s)
      BY <2>4 DEF Range
    <3>2. Kept(c) \cup {detected[c]} \subseteq Kept(c)'
      BY <1>1, <1>2, <2>1, <2>3, <3>1 DEF Kept
    <3> QED BY <1>0, <1>1, <1>3, <1>5, <3>2 DEF Held
  <2>11. NulFirst(c)'
    <3>1. ASSUME NEW k \in DOMAIN s, s[k] = Nul PROVE k = 1
      BY <1>0, <2>1, <2>5, <2>6, <3>1 DEF NulFirst, Nul
    <3> QED BY <1>1, <2>3, <3>1 DEF NulFirst
  <2>12. OffParked(c)'
    <3>1. Range(s) \subseteq Range(b) \cup {detected[c]}
      BY <2>5 DEF Range
    <3>2. Waiting(c)' \subseteq Waiting(c)
      BY <1>1, <2>1, <2>3, <3>1 DEF Waiting
    <3>3. TimerOf(c)' = TimerOf(c)
      BY <1>1 DEF TimerOf
    <3> QED BY <1>0, <1>1, <3>2, <3>3 DEF OffParked
  <2> QED BY <2>8, <2>9, <2>10, <2>11, <2>12 DEF ChannelOK
<1> QED BY <1>4, <1>5 DEF Buffer
-----------------------------------------------------------------------------
(***************************************************************************)
(* The steps of the detectors.                                             *)
(***************************************************************************)

\* What is pushed meanwhile is marked, and nothing marked is forgotten.
LEMMA RaceGrows ==
  ASSUME Race, popped' = popped, slot' = slot,
         \A c \in Channels : /\ pc'[c] = "pushing" <=> pc[c] = "pushing"
                             /\ clashed[c] \subseteq clashed'[c],
         \A c \in Pushing : detected'[c] = detected[c],
         \/ g_events' = g_events
         \/ \A c \in Pushing :
              /\ detected[c] \in clashed'[c]
              /\ \A n \in DOMAIN g_events' :
                   \/ n \in DOMAIN g_events /\ g_events'[n] = g_events[n]
                   \/ \A d \in Channels : Range(Carried(d, n)') \subseteq clashed'[d]
  PROVE  Race'
<1>1. Pushing' = Pushing
  BY DEF Pushing
<1>2. \A c, d \in Pushing : c # d => detected'[c] \in clashed'[c]
  BY DEF Race, Pushing
<1>3. ASSUME NEW c \in Pushing PROVE Behind(c)'
  <2>1. Behind(c) /\ c \in Channels
    BY DEF Race, Pushing
  <2>2. \A n \in DOMAIN g_events' : n \in DOMAIN g_events /\ g_events'[n] = g_events[n] =>
          \A d \in Channels : Carried(d, n)' = Carried(d, n)
    BY DEF Carried
  <2>3. ASSUME NEW n \in DOMAIN g_events', n > slot[c] - popped, NEW d \in Channels
        PROVE  Range(Carried(d, n)') \subseteq clashed'[d]
    <3>1. CASE n \in DOMAIN g_events /\ g_events'[n] = g_events[n]
      BY <2>1, <2>2, <2>3, <3>1 DEF Behind
    <3> QED BY <2>3, <3>1
  <2>4. slot[c] # popped + Len(g_events') => detected[c] \in clashed'[c]
    BY <2>1 DEF Behind
  <2> QED BY <2>3, <2>4 DEF Behind
<1> QED BY <1>1, <1>2, <1>3 DEF Race

LEMMA ClashType ==
  ASSUME QueueType, NEW S, \A c \in Channels : S[c] \subseteq Digits, Clash(S)
  PROVE  /\ clashed' \in [Channels -> SUBSET Digits]
         /\ \A c \in Channels : clashed'[c] = clashed[c] \cup S[c]
BY DEF QueueType, Clash

LEMMA HandType ==
  ASSUME BufferType
  PROVE  \A D : \A c \in Channels : HeldBy(D)[c] \subseteq Digits
BY DEF BufferType, HeldBy, InHand

LEMMA DetectStep ==
  ASSUME Timed, QueueType, Race, NEW c \in Channels, Detect(c),
         \A d \in Channels : ChannelOK(d)
  PROVE  QueueType' /\ Race' /\ \A d \in Channels : ChannelOK(d)'
<1>0. BufferType
  BY DEF Timed
<1>1. /\ UNCHANGED <<use, has_id, slot, Buffers, g_events, popped, handed, others, dropped,
                     timer, parked, clashed>>
      /\ pc[c] = "idle" /\ pc'[c] \in {"buffering", "reporting"}
      /\ \A d \in Channels : d # c => pc'[d] = pc[d] /\ detected'[d] = detected[d]
  BY <1>0 DEF Detect, BufferType, buffer, queue, faults
<1>2. QueueType'
  BY <1>1 DEF QueueType
<1>3. Race'
  <2>1. \A d \in Pushing : d \in Channels /\ d # c
    BY <1>1 DEF Pushing
  <2>2. \A d \in Channels : /\ pc'[d] = "pushing" <=> pc[d] = "pushing"
                            /\ clashed[d] \subseteq clashed'[d]
    BY <1>1
  <2>3. \A d \in Pushing : detected'[d] = detected[d]
    BY <1>1, <2>1
  <2> QED BY <1>1, <2>2, <2>3, RaceGrows
<1>4. ASSUME NEW d \in Channels PROVE ChannelOK(d)'
  <2>1. CASE d = c
    BY <1>0, <2>1, DetectOK
  <2>2. CASE d # c
    <3>1. DOMAIN g_events \subseteq Nat /\ Len(g_events) \in Nat
          /\ \A n \in DOMAIN g_events : n <= Len(g_events)
      BY <1>0, KeptTypes
    <3>2. OffParked(d)'
      BY <1>1, <2>2, OffStays DEF ChannelOK
    <3> QED BY <1>1, <2>2, <3>1, <3>2, OthersEvents
  <2> QED BY <2>1, <2>2
<1> QED BY <1>2, <1>3, <1>4

LEMMA BufferQueued ==
  ASSUME Timed, QueueType, Race, NEW c \in Channels, Buffer(c),
         \A d \in Channels : ChannelOK(d)
  PROVE  QueueType' /\ Race' /\ \A d \in Channels : ChannelOK(d)'
<1>0. BufferType
  BY DEF Timed
<1>1. /\ UNCHANGED <<use, has_id, slot, detected, g_events, popped, handed, others,
                     timer, parked, clashed>>
      /\ pc[c] = "buffering" /\ pc'[c] = "idle"
      /\ dropped' = dropped \/ dropped' = [dropped EXCEPT ![c] = @ \cup {detected[c]}]
      /\ \A d \in Channels : d # c => pc'[d] = pc[d] /\ Buffers'[d] = Buffers[d]
  BY <1>0 DEF Buffer, BufferType, queue, faults
<1>2. dropped' \in [Channels -> SUBSET Digits] /\ \A d \in Channels : dropped[d] \subseteq dropped'[d]
  <2>1. detected[c] \in Digits /\ dropped \in [Channels -> SUBSET Digits]
    BY <1>0 DEF BufferType, QueueType
  <2>2. CASE dropped' = dropped
    BY <2>1, <2>2
  <2>3. CASE dropped' = [dropped EXCEPT ![c] = @ \cup {detected[c]}]
    <3>1. PICK S : S = dropped[c] \cup {detected[c]}
      OBVIOUS
    <3>2. S \in SUBSET Digits /\ dropped[c] \subseteq S /\ dropped' = [dropped EXCEPT ![c] = S]
      BY <2>1, <2>3, <3>1
    <3> QED BY <2>1, <3>2
  <2> QED BY <1>1, <2>2, <2>3
<1>3. QueueType'
  BY <1>1, <1>2 DEF QueueType
<1>4. Race'
  <2>1. \A d \in Channels : pc'[d] = "pushing" <=> pc[d] = "pushing"
    BY <1>1
  <2> QED BY <1>1, <2>1, RaceGrows
<1>5. ASSUME NEW d \in Channels PROVE ChannelOK(d)'
  <2>1. CASE d = c
    BY <1>0, <2>1, BufferOK
  <2>2. CASE d # c
    <3>1. DOMAIN g_events \subseteq Nat /\ Len(g_events) \in Nat
          /\ \A n \in DOMAIN g_events : n <= Len(g_events)
      BY <1>0, KeptTypes
    <3>2. OffParked(d)'
      BY <1>1, <2>2, OffStays DEF ChannelOK
    <3> QED BY <1>1, <1>2, <2>2, <3>1, <3>2, OthersEvents
  <2> QED BY <2>1, <2>2
<1> QED BY <1>3, <1>4, <1>5

LEMMA BeginPushStep ==
  ASSUME Timed, QueueType, Race, NEW c \in Channels, BeginPush(c),
         \A d \in Channels : ChannelOK(d)
  PROVE  QueueType' /\ Race' /\ \A d \in Channels : ChannelOK(d)'
<1>0. BufferType
  BY DEF Timed
<1>1. /\ UNCHANGED <<use, has_id, detected, Buffers, dropped, g_events, popped, handed, others,
                     timer, parked>>
      /\ pc[c] = "reporting" /\ pc'[c] = "pushing"
      /\ slot' = [slot EXCEPT ![c] = popped + Len(g_events)]
      /\ \A d \in Channels : d # c => pc'[d] = pc[d]
  BY <1>0 DEF BeginPush, BufferType, buffer, queue
<1>2. DOMAIN g_events = 1 .. Len(g_events) /\ Len(g_events) \in Nat
      /\ popped \in Nat /\ slot \in [Channels -> Nat]
  BY <1>0, KeptTypes DEF QueueType
<1>3. /\ clashed' \in [Channels -> SUBSET Digits]
      /\ \A d \in Channels : clashed[d] \subseteq clashed'[d]
      /\ Pushing # {} => \A d \in Pushing \cup {c} : detected[d] \in clashed'[d]
  <2>1. CASE Pushing = {}
    BY <2>1 DEF BeginPush, QueueType
  <2>2. CASE Pushing # {}
    <3>1. PICK S : S = HeldBy(Pushing \cup {c})
      OBVIOUS
    <3>2. Clash(S)
      BY <2>2, <3>1 DEF BeginPush
    <3>3. \A d \in Channels : S[d] \subseteq Digits
      BY <1>0, <3>1, HandType
    <3>4. \A d \in Pushing \cup {c} : d \in Channels /\ S[d] = {detected[d]}
      BY <1>1, <3>1 DEF HeldBy, InHand, Pushing
    <3> QED BY <3>2, <3>3, <3>4, ClashType
  <2> QED BY <2>1, <2>2
<1>4. QueueType'
  <2>1. slot' \in [Channels -> Nat]
    BY <1>1, <1>2
  <2> QED BY <1>1, <1>3, <2>1 DEF QueueType
<1>5. Race'
  <2>1. Pushing' = Pushing \cup {c}
    BY <1>1 DEF Pushing
  <2>2. \A n : \A d \in Channels : Carried(d, n)' = Carried(d, n)
    BY <1>1 DEF Carried
  <2>3. Behind(c)'
    <3>1. slot'[c] = popped + Len(g_events)
      BY <1>1, <1>2
    <3>2. \A n \in DOMAIN g_events : ~(n > (popped + Len(g_events)) - popped)
      BY <1>2
    <3> QED BY <1>1, <3>1, <3>2 DEF Behind
  <2>4. ASSUME NEW d \in Pushing PROVE Behind(d)'
    <3>1. Behind(d) /\ d \in Channels /\ d # c
      BY <1>1 DEF Race, Pushing
    <3>2. slot'[d] = slot[d]
      BY <1>1, <1>2, <3>1
    <3> QED BY <1>1, <1>3, <2>2, <3>1, <3>2 DEF Behind
  <2>5. \A d, e \in Pushing \cup {c} : d # e => detected[d] \in clashed'[d]
    BY <1>3
  <2> QED BY <1>1, <2>1, <2>3, <2>4, <2>5 DEF Race
<1>6. ASSUME NEW d \in Channels PROVE ChannelOK(d)'
  <2>1. pc'[d] = pc[d] \/ (pc[d] = "reporting" /\ pc'[d] = "pushing")
    BY <1>1
  <2>2. OffParked(d)'
    BY <1>1, <2>1, OffStays DEF ChannelOK
  <2>3. \A n \in DOMAIN g_events : n \in Nat /\ n <= Len(g_events)
    BY <1>2
  <2> QED BY <1>1, <1>2, <1>3, <2>1, <2>2, <2>3, OthersEvents
<1> QED BY <1>4, <1>5, <1>6

\* Of what a push at s may leave of g_events, with e behind it or not.
Written(q, k, e) ==
  /\ q \in Seq(Events)
  /\ Len(q) \in {k, k + 1}
  /\ \A n \in 1 .. k : n \in DOMAIN g_events /\ q[n] = g_events[n]
  /\ Len(q) = k + 1 => q[k + 1] = e

LEMMA AppendWritten ==
  ASSUME NEW q, NEW e \in Events, NEW k \in Nat, Written(q, k, e), Len(q) = k
  PROVE  Written(Append(q, e), k, e) /\ Len(Append(q, e)) = k + 1
<1>1. /\ Append(q, e) \in Seq(Events) /\ Len(Append(q, e)) = Len(q) + 1
      /\ \A n \in 1 .. Len(q) : Append(q, e)[n] = q[n]
      /\ Append(q, e)[Len(q) + 1] = e
  BY AppendProperties DEF Written
<1> QED BY <1>1 DEF Written

LEMMA PrefixIs ==
  ASSUME QueueType, NEW s \in Nat, NEW e
  PROVE  \E k \in Nat : /\ Written(Prefix(s), k, e) /\ Len(Prefix(s)) = k
                        /\ \A n \in DOMAIN g_events : n <= k \/ n > s - popped
<1>1. /\ g_events \in Seq(Events) /\ popped \in Nat
      /\ DOMAIN g_events = 1 .. Len(g_events) /\ Len(g_events) \in Nat
  BY LenProperties DEF QueueType
<1>2. PICK l \in Nat : l = Len(g_events)
  BY <1>1
<1>3. PICK r \in Int : r = s - popped
  BY <1>1
<1>4. PICK w \in Int : /\ w = Min({s - popped, Len(g_events)})
                       /\ w <= r /\ w <= l /\ (w = r \/ w = l)
  <2>1. \E x \in {r, l} : \A y \in {r, l} : x <= y
    BY <1>2, <1>3
  <2>2. Min({r, l}) \in {r, l} /\ \A y \in {r, l} : Min({r, l}) <= y
    BY <2>1 DEF Min
  <2> QED BY <1>2, <1>3, <2>2
<1>5. \A n \in DOMAIN g_events : n \in Nat /\ n >= 1 /\ n <= l
  BY <1>1, <1>2
<1>6. \A n \in DOMAIN g_events : n <= w \/ n > r
  BY <1>2, <1>3, <1>4, <1>5
<1>7. CASE w >= 1
  <2>1. w \in Nat /\ \A n \in 1 .. w : n \in 1 .. l
    <3>1. w <= l
      BY <1>4
    <3> QED BY <1>7, <3>1
  <2>2. \A n \in 1 .. w : n \in DOMAIN g_events /\ g_events[n] \in Events
    BY <1>1, <1>2, <2>1, ElementOfSeq
  <2>3. Prefix(s) = SubSeq(g_events, 1, w)
    BY <1>4 DEF Prefix
  <2>4. /\ Prefix(s) \in Seq(Events) /\ Len(Prefix(s)) = w
        /\ \A n \in 1 .. w : Prefix(s)[n] = g_events[n]
    <3>1. 1 \in 1 .. l + 1 /\ w \in 0 .. l
      BY <1>2, <1>4, <2>1
    <3>2. \A n \in 1 .. w : g_events[n] \in Events
      BY <2>2
    <3>3. w - 1 + 1 = w /\ (1 <= w + 1) /\ 1 \in Int
      BY <2>1
    <3>4. \A n \in 1 .. w : 1 + n - 1 = n
      BY <2>1
    <3>5. SubSeq(g_events, 1, w) = [n \in 1 .. w |-> g_events[n]]
      <4>1. SubSeq(g_events, 1, w) = [n \in 1 .. (1 + w - 1) |-> g_events[n + 1 - 1]]
        BY <1>1, <1>7, <2>1
      <4>2. 1 + w - 1 = w /\ \A n \in 1 .. w : n + 1 - 1 = n
        BY <2>1
      <4> QED BY <4>1, <4>2
    <3>6. [n \in 1 .. w |-> g_events[n]] \in Seq(Events) /\ Len([n \in 1 .. w |-> g_events[n]]) = w
      BY <2>1, <3>2
    <3> QED BY <2>3, <3>5, <3>6
  <2>5. Written(Prefix(s), w, e)
    <3>1. Len(Prefix(s)) # w + 1
      BY <2>1, <2>4
    <3> QED BY <2>2, <2>4, <3>1 DEF Written
  <2> QED BY <1>3, <1>6, <2>1, <2>4, <2>5
<1>8. CASE ~(w >= 1)
  <2>1. Prefix(s) = <<>>
    BY <1>4, <1>8 DEF Prefix
  <2>2. /\ <<>> \in Seq(Events) /\ Len(<<>>) = 0 /\ 0 \in Nat
    OBVIOUS
  <2>3. Written(Prefix(s), 0, e) /\ Len(Prefix(s)) = 0
    BY <2>1, <2>2 DEF Written
  <2>4. \A n \in DOMAIN g_events : n > r
    BY <1>3, <1>4, <1>5, <1>6, <1>8
  <2> QED BY <1>3, <2>2, <2>3, <2>4
<1> QED BY <1>7, <1>8

LEMMA PushedIs ==
  ASSUME QueueType, NEW s \in Nat, NEW e \in Events, NEW q \in Pushed(s, e)
  PROVE  \E k \in Nat : /\ Written(q, k, e)
                        /\ \A n \in DOMAIN g_events : n <= k \/ n > s - popped
                        /\ s = popped + Len(g_events) => Len(q) = k + 1
<1>1. /\ g_events \in Seq(Events) /\ popped \in Nat
      /\ DOMAIN g_events = 1 .. Len(g_events) /\ Len(g_events) \in Nat
  BY LenProperties DEF QueueType
<1>2. /\ Written(g_events, Len(g_events), e)
      /\ \A n \in DOMAIN g_events : n <= Len(g_events)
  <2>1. PICK l \in Nat : l = Len(g_events)
    BY <1>1
  <2>2. l # l + 1 /\ \A n \in 1 .. l : n <= l
    OBVIOUS
  <2> QED BY <1>1, <2>1, <2>2 DEF Written
<1>3. CASE q = g_events /\ s # popped + Len(g_events)
  BY <1>1, <1>2, <1>3
<1>4. CASE q = Append(g_events, e)
  BY <1>1, <1>2, <1>4, AppendWritten
<1>5. CASE q = Prefix(s) /\ s # popped + Len(g_events)
  BY <1>5, PrefixIs
<1>6. CASE q = Append(Prefix(s), e)
  <2>1. PICK k \in Nat : /\ Written(Prefix(s), k, e) /\ Len(Prefix(s)) = k
                         /\ \A n \in DOMAIN g_events : n <= k \/ n > s - popped
    BY PrefixIs
  <2>2. Written(q, k, e) /\ Len(q) = k + 1
    BY <1>6, <2>1, AppendWritten
  <2> QED BY <2>1, <2>2
<1> QED BY <1>3, <1>4, <1>5, <1>6 DEF Pushed

LEMMA EndPushStep ==
  ASSUME Timed, QueueType, Race, NEW c \in Channels, EndPush(c),
         \A d \in Channels : ChannelOK(d)
  PROVE  QueueType' /\ Race' /\ \A d \in Channels : ChannelOK(d)'
<1>0. BufferType
  BY DEF Timed
<1>1. /\ UNCHANGED <<use, timer, has_id, slot, detected, popped, handed, others, Buffers,
                     dropped, parked, clashed>>
      /\ pc[c] = "pushing" /\ pc'[c] = "idle"
      /\ \A d \in Channels : d # c => pc'[d] = pc[d]
  BY <1>0 DEF EndPush, BufferType, buffer, faults
<1>2. PICK x : x = detected[c]
  OBVIOUS
<1>3. PICK s : s = <<x>>
  OBVIOUS
<1>4. PICK e : e = Event(c, s)
  OBVIOUS
<1>5. /\ x \in Digits /\ x \in Nat /\ s \in Seq(Digits) /\ DOMAIN s = {1} /\ s[1] = x
      /\ Range(s) = {x}
  <2>1. x \in Digits /\ x \in Nat
    BY <1>0, <1>2, KeptTypes DEF BufferType
  <2>2. s \in Seq(Digits) /\ DOMAIN s = {1} /\ s[1] = x
    BY <1>3, <2>1
  <2> QED BY <2>1, <2>2 DEF Range
<1>6. e \in Events /\ e.chan = c /\ e.digits = s
  BY <1>4, <1>5 DEF Event, Events
<1>7. slot[c] \in Nat /\ g_events' \in Pushed(slot[c], e)
  BY <1>2, <1>3, <1>4 DEF EndPush, QueueType
<1>8. PICK k \in Nat : /\ Written(g_events', k, e)
                       /\ \A n \in DOMAIN g_events : n <= k \/ n > slot[c] - popped
                       /\ slot[c] = popped + Len(g_events) => Len(g_events') = k + 1
  BY <1>6, <1>7, PushedIs
<1>9. /\ DOMAIN g_events' = 1 .. Len(g_events') /\ DOMAIN g_events' \subseteq Nat
      /\ \A n \in DOMAIN g_events' : \/ n <= k /\ n \in DOMAIN g_events /\ g_events'[n] = g_events[n]
                                     \/ ~(n <= k) /\ n = k + 1 /\ g_events'[n] = e
      /\ \A n \in DOMAIN g_events : n <= k => n \in DOMAIN g_events' /\ g_events'[n] = g_events[n]
  <2>1. DOMAIN g_events' = 1 .. Len(g_events') /\ Len(g_events') \in {k, k + 1}
    BY <1>8, LenProperties DEF Written
  <2>2. DOMAIN g_events = 1 .. Len(g_events) /\ Len(g_events) \in Nat
    BY <1>0, KeptTypes
  <2> QED BY <1>8, <2>1, <2>2 DEF Written
<1>10. Behind(c) /\ c \in Pushing
  BY <1>1 DEF Race, Pushing
<1>11. \A n \in DOMAIN g_events :
         \/ n \in DOMAIN g_events' /\ g_events'[n] = g_events[n]
         \/ \A d \in Channels : Range(Carried(d, n)) \subseteq clashed[d]
  BY <1>8, <1>9, <1>10 DEF Behind
<1>12. QueueType'
  <2>1. g_events' \in Seq(Events)
    BY <1>8 DEF Written
  <2> QED BY <1>1, <2>1 DEF QueueType
<1>13. Race'
  <2>1. Pushing' = Pushing \ {c}
    BY <1>1 DEF Pushing
  <2>2. ASSUME NEW d \in Pushing, d # c PROVE Behind(d)'
    <3>1. /\ d \in Channels /\ Behind(d) /\ detected[d] \in clashed[d]
          /\ detected[c] \in clashed[c]
      BY <1>10, <2>2 DEF Race, Pushing
    <3>2. ASSUME NEW n \in DOMAIN g_events', n > slot[d] - popped, NEW a \in Channels
          PROVE  Range(Carried(a, n)') \subseteq clashed[a]
      <4>1. CASE n \in DOMAIN g_events /\ g_events'[n] = g_events[n]
        <5>1. Carried(a, n)' = Carried(a, n)
          BY <4>1 DEF Carried
        <5> QED BY <3>1, <3>2, <4>1, <5>1 DEF Behind
      <4>2. CASE g_events'[n] = e
        <5>1. CASE a = c
          <6>1. Carried(a, n)' = s
            BY <1>6, <4>2, <5>1 DEF Carried
          <6> QED BY <1>2, <1>5, <3>1, <5>1, <6>1
        <5>2. CASE a # c
          <6>1. Carried(a, n)' = <<>> /\ Range(<<>>) = {}
            BY <1>6, <4>2, <5>2 DEF Carried, Range
          <6> QED BY <6>1
        <5> QED BY <5>1, <5>2
      <4> QED BY <1>9, <4>1, <4>2
    <3> QED BY <1>1, <3>1, <3>2 DEF Behind
  <2>3. \A d, a \in Pushing \ {c} : d # a => detected'[d] \in clashed'[d]
    BY <1>1 DEF Race
  <2> QED BY <2>1, <2>2, <2>3 DEF Race
<1>14. ASSUME NEW d \in Channels, d # c PROVE ChannelOK(d)'
  <2>1. OffParked(d)'
    BY <1>1, <1>14, OffStays DEF ChannelOK
  <2>2. \A n \in DOMAIN g_events' : ~(n <= k) => Carried(d, n)' = <<>>
    BY <1>6, <1>9, <1>14 DEF Carried
  <2>3. \A n \in DOMAIN g_events : \/ n \in DOMAIN g_events' /\ g_events'[n] = g_events[n]
                                   \/ Range(Carried(d, n)) \subseteq clashed[d]
    BY <1>11
  <2> QED BY <1>1, <1>9, <1>14, <2>1, <2>2, <2>3, OthersEvents
<1>15. ChannelOK(c)'
  <2>0. KeptDetected(c) /\ NulFirst(c) /\ OffParked(c) /\ Held(c) /\ Queued(c)
    BY DEF ChannelOK
  <2>1. PICK b : b = Buffers[c]
    OBVIOUS
  <2> DEFINE P == parked[c]
  <2>2. /\ \A j \in DOMAIN handed[c] : handed[c][j] < x
        /\ \A j \in DOMAIN b : b[j] < x
        /\ \A n \in DOMAIN g_events : \A j \in DOMAIN Carried(c, n) : Carried(c, n)[j] < x
    BY <1>1, <1>2, <2>0, <2>1 DEF KeptDetected, Earlier
  <2>3. \A j \in DOMAIN b : b[j] \in P \cup {Nul}
    <3>1. Range(b) \subseteq P \cup {Nul}
      BY <1>1, <2>0, <2>1 DEF OffParked
    <3> QED BY <3>1 DEF Range
  <2>4. /\ Ascending(P, b) /\ Before(P, handed[c], b)
        /\ \A n \in DOMAIN g_events : Before(P, Carried(c, n), b)
    BY <2>0, <2>1 DEF Queued
  <2> HIDE DEF P
  <2>5. Ascending(P, s) /\ Before(P, handed[c], s)
        /\ \A n \in DOMAIN g_events : Before(P, Carried(c, n), s)
    BY <1>5, <2>2 DEF Ascending, Before, Follows
  <2>6. Before(P, s, b)
    <3> SUFFICES ASSUME NEW j \in DOMAIN s, NEW m \in DOMAIN b PROVE Follows(P, s[j], b[m])
      BY DEF Before
    <3>1. b[m] < x /\ s[j] = x /\ b[m] \in P \cup {Nul}
      BY <1>5, <2>2, <2>3
    <3>2. b[m] \in Nat
      BY <1>0, <2>1, KeptTypes
    <3>3. b[m] # x
      BY <1>5, <3>1, <3>2
    <3> QED BY <3>1, <3>3 DEF Follows
  <2>7. Earlier(c, s)' /\ Earlier(c, b)'
    <3>1. \A j \in DOMAIN s : s[j] <= x
      BY <1>5
    <3>2. \A j \in DOMAIN b : b[j] <= x
      BY <2>0, <1>2, <2>1 DEF KeptDetected, Earlier
    <3> QED BY <1>1, <1>2, <3>1, <3>2 DEF Earlier
  <2>8. \A n \in DOMAIN g_events' :
          ~(n <= k) => Carried(c, n)' = <<>> \/ (n = k + 1 /\ Carried(c, n)' = s)
    BY <1>6, <1>9 DEF Carried
  <2>9. \A n \in DOMAIN g_events' :
          n <= k => n \in DOMAIN g_events /\ g_events'[n] = g_events[n]
    BY <1>9
  <2>10. KeptDetected(c)' /\ Queued(c)'
    <3>1. PICK p \in Nat : p = k + 1
      OBVIOUS
    <3>2. k < p /\ \A n \in DOMAIN g_events' :
            ~(n <= k) => Carried(c, n)' = <<>> \/ (n = p /\ Carried(c, n)' = s)
      BY <2>8, <3>1
    <3>3. /\ parked'[c] = P /\ parked[c] = P /\ handed'[c] = handed[c]
          /\ detected'[c] = detected[c] /\ Buffers'[c] = b /\ pc'[c] = "idle"
      BY <1>1, <2>1 DEF P
    <3> QED BY <1>9, <2>0, <2>4, <2>5, <2>6, <2>7, <2>9, <3>2, <3>3, Line
  <2>11. NulFirst(c)'
    BY <1>1, <2>0 DEF NulFirst
  <2>12. OffParked(c)'
    BY <1>1, <2>0, OffStays
  <2>13. Held(c)'
    <3>1. PICK U : U = Kept(c)' \cup InHand(c)' \cup dropped'[c] \cup clashed'[c]
      OBVIOUS
    <3>2. \A n \in DOMAIN g_events : Range(Carried(c, n)) \subseteq U
      <4> SUFFICES ASSUME NEW n \in DOMAIN g_events PROVE Range(Carried(c, n)) \subseteq U
        OBVIOUS
      <4>1. CASE n \in DOMAIN g_events' /\ g_events'[n] = g_events[n]
        <5>1. Carried(c, n)' = Carried(c, n)
          BY <4>1 DEF Carried
        <5>2. Range(Carried(c, n)') \subseteq Kept(c)'
          BY <4>1 DEF Kept
        <5> QED BY <3>1, <5>1, <5>2
      <4>2. CASE Range(Carried(c, n)) \subseteq clashed[c]
        BY <1>1, <3>1, <4>2
      <4> QED BY <1>11, <4>1, <4>2
    <3>3. x \in U
      <4>1. CASE slot[c] # popped + Len(g_events)
        BY <1>1, <1>2, <1>10, <3>1, <4>1 DEF Behind
      <4>2. CASE slot[c] = popped + Len(g_events)
        <5>1. k + 1 \in DOMAIN g_events' /\ ~(k + 1 <= k)
          BY <1>8, <1>9, <4>2
        <5>2. Carried(c, k + 1)' = s
          BY <1>6, <1>9, <5>1 DEF Carried
        <5>3. Range(Carried(c, k + 1)') \subseteq Kept(c)'
          BY <5>1 DEF Kept
        <5> QED BY <1>5, <3>1, <5>2, <5>3
      <4> QED BY <4>1, <4>2
    <3>4. Range(handed[c]) \cup Range(Buffers[c]) \cup InHand(c) \subseteq U
      <4>1. InHand(c) = {x}
        BY <1>1, <1>2 DEF InHand
      <4>2. Range(handed[c]) \cup Range(Buffers[c]) \subseteq Kept(c)'
        BY <1>1 DEF Kept
      <4> QED BY <3>1, <3>3, <4>1, <4>2
    <3>5. dropped[c] \cup clashed[c] \subseteq U /\ detected'[c] = detected[c]
      BY <1>1, <3>1
    <3> QED BY <2>0, <3>1, <3>2, <3>4, <3>5, HeldStep
  <2> QED BY <2>10, <2>11, <2>12, <2>13 DEF ChannelOK
<1> QED BY <1>12, <1>13, <1>14, <1>15

-----------------------------------------------------------------------------
(***************************************************************************)
(* The checker.                                                            *)
(***************************************************************************)

\* What Check makes of a buffer: the digits, or what follows a NUL in the first place.
LEMMA ContentsAre ==
  ASSUME BufferType, QueueType, NEW c \in Channels, NulFirst(c)
  PROVE  \/ Contents(c) = Buffers[c] /\ Printed(Contents(c)) = Buffers[c]
         \/ /\ Printed(Contents(c)) = <<>> /\ Cut(c) = Range(Buffers[c])
            /\ DOMAIN Contents(c) = DOMAIN Buffers[c]
            /\ \A k \in DOMAIN Buffers[c] :
                 IF k = 1 THEN Contents(c)[k] = Nul
                 ELSE Contents(c)[k] = Buffers[c][k] /\ Buffers[c][k] # Nul
<1>1. PICK b : b = Buffers[c]
  OBVIOUS
<1>2. PICK s : s = Contents(c)
  OBVIOUS
<1>3. /\ b \in Seq(Digits) /\ DOMAIN b = 1 .. Len(b) /\ Len(b) \in Nat
      /\ \A k \in DOMAIN b : b[k] = Nul => k = 1
  BY <1>1, KeptTypes, LenProperties DEF NulFirst
<1>4. /\ s = b \/ (b # <<>> /\ s = [b EXCEPT ![1] = Nul])
      /\ s \in Seq(Digits) /\ Len(s) = Len(b) /\ DOMAIN s = 1 .. Len(s)
  BY <1>1, <1>2, ContentsType, LenProperties DEF Contents
<1>5. PICK I : I = {i \in 1 .. Len(s) : s[i] = Nul}
  OBVIOUS
<1>6. SelectInSeq(s, LAMBDA d : d = Nul) = IF I # {} THEN Min(I) ELSE 0
  BY <1>5 DEF SelectInSeq
<1>7. CASE I = {}
  <2>1. s = b
    <3> SUFFICES ASSUME b # <<>>, s = [b EXCEPT ![1] = Nul] PROVE FALSE
      BY <1>4
    <3>1. 1 \in DOMAIN b
      BY <1>3, EmptySeq
    <3>2. s[1] = Nul /\ 1 \in 1 .. Len(s)
      BY <1>3, <1>4, <3>1
    <3> QED BY <1>5, <1>7, <3>2
  <2>2. SelectInSeq(s, LAMBDA d : d = Nul) = 0
    BY <1>6, <1>7
  <2>3. Printed(s) = s
    BY <2>2 DEF Printed
  <2> QED BY <1>1, <1>2, <2>1, <2>3
<1>8. CASE I # {}
  <2>1. 1 \in DOMAIN b /\ s[1] = Nul /\ \A k \in DOMAIN b : k # 1 => s[k] = b[k] /\ b[k] # Nul
    <3>1. CASE s = b
      BY <1>3, <1>4, <1>5, <1>8, <3>1
    <3>2. CASE b # <<>> /\ s = [b EXCEPT ![1] = Nul]
      <4>1. 1 \in DOMAIN b
        BY <1>3, <3>2, EmptySeq
      <4> QED BY <1>3, <3>2, <4>1
    <3> QED BY <1>4, <3>1, <3>2
  <2>2. I = {1}
    BY <1>3, <1>4, <1>5, <2>1
  <2>3. Min(I) = 1
    BY <2>2 DEF Min
  <2>4. Printed(s) = SubSeq(s, 1, 1 - 1)
    <3>1. SelectInSeq(s, LAMBDA d : d = Nul) = 1
      BY <1>6, <1>8, <2>3
    <3>2. 1 # 0
      OBVIOUS
    <3> QED BY <3>1, <3>2 DEF Printed
  <2>5. Printed(s) = <<>>
    BY <2>4
  <2>6. s # <<>> /\ Head(s) = Nul
    BY <1>3, <1>4, <2>1, EmptySeq
  <2>7. Cut(c) = Range(b)
    BY <1>1, <1>2, <2>6 DEF Cut
  <2> QED BY <1>1, <1>2, <1>3, <1>4, <2>1, <2>5, <2>7
<1> QED BY <1>7, <1>8

\* h is g_events with the events behind it of those channels in S that are due.
Grown(h, S) ==
  /\ h \in Seq(Events)
  /\ \A n \in DOMAIN g_events : n \in DOMAIN h /\ h[n] = g_events[n]
  /\ \A n \in DOMAIN h \ DOMAIN g_events :
       h[n].chan \in S /\ Due(h[n].chan) /\ h[n].digits = Printed(Contents(h[n].chan))
  /\ \A m, n \in DOMAIN h \ DOMAIN g_events : h[m].chan = h[n].chan => m = n
  /\ \A c \in S : Due(c) => \E n \in DOMAIN h \ DOMAIN g_events : h[n].chan = c

LEMMA GrownByOne ==
  ASSUME BufferType, QueueType, NEW c \in Channels, NulFirst(c),
         NEW h, NEW S, Grown(h, S), c \notin S
  PROVE  Grown(Then(h, Flushed(c)), S \cup {c})
<1> DEFINE e == Event(c, Printed(Contents(c)))
           g == Then(h, Flushed(c))
<1>2. Flushed(c) = IF Due(c) THEN <<e>> ELSE <<>>
  BY DEF Flushed
<1>3. e \in Events /\ e.chan = c /\ e.digits = Printed(Contents(c))
  <2>1. <<>> \in Seq(Digits)
    OBVIOUS
  <2>2. Printed(Contents(c)) \in Seq(Digits)
    BY <2>1, ContentsAre, KeptTypes
  <2> QED BY <2>2 DEF Event, Events
<1>4. h \in Seq(Events) /\ DOMAIN h = 1 .. Len(h) /\ Len(h) \in Nat
  BY LenProperties DEF Grown
<1>5. DOMAIN g_events = 1 .. Len(g_events) /\ Len(g_events) \in Nat
  BY KeptTypes
<1> HIDE DEF e, g
<1>6. CASE ~Due(c)
  <2>1. g = h
    BY <1>2, <1>4, <1>6, ConcatEmptySeq DEF Then, g
  <2> QED BY <1>6, <2>1 DEF Grown, g
<1>7. CASE Due(c)
  <2>1. g = Append(h, e)
    <3>1. h \o <<e>> = Append(h, e)
      BY <1>3, <1>4, AppendIsConcat
    <3> QED BY <1>2, <1>7, <3>1 DEF Then, g
  <2>2. /\ g \in Seq(Events) /\ DOMAIN g = 1 .. Len(h) + 1 /\ g[Len(h) + 1] = e
        /\ \A n \in 1 .. Len(h) : g[n] = h[n]
    BY <1>3, <1>4, <2>1, AppendProperties, LenProperties
  <2>3. \A n \in DOMAIN h : n \in DOMAIN g /\ g[n] = h[n]
    BY <1>4, <2>2
  <2>4. \A n \in DOMAIN g : (n \in DOMAIN h /\ g[n] = h[n]) \/ (n = Len(h) + 1 /\ g[n] = e)
    BY <1>4, <2>2
  <2>5. Len(h) + 1 \in DOMAIN g \ DOMAIN g_events
    <3>1. Len(g_events) <= Len(h)
      BY <1>4, <1>5 DEF Grown
    <3> QED BY <1>4, <1>5, <2>2, <3>1
  <2>6. \A n \in DOMAIN g_events : n \in DOMAIN g /\ g[n] = g_events[n]
    BY <2>3 DEF Grown
  <2>7. \A n \in DOMAIN g \ DOMAIN g_events :
          g[n].chan \in S \cup {c} /\ Due(g[n].chan) /\ g[n].digits = Printed(Contents(g[n].chan))
    BY <1>3, <1>7, <2>4 DEF Grown
  <2>8. \A m, n \in DOMAIN g \ DOMAIN g_events : g[m].chan = g[n].chan => m = n
    <3> SUFFICES ASSUME NEW m \in DOMAIN g \ DOMAIN g_events,
                        NEW n \in DOMAIN g \ DOMAIN g_events,
                        g[m].chan = g[n].chan
                 PROVE  m = n
      OBVIOUS
    <3>1. \A k \in DOMAIN h \ DOMAIN g_events : h[k].chan # c
      BY DEF Grown
    <3>2. CASE m \in DOMAIN h /\ g[m] = h[m] /\ n \in DOMAIN h /\ g[n] = h[n]
      BY <3>2 DEF Grown
    <3>3. CASE m \in DOMAIN h /\ g[m] = h[m] /\ g[n] = e
      BY <1>3, <3>1, <3>3
    <3>4. CASE n \in DOMAIN h /\ g[n] = h[n] /\ g[m] = e
      BY <1>3, <3>1, <3>4
    <3>5. CASE m = Len(h) + 1 /\ n = Len(h) + 1
      BY <3>5
    <3> QED BY <2>4, <3>2, <3>3, <3>4, <3>5
  <2>9. ASSUME NEW d \in S \cup {c}, Due(d)
        PROVE  \E n \in DOMAIN g \ DOMAIN g_events : g[n].chan = d
    <3>1. CASE d = c
      BY <1>3, <2>2, <2>5, <3>1
    <3>2. CASE d \in S
      BY <2>3, <2>9, <3>2 DEF Grown
    <3> QED BY <3>1, <3>2
  <2> QED BY <2>2, <2>6, <2>7, <2>8, <2>9 DEF Grown, g
<1> QED BY <1>6, <1>7

LEMMA CheckGrows ==
  ASSUME BufferType, QueueType, Check, \A c \in Channels : NulFirst(c)
  PROVE  /\ Grown(g_events', Channels)
         /\ (\A c \in Channels : ~Due(c)) => g_events' = g_events
<1>2. Grown(g_events, {})
  BY DEF QueueType, Grown
<1> DEFINE h1 == Then(g_events, Flushed("rfc2833"))
           h2 == Then(h1, Flushed("inband"))
<1>3. Grown(h1, {"rfc2833"})
  <2>1. "rfc2833" \in Channels /\ "rfc2833" \notin {} /\ {} \cup {"rfc2833"} = {"rfc2833"}
    BY DEF Channels
  <2> QED BY <1>2, <2>1, GrownByOne
<1> HIDE DEF h1
<1>4. Grown(h2, {"rfc2833", "inband"})
  <2>1. /\ "inband" \in Channels /\ "inband" \notin {"rfc2833"}
        /\ {"rfc2833"} \cup {"inband"} = {"rfc2833", "inband"}
    BY DEF Channels
  <2>2. Grown(Then(h1, Flushed("inband")), {"rfc2833"} \cup {"inband"})
    BY <1>3, <2>1, GrownByOne
  <2> QED BY <2>1, <2>2
<1> HIDE DEF h2
<1>5. Grown(Then(h2, Flushed("bfsk")), Channels)
  <2>1. /\ "bfsk" \in Channels /\ "bfsk" \notin {"rfc2833", "inband"}
        /\ {"rfc2833", "inband"} \cup {"bfsk"} = Channels
    BY DEF Channels
  <2>2. Grown(Then(h2, Flushed("bfsk")), {"rfc2833", "inband"} \cup {"bfsk"})
    BY <1>4, <2>1, GrownByOne
  <2> QED BY <2>1, <2>2
<1>6. g_events' = Then(h2, Flushed("bfsk"))
  BY DEF Check, Report, Then, h1, h2
<1>7. ASSUME \A c \in Channels : ~Due(c) PROVE g_events' = g_events
  <2>1. Flushed("rfc2833") = <<>> /\ Flushed("inband") = <<>> /\ Flushed("bfsk") = <<>>
    BY <1>7 DEF Flushed, Channels
  <2>2. g_events \in Seq(Events)
    BY DEF QueueType
  <2>3. h1 = g_events /\ h2 = g_events /\ Then(h2, <<>>) = g_events
    BY <2>1, <2>2, ConcatEmptySeq DEF Then, h1, h2
  <2> QED BY <1>6, <2>1, <2>3
<1> QED BY <1>5, <1>6, <1>7

LEMMA CheckStep ==
  ASSUME Timed, QueueType, Race, Check, \A c \in Channels : ChannelOK(c)
  PROVE  QueueType' /\ Race' /\ \A c \in Channels : ChannelOK(c)'
<1>0. BufferType /\ \A c \in Channels : NulFirst(c)
  BY DEF Timed, ChannelOK
<1>1. Grown(g_events', Channels) /\ ((\A c \in Channels : ~Due(c)) => g_events' = g_events)
  BY <1>0, CheckGrows
<1>2. /\ Buffers' = [c \in Channels |-> IF Due(c) THEN <<>> ELSE Contents(c)]
      /\ dropped' = [c \in Channels |-> dropped[c] \cup Cut(c)]
      /\ UNCHANGED <<use, timer, has_id, pc, slot, detected, popped, handed, others, parked>>
  BY DEF Check, Report, detector
<1>3. \A c \in Channels : Range(Contents(c)) \subseteq Digits /\ Range(Buffers[c]) \subseteq Digits
  <2> SUFFICES ASSUME NEW c \in Channels
               PROVE  Range(Contents(c)) \subseteq Digits /\ Range(Buffers[c]) \subseteq Digits
    OBVIOUS
  <2>1. Contents(c) \in Seq(Digits) /\ Buffers[c] \in Seq(Digits)
    BY <1>0, ContentsType DEF BufferType
  <2>2. \A s \in Seq(Digits) : Range(s) \subseteq Digits
    BY LenProperties, ElementOfSeq DEF Range
  <2> QED BY <2>1, <2>2
<1>4. /\ clashed' \in [Channels -> SUBSET Digits]
      /\ \A c \in Channels : clashed[c] \subseteq clashed'[c]
      /\ Pushing # {} /\ (\E c \in Channels : Due(c)) =>
           /\ \A c \in Pushing : detected[c] \in clashed'[c]
           /\ \A c \in Channels : Due(c) => Range(Contents(c)) \subseteq clashed'[c]
  <2>1. CASE ~(Pushing # {} /\ \E c \in Channels : Due(c))
    <3>1. clashed' = clashed
      BY <2>1 DEF Check, Report
    <3> QED BY <2>1, <3>1 DEF QueueType
  <2>2. CASE Pushing # {} /\ \E c \in Channels : Due(c)
    <3>1. PICK S : S = [c \in Channels |->
                          HeldBy(Pushing)[c] \cup IF Due(c) THEN Range(Contents(c)) ELSE {}]
      OBVIOUS
    <3>2. Clash(S)
      BY <2>2, <3>1 DEF Check, Report
    <3>3. \A c \in Channels : S[c] \subseteq Digits
      BY <1>0, <1>3, <3>1, HandType
    <3>4. \A c \in Pushing : c \in Channels /\ detected[c] \in S[c]
      BY <3>1 DEF HeldBy, InHand, Pushing
    <3>5. \A c \in Channels : Due(c) => Range(Contents(c)) \subseteq S[c]
      BY <3>1
    <3>6. /\ clashed' \in [Channels -> SUBSET Digits]
          /\ \A c \in Channels : clashed'[c] = clashed[c] \cup S[c]
      BY <3>2, <3>3, ClashType
    <3> QED BY <3>4, <3>5, <3>6
  <2> QED BY <2>1, <2>2
<1>5. QueueType'
  <2>1. \A c \in Channels : dropped[c] \cup Cut(c) \in SUBSET Digits
    BY <1>3 DEF QueueType, Cut
  <2>2. dropped' \in [Channels -> SUBSET Digits]
    BY <1>2, <2>1
  <2>3. g_events' \in Seq(Events)
    BY <1>1 DEF Grown
  <2> QED BY <1>2, <1>4, <2>2, <2>3 DEF QueueType
<1>6. Race'
  <2>1. CASE Pushing = {} \/ \A c \in Channels : ~Due(c)
    BY <1>1, <1>2, <1>4, <2>1, RaceGrows
  <2>2. CASE Pushing # {} /\ \E c \in Channels : Due(c)
    <3>1. ASSUME NEW n \in DOMAIN g_events'
          PROVE  \/ n \in DOMAIN g_events /\ g_events'[n] = g_events[n]
                 \/ \A d \in Channels : Range(Carried(d, n)') \subseteq clashed'[d]
      <4>1. CASE n \in DOMAIN g_events
        BY <1>1, <4>1 DEF Grown
      <4>2. CASE n \notin DOMAIN g_events
        <5>1. /\ Due(g_events'[n].chan)
              /\ g_events'[n].digits = Printed(Contents(g_events'[n].chan))
          BY <1>1, <4>2 DEF Grown
        <5>2. ASSUME NEW d \in Channels PROVE Range(Carried(d, n)') \subseteq clashed'[d]
          <6>1. Range(<<>>) = {}
            BY DEF Range
          <6>2. CASE g_events'[n].chan # d
            BY <6>1, <6>2 DEF Carried
          <6>3. CASE g_events'[n].chan = d
            <7>1. Carried(d, n)' = Printed(Contents(d)) /\ Due(d)
              BY <5>1, <6>3 DEF Carried
            <7>2. Range(Printed(Contents(d))) \subseteq Range(Contents(d))
              <8>1. CASE Printed(Contents(d)) = <<>>
                BY <6>1, <8>1
              <8>2. CASE Printed(Contents(d)) = Contents(d)
                BY <8>2
              <8> QED BY <1>0, <8>1, <8>2, ContentsAre
            <7> QED BY <1>4, <2>2, <7>1, <7>2
          <6> QED BY <6>2, <6>3
        <5> QED BY <5>2
      <4> QED BY <4>1, <4>2
    <3> QED BY <1>2, <1>4, <2>2, <3>1, RaceGrows
  <2> QED BY <2>1, <2>2
<1>7. ASSUME NEW c \in Channels PROVE ChannelOK(c)'
  <2>0. KeptDetected(c) /\ NulFirst(c) /\ OffParked(c) /\ Held(c) /\ Queued(c)
    BY DEF ChannelOK
  <2>1. PICK k \in Nat : k = Len(g_events)
    BY <1>0, KeptTypes
  <2>2. /\ DOMAIN g_events = 1 .. k
        /\ DOMAIN g_events' = 1 .. Len(g_events') /\ Len(g_events') \in Nat
    BY <1>0, <1>1, <2>1, KeptTypes, LenProperties DEF Grown
  <2>3. /\ DOMAIN g_events' \subseteq Nat
        /\ \A n \in DOMAIN g_events' :
             n <= k => n \in DOMAIN g_events /\ g_events'[n] = g_events[n]
        /\ \A n \in DOMAIN g_events : n \in DOMAIN g_events' /\ g_events'[n] = g_events[n]
        /\ \A n \in DOMAIN g_events' : ~(n <= k) => n \notin DOMAIN g_events
    BY <1>1, <2>2 DEF Grown
  <2>4. PICK b : b = Buffers[c]
    OBVIOUS
  <2>5. PICK z : z = Contents(c)
    OBVIOUS
  <2>6. PICK t : t = Printed(z)
    OBVIOUS
  <2>7. PICK s : s = IF Due(c) THEN t ELSE <<>>
    OBVIOUS
  <2>8. PICK v : v = IF Due(c) THEN <<>> ELSE z
    OBVIOUS
  <2>9. /\ t = <<>> \/ t = b
        /\ DOMAIN z = DOMAIN b
        /\ \A j \in DOMAIN b : z[j] = b[j] \/ (j = 1 /\ z[j] = Nul)
        /\ \A j \in DOMAIN b : z[j] = Nul => j = 1
    BY <1>0, <2>4, <2>5, <2>6, ContentsAre DEF NulFirst
  <2>10. DOMAIN b \subseteq Nat \ {0} /\ \A j \in DOMAIN b : b[j] \in Nat
    <3>1. b \in Seq(Digits) /\ \A j \in DOMAIN b : b[j] \in Nat
      BY <1>0, <2>4, KeptTypes
    <3>2. DOMAIN b = 1 .. Len(b) /\ Len(b) \in Nat
      BY <3>1, LenProperties
    <3> QED BY <3>1, <3>2
  <2> DEFINE P == parked[c]
  <2>11. /\ Ascending(P, b) /\ Before(P, handed[c], b)
         /\ \A n \in DOMAIN g_events : Before(P, Carried(c, n), b)
    BY <2>0, <2>4 DEF Queued
  <2> HIDE DEF P
  <2>12. Ascending(P, z)
    <3> SUFFICES ASSUME NEW i \in DOMAIN b, NEW j \in DOMAIN b, i < j
                 PROVE  Follows(P, z[i], z[j])
      BY <2>9 DEF Ascending
    <3>1. j # 1 /\ z[j] = b[j] /\ b[j] # Nul /\ b[j] \in Nat
      BY <2>9, <2>10
    <3>2. CASE z[i] = b[i]
      BY <2>11, <3>1, <3>2 DEF Ascending
    <3>3. CASE z[i] = Nul
      BY <3>1, <3>3 DEF Follows, Nul
    <3> QED BY <2>9, <3>2, <3>3
  <2>13. ASSUME NEW r, Before(P, r, b) PROVE Before(P, r, z)
    BY <2>9, <2>13 DEF Before, Follows
  <2>14. Ascending(P, s) /\ Ascending(P, v) /\ Before(P, s, v)
    BY <2>6, <2>7, <2>8, <2>9, <2>11, <2>12, NoDigits
  <2>15. /\ Before(P, handed[c], s) /\ Before(P, handed[c], v)
         /\ \A n \in DOMAIN g_events : Before(P, Carried(c, n), s) /\ Before(P, Carried(c, n), v)
    BY <2>7, <2>8, <2>9, <2>11, <2>13, NoDigits
  <2>16. Earlier(c, s)' /\ Earlier(c, v)'
    <3>1. Earlier(c, b) /\ Earlier(c, <<>>)
      BY <2>0, <2>4 DEF KeptDetected, Earlier
    <3>2. Earlier(c, z)
      <4>1. Nul <= detected[c] /\ (pc[c] # "idle" => Nul < detected[c])
        BY <1>0, <2>0, KeptTypes DEF NulFirst, Nul
      <4> QED BY <2>9, <3>1, <4>1 DEF Earlier
    <3>3. Earlier(c, s) /\ Earlier(c, v)
      BY <2>7, <2>8, <2>9, <3>1, <3>2
    <3> QED BY <1>2, <3>3 DEF Earlier
  <2>17. Buffers'[c] = v
    BY <1>2, <2>5, <2>8
  <2>18. PICK p \in Nat : /\ k < p
                          /\ \A n \in DOMAIN g_events' :
                               ~(n <= k) => Carried(c, n)' = <<>> \/ (n = p /\ Carried(c, n)' = s)
                          /\ Due(c) => p \in DOMAIN g_events' /\ Carried(c, p)' = s
    <3>1. CASE ~Due(c)
      <4>1. \A n \in DOMAIN g_events' : ~(n <= k) => Carried(c, n)' = <<>>
        BY <1>1, <2>3, <3>1 DEF Grown, Carried
      <4>2. k + 1 \in Nat /\ k < k + 1
        OBVIOUS
      <4> QED BY <3>1, <4>1, <4>2
    <3>2. CASE Due(c)
      <4>1. PICK p \in DOMAIN g_events' \ DOMAIN g_events : g_events'[p].chan = c
        BY <1>1, <3>2 DEF Grown
      <4>2. /\ g_events'[p].digits = s
            /\ \A n \in DOMAIN g_events' :
                 n \in DOMAIN g_events \/ n = p \/ g_events'[n].chan # c
        BY <1>1, <2>5, <2>6, <2>7, <3>2, <4>1 DEF Grown
      <4>3. p \in Nat /\ k < p
        BY <2>2, <4>1
      <4>4. Carried(c, p)' = s
        BY <4>1, <4>2 DEF Carried
      <4>5. \A n \in DOMAIN g_events' : ~(n <= k) => Carried(c, n)' = <<>> \/ n = p
        BY <2>3, <4>2 DEF Carried
      <4> QED BY <4>1, <4>3, <4>4, <4>5
    <3> QED BY <3>1, <3>2
  <2>19. KeptDetected(c)' /\ Queued(c)'
    <3>1. /\ parked'[c] = P /\ parked[c] = P /\ handed'[c] = handed[c]
          /\ detected'[c] = detected[c] /\ pc'[c] = pc[c]
      BY <1>2 DEF P
    <3>2. k < p /\ \A n \in DOMAIN g_events' :
            ~(n <= k) => Carried(c, n)' = <<>> \/ (n = p /\ Carried(c, n)' = s)
      BY <2>18
    <3>3. /\ Ascending(parked'[c], s) /\ Ascending(parked'[c], v)
          /\ Before(parked'[c], handed[c], s) /\ Before(parked'[c], handed[c], v)
          /\ Before(parked'[c], s, v)
          /\ \A n \in DOMAIN g_events : /\ Before(parked'[c], Carried(c, n), s)
                                        /\ Before(parked'[c], Carried(c, n), v)
      BY <2>14, <2>15, <3>1
    <3>4. parked[c] \subseteq parked'[c] /\ (pc'[c] # "idle" => pc[c] # "idle")
      BY <3>1
    <3> QED BY <2>0, <2>3, <2>16, <2>17, <3>1, <3>2, <3>3, <3>4, Line
  <2>20. NulFirst(c)'
    BY <1>2, <2>0, <2>8, <2>9, <2>17 DEF NulFirst
  <2>21. OffParked(c)'
    <3>1. Range(v) \subseteq Range(b) \cup {Nul}
      BY <2>8, <2>9 DEF Range
    <3>2. Waiting(c)' \subseteq Waiting(c) \cup {Nul}
      BY <1>2, <2>4, <2>17, <3>1 DEF Waiting
    <3>3. TimerOf(c)' = TimerOf(c)
      BY <1>2 DEF TimerOf
    <3> QED BY <1>2, <2>0, <2>4, <2>17, <3>1, <3>2, <3>3 DEF OffParked
  <2>22. Held(c)'
    <3>1. PICK U : U = Kept(c)' \cup InHand(c)' \cup dropped'[c] \cup clashed'[c]
      OBVIOUS
    <3>2. \A n \in DOMAIN g_events' : Range(Carried(c, n)') \subseteq U
      BY <3>1 DEF Kept
    <3>3. \A n \in DOMAIN g_events : Range(Carried(c, n)) \subseteq U
      <4>1. \A n \in DOMAIN g_events : n \in DOMAIN g_events' /\ Carried(c, n)' = Carried(c, n)
        BY <2>3 DEF Carried
      <4> QED BY <3>2, <4>1
    <3>4. Range(Buffers[c]) \subseteq U
      <4>1. CASE t = b /\ z = b
        <5>1. CASE Due(c)
          <6>1. p \in DOMAIN g_events' /\ Carried(c, p)' = b
            BY <2>7, <2>18, <4>1, <5>1
          <6> QED BY <2>4, <3>2, <6>1
        <5>2. CASE ~Due(c)
          <6>1. Buffers'[c] = b
            BY <2>8, <2>17, <4>1, <5>2
          <6>2. Range(Buffers'[c]) \subseteq Kept(c)'
            BY DEF Kept
          <6> QED BY <2>4, <3>1, <6>1, <6>2
        <5> QED BY <5>1, <5>2
      <4>2. CASE Cut(c) = Range(Buffers[c])
        BY <1>2, <3>1, <4>2
      <4> QED BY <1>0, <2>4, <2>5, <2>6, <4>1, <4>2, ContentsAre
    <3>5. Range(handed[c]) \cup InHand(c) \subseteq U
      <4>1. InHand(c)' = InHand(c) /\ Range(handed[c]) \subseteq Kept(c)'
        BY <1>2 DEF InHand, Kept
      <4> QED BY <3>1, <4>1
    <3>6. dropped[c] \cup clashed[c] \subseteq U /\ detected'[c] = detected[c]
      BY <1>2, <1>4, <3>1
    <3>7. Range(handed[c]) \cup Range(Buffers[c]) \cup InHand(c) \subseteq U
      BY <3>4, <3>5
    <3> QED BY <2>0, <3>1, <3>3, <3>6, <3>7, HeldStep
  <2> QED BY <2>19, <2>20, <2>21, <2>22 DEF ChannelOK
<1> QED BY <1>5, <1>6, <1>7

-----------------------------------------------------------------------------
(***************************************************************************)
(* The main thread and the clock.                                          *)
(***************************************************************************)
LEMMA PollStep ==
  ASSUME Timed, QueueType, Race, Poll, \A c \in Channels : ChannelOK(c)
  PROVE  QueueType' /\ Race' /\ \A c \in Channels : ChannelOK(c)'
<1>1. BufferType
  BY DEF Timed
<1> DEFINE e == Head(g_events)
<1>2. /\ g_events # <<>> /\ g_events' = Tail(g_events) /\ popped' = popped + 1
      /\ handed' = [c \in Channels |-> IF c = e.chan THEN Then(handed[c], e.digits) ELSE handed[c]]
      /\ UNCHANGED <<use, timer, has_id, pc, slot, detected, Buffers, dropped, others,
                     parked, clashed>>
  BY DEF Poll, detector, buffer, faults, Then
<1>3. /\ g_events \in Seq(Events) /\ DOMAIN g_events = 1 .. Len(g_events)
      /\ Len(g_events) \in Nat \ {0} /\ popped \in Nat
  BY <1>1, <1>2, LenProperties, EmptySeq DEF QueueType
<1>4. /\ g_events' \in Seq(Events) /\ Len(g_events') = Len(g_events) - 1
      /\ DOMAIN g_events' = 1 .. Len(g_events) - 1
      /\ \A n \in DOMAIN g_events' : n + 1 \in DOMAIN g_events /\ g_events'[n] = g_events[n + 1]
      /\ e = g_events[1] /\ 1 \in DOMAIN g_events
      /\ \A n \in DOMAIN g_events : n = 1 \/ n - 1 \in DOMAIN g_events'
  BY <1>2, <1>3, HeadTailProperties, LenProperties
<1> HIDE DEF e
<1>5. \A c \in Channels : handed'[c] = Then(handed[c], Carried(c, 1))
  <2> SUFFICES ASSUME NEW c \in Channels PROVE handed'[c] = Then(handed[c], Carried(c, 1))
    OBVIOUS
  <2>1. CASE c = e.chan
    BY <1>2, <1>4, <2>1 DEF Carried
  <2>2. CASE c # e.chan
    <3>1. Carried(c, 1) = <<>> /\ handed'[c] = handed[c]
      BY <1>2, <1>4, <2>2 DEF Carried
    <3>2. handed[c] \o <<>> = handed[c]
      BY <1>1, KeptTypes, ConcatEmptySeq
    <3> QED BY <3>1, <3>2 DEF Then
  <2> QED BY <2>1, <2>2
<1>6. QueueType'
  <2>1. \A c \in Channels : handed'[c] \in Seq(Digits)
    BY <1>1, <1>4, <1>5, KeptTypes, Longer
  <2>2. handed' \in [Channels -> Seq(Digits)]
    BY <1>2, <2>1
  <2> QED BY <1>1, <1>2, <1>3, <1>4, <2>2 DEF QueueType
<1>7. Race'
  <2>1. popped' + Len(g_events') = popped + Len(g_events)
    BY <1>2, <1>3, <1>4
  <2>2. Pushing' = Pushing
    BY <1>2 DEF Pushing
  <2>3. ASSUME NEW c \in Pushing PROVE Behind(c)'
    <3>1. Behind(c) /\ c \in Channels /\ slot[c] \in Nat
      BY DEF Race, Pushing, QueueType
    <3>2. slot'[c] # popped' + Len(g_events') => detected[c] \in clashed[c]
      BY <1>2, <2>1, <3>1 DEF Behind
    <3>3. ASSUME NEW n \in DOMAIN g_events', n > slot[c] - popped', NEW d \in Channels
          PROVE  Range(Carried(d, n)') \subseteq clashed[d]
      <4>1. n + 1 \in DOMAIN g_events /\ Carried(d, n)' = Carried(d, n + 1) /\ n \in Nat
        BY <1>3, <1>4 DEF Carried
      <4>2. n + 1 > slot[c] - popped
        BY <1>2, <1>3, <3>1, <3>3, <4>1
      <4>3. Range(Carried(d, n + 1)) \subseteq clashed[d]
        BY <3>1, <4>1, <4>2 DEF Behind
      <4> QED BY <4>1, <4>3
    <3> QED BY <1>2, <3>2, <3>3 DEF Behind
  <2> QED BY <1>2, <2>2, <2>3 DEF Race
<1>9. ASSUME NEW c \in Channels PROVE ChannelOK(c)'
  <2> DEFINE t == Carried(c, 1)
             more == handed'[c]
             P == parked[c]
  <2>1. /\ handed[c] \in Seq(Digits) /\ t \in Seq(Digits)
        /\ \A n \in DOMAIN g_events : Carried(c, n) \in Seq(Digits)
        /\ DOMAIN handed[c] = 1 .. Len(handed[c]) /\ Len(handed[c]) \in Nat
        /\ DOMAIN t = 1 .. Len(t) /\ Len(t) \in Nat
    BY <1>1, <1>4, KeptTypes, LenProperties
  <2>2. /\ more = Then(handed[c], t)
        /\ \A k \in DOMAIN more :
             \/ k \in DOMAIN handed[c] /\ more[k] = handed[c][k]
             \/ \E m \in DOMAIN t : k = Len(handed[c]) + m /\ more[k] = t[m]
        /\ \A k \in DOMAIN handed[c] : k \in DOMAIN more /\ more[k] = handed[c][k]
        /\ \A m \in DOMAIN t : Len(handed[c]) + m \in DOMAIN more /\ more[Len(handed[c]) + m] = t[m]
    BY <1>5, <2>1, Longer
  <2>3. \A n \in DOMAIN g_events' :
          n + 1 \in DOMAIN g_events /\ Carried(c, n)' = Carried(c, n + 1)
    BY <1>4 DEF Carried
  <2>4. /\ Ascending(P, handed[c]) /\ Ascending(P, t) /\ Before(P, handed[c], t)
        /\ Ascending(P, Buffers[c]) /\ Before(P, handed[c], Buffers[c]) /\ Before(P, t, Buffers[c])
        /\ \A n \in DOMAIN g_events : /\ Ascending(P, Carried(c, n))
                                      /\ Before(P, handed[c], Carried(c, n))
                                      /\ Before(P, Carried(c, n), Buffers[c])
        /\ \A m, n \in DOMAIN g_events : m < n => Before(P, Carried(c, m), Carried(c, n))
    BY <1>4 DEF ChannelOK, Queued, P
  <2>5. /\ Earlier(c, handed[c]) /\ Earlier(c, t) /\ Earlier(c, Buffers[c])
        /\ \A n \in DOMAIN g_events : Earlier(c, Carried(c, n))
    BY <1>4 DEF ChannelOK, KeptDetected
  <2> HIDE DEF t, more, P
  <2>6. KeptDetected(c)'
    <3>1. Earlier(c, handed[c])'
      BY <1>2, <2>2, <2>5 DEF Earlier, more
    <3>2. Earlier(c, Buffers[c])'
      BY <1>2, <2>5 DEF Earlier
    <3>3. ASSUME NEW n \in DOMAIN g_events' PROVE Earlier(c, Carried(c, n))'
      BY <1>2, <2>3, <2>5 DEF Earlier
    <3> QED BY <3>1, <3>2, <3>3 DEF KeptDetected
  <2>7. ASSUME NEW s, Before(P, handed[c], s), Before(P, t, s) PROVE Before(P, more, s)
    BY <2>2, <2>7 DEF Before
  <2>8. Ascending(P, more)
    <3> SUFFICES ASSUME NEW j \in DOMAIN more, NEW k \in DOMAIN more, j < k
                 PROVE  Follows(P, more[j], more[k])
      BY DEF Ascending
    <3>1. CASE k \in DOMAIN handed[c] /\ more[k] = handed[c][k]
      <4>1. j \in DOMAIN handed[c] /\ more[j] = handed[c][j]
        BY <2>1, <2>2, <3>1
      <4> QED BY <2>4, <3>1, <4>1 DEF Ascending
    <3>2. ASSUME NEW m \in DOMAIN t, k = Len(handed[c]) + m, more[k] = t[m]
          PROVE  Follows(P, more[j], more[k])
      <4>1. CASE j \in DOMAIN handed[c] /\ more[j] = handed[c][j]
        BY <2>4, <3>2, <4>1 DEF Before
      <4>2. ASSUME NEW i \in DOMAIN t, j = Len(handed[c]) + i, more[j] = t[i]
            PROVE  Follows(P, more[j], more[k])
        <5>1. i < m
          BY <2>1, <3>2, <4>2
        <5> QED BY <2>4, <3>2, <4>2, <5>1 DEF Ascending
      <4> QED BY <2>2, <4>1, <4>2
    <3> QED BY <2>2, <3>1, <3>2
  <2>9. Queued(c)'
    <3>1. Ascending(parked[c], handed[c])' /\ Ascending(parked[c], Buffers[c])' /\ Before(parked[c], handed[c], Buffers[c])'
      BY <1>2, <2>4, <2>7, <2>8 DEF more, P
    <3>2. ASSUME NEW n \in DOMAIN g_events'
          PROVE  /\ Ascending(parked[c], Carried(c, n))' /\ Before(parked[c], handed[c], Carried(c, n))'
                 /\ Before(parked[c], Carried(c, n), Buffers[c])'
      <4>1. n + 1 \in DOMAIN g_events /\ Carried(c, n)' = Carried(c, n + 1)
        BY <2>3
      <4>2. 1 < n + 1
        BY <1>3, <1>4
      <4>3. Before(P, t, Carried(c, n + 1))
        BY <1>4, <2>4, <4>1, <4>2 DEF t
      <4>4. Before(P, more, Carried(c, n + 1))
        BY <2>4, <2>7, <4>1, <4>3
      <4>5. Ascending(P, Carried(c, n + 1)) /\ Before(P, Carried(c, n + 1), Buffers[c])
        BY <2>4, <4>1
      <4> QED BY <1>2, <4>1, <4>4, <4>5 DEF more, P
    <3>3. ASSUME NEW m \in DOMAIN g_events', NEW n \in DOMAIN g_events', m < n
          PROVE  Before(parked[c], Carried(c, m), Carried(c, n))'
      <4>1. /\ m + 1 \in DOMAIN g_events /\ Carried(c, m)' = Carried(c, m + 1)
            /\ n + 1 \in DOMAIN g_events /\ Carried(c, n)' = Carried(c, n + 1)
        BY <2>3
      <4>2. m + 1 < n + 1
        BY <1>3, <1>4, <3>3
      <4>3. Before(P, Carried(c, m + 1), Carried(c, n + 1))
        BY <2>4, <4>1, <4>2
      <4> QED BY <1>2, <4>1, <4>3 DEF P
    <3> QED BY <3>1, <3>2, <3>3 DEF Queued
  <2>10. Held(c)'
    <3>1. Range(handed[c]) \subseteq Range(more) /\ Range(t) \subseteq Range(more)
      BY <2>2 DEF Range
    <3>2. ASSUME NEW n \in DOMAIN g_events PROVE Range(Carried(c, n)) \subseteq Kept(c)'
      <4>1. CASE n = 1
        BY <3>1, <4>1 DEF Kept, t, more
      <4>2. CASE n # 1
        <5>1. n - 1 \in DOMAIN g_events' /\ (n - 1) + 1 = n
          BY <1>3, <1>4, <4>2
        <5>2. Carried(c, n - 1)' = Carried(c, n)
          BY <2>3, <5>1
        <5>3. PICK m \in DOMAIN g_events' : Carried(c, m)' = Carried(c, n)
          BY <5>1, <5>2
        <5>4. Range(Carried(c, m)') = Range(Carried(c, n))
          BY <5>3
        <5> QED BY <5>4 DEF Kept
      <4> QED BY <4>1, <4>2
    <3>3. Kept(c) \subseteq Kept(c)'
      <4>1. Range(handed[c]) \subseteq Kept(c)' /\ Range(Buffers[c]) \subseteq Kept(c)'
        BY <1>2, <3>1 DEF Kept, more
      <4> QED BY <3>2, <4>1 DEF Kept
    <3> QED BY <1>2, <3>3 DEF ChannelOK, Held, InHand
  <2>11. NulFirst(c)'
    BY <1>2 DEF ChannelOK, NulFirst
  <2>12. OffParked(c)'
    BY <1>2, OffStays DEF ChannelOK
  <2> QED BY <2>6, <2>9, <2>10, <2>11, <2>12 DEF ChannelOK
<1> QED BY <1>6, <1>7, <1>9

LEMMA OtherStep ==
  ASSUME Timed, QueueType, Race, \A c \in Channels : ChannelOK(c),
         \/ \E kind \in {"dtmf", "bfsk"}, t \in use.timers : SetTimer(kind, t)
         \/ OtherEvent \/ EndCall \/ Tick \/ UNCHANGED detector_vars
  PROVE  QueueType' /\ Race' /\ \A c \in Channels : ChannelOK(c)'
<1>1. BufferType
  BY DEF Timed
<1>2. UNCHANGED <<use, pc, slot, detected, Buffers, dropped, popped, handed>>
  BY DEF SetTimer, OtherEvent, EndCall, Tick, detector_vars, detector, buffer, queue
<1>3. PICK k \in Nat : k = Len(g_events) /\ DOMAIN g_events = 1 .. k
  <2>1. "bfsk" \in Channels
    BY DEF Channels
  <2> QED BY <1>1, <2>1, KeptTypes
<1>4. /\ has_id' \in BOOLEAN
      /\ \/ g_events' = g_events /\ others' = others /\ clashed' = clashed
         \/ OtherEvent
  BY DEF QueueType, SetTimer, OtherEvent, EndCall, Tick, detector_vars, queue, faults
<1>5. /\ parked' \in [Channels -> SUBSET Digits]
      /\ \A c \in Channels : parked[c] \subseteq parked'[c] /\ (OffParked(c) => OffParked(c)')
  <2>1. CASE UNCHANGED <<timer, parked>>
    BY <1>2, <2>1, OffStays DEF QueueType
  <2>2. ASSUME NEW kind \in {"dtmf", "bfsk"}, NEW t \in use.timers, SetTimer(kind, t)
        PROVE  /\ parked' \in [Channels -> SUBSET Digits]
               /\ \A c \in Channels :
                    parked[c] \subseteq parked'[c] /\ (OffParked(c) => OffParked(c)')
    <3>1. /\ timer' = [timer EXCEPT ![kind] = t]
          /\ parked' = [c \in Channels |-> IF Kind(c) = kind /\ t = 0
                                           THEN parked[c] \cup Waiting(c) ELSE parked[c]]
      BY <2>2 DEF SetTimer
    <3>2. \A c \in Channels : Waiting(c) \subseteq Digits
      <4> SUFFICES ASSUME NEW c \in Channels PROVE Waiting(c) \subseteq Digits
        OBVIOUS
      <4>1. Buffers[c] \in Seq(Digits) /\ detected[c] \in Digits
        BY <1>1 DEF BufferType
      <4>2. Range(Buffers[c]) \subseteq Digits
        BY <4>1, LenProperties, ElementOfSeq DEF Range
      <4> QED BY <4>1, <4>2 DEF Waiting
    <3>3. \A c \in Channels : parked[c] \subseteq Digits
      BY DEF QueueType
    <3>4. parked' \in [Channels -> SUBSET Digits]
      BY <3>1, <3>2, <3>3
    <3>5. ASSUME NEW c \in Channels, OffParked(c)
          PROVE  OffParked(c)'
      <4>1. Waiting(c)' = Waiting(c) /\ parked[c] \subseteq parked'[c]
        BY <1>2, <3>1 DEF Waiting
      <4>2. TimerOf(c)' = IF Kind(c) = kind THEN t ELSE TimerOf(c)
        BY <1>1, <3>1 DEF TimerOf, Kind, BufferType
      <4>3. TimerOf(c)' = 0 => Waiting(c) \subseteq parked'[c] \cup {Nul}
        <5>1. CASE Kind(c) = kind
          BY <3>1, <4>2, <5>1
        <5>2. CASE Kind(c) # kind
          BY <3>5, <4>1, <4>2, <5>2 DEF OffParked
        <5> QED BY <5>1, <5>2
      <4>4. pc'[c] \in {"reporting", "pushing"} => Range(Buffers'[c]) \subseteq parked'[c] \cup {Nul}
        BY <1>2, <3>5, <4>1 DEF OffParked
      <4> QED BY <4>1, <4>3, <4>4 DEF OffParked
    <3>6. \A c \in Channels : parked[c] \subseteq parked'[c]
      BY <3>1
    <3> QED BY <3>4, <3>5, <3>6
  <2> QED BY <2>1, <2>2 DEF OtherEvent, EndCall, Tick, detector_vars, faults
<1>6. /\ g_events' \in Seq(Events)
      /\ \A n \in DOMAIN g_events : n \in DOMAIN g_events' /\ g_events'[n] = g_events[n]
      /\ DOMAIN g_events' \subseteq Nat
      /\ \A n \in DOMAIN g_events' : n <= k => n \in DOMAIN g_events /\ g_events'[n] = g_events[n]
      /\ \A n \in DOMAIN g_events' : ~(n <= k) => \A c \in Channels : Carried(c, n)' = <<>>
      /\ others' \in 0 .. use.others
      /\ clashed' \in [Channels -> SUBSET Digits]
      /\ \A c \in Channels : clashed[c] \subseteq clashed'[c]
      /\ g_events' = g_events \/ \A c \in Pushing : detected[c] \in clashed'[c]
  <2>1. CASE g_events' = g_events /\ others' = others /\ clashed' = clashed
    <3>1. \A n \in DOMAIN g_events : n \in Nat /\ n <= k
      BY <1>3
    <3> QED BY <2>1, <3>1 DEF QueueType
  <2>2. CASE OtherEvent
    <3>0. PICK e : e = Event("call", <<>>)
      OBVIOUS
    <3>1. g_events' = Append(g_events, e) /\ others < use.others /\ others' = others + 1
      BY <2>2, <3>0 DEF OtherEvent
    <3>2. e \in Events /\ e.chan = "call"
      <4>1. <<>> \in Seq(Digits)
        OBVIOUS
      <4> QED BY <3>0, <4>1 DEF Event, Events
    <3>3. use.others \in Nat /\ others \in 0 .. use.others
      BY <1>1, DigitAssumption DEF BufferType, QueueType
    <3>4. others' \in 0 .. use.others
      BY <3>1, <3>3
    <3>5. /\ g_events' \in Seq(Events) /\ DOMAIN g_events' = 1 .. k + 1
          /\ g_events'[k + 1] = e
          /\ \A n \in 1 .. k : g_events'[n] = g_events[n]
      BY <1>3, <3>1, <3>2, AppendProperties, LenProperties DEF QueueType
    <3>6. PICK S : S = HeldBy(Pushing)
      OBVIOUS
    <3>7. /\ clashed' \in [Channels -> SUBSET Digits]
          /\ \A c \in Channels : clashed'[c] = clashed[c] \cup S[c]
      <4>1. Clash(S) /\ \A c \in Channels : S[c] \subseteq Digits
        BY <1>1, <2>2, <3>6, HandType DEF OtherEvent
      <4> QED BY <4>1, ClashType
    <3>8. \A c \in Pushing : c \in Channels /\ detected[c] \in S[c]
      BY <3>6 DEF HeldBy, InHand, Pushing
    <3>9. \A n \in DOMAIN g_events' : /\ n \in Nat
                                      /\ n <= k => n \in 1 .. k
                                      /\ ~(n <= k) => n = k + 1
      BY <3>5
    <3>10. "call" \notin Channels
      BY DEF Channels
    <3>11. \A n \in DOMAIN g_events' : ~(n <= k) => \A c \in Channels : Carried(c, n)' = <<>>
      BY <3>2, <3>5, <3>9, <3>10 DEF Carried
    <3>12. \A n \in 1 .. k : n \in 1 .. k + 1
      OBVIOUS
    <3>13. \A n \in DOMAIN g_events : n \in DOMAIN g_events' /\ g_events'[n] = g_events[n]
      BY <1>3, <3>5, <3>12
    <3>14. \A c \in Pushing : detected[c] \in clashed'[c]
      BY <3>7, <3>8
    <3>15. \A n \in DOMAIN g_events' :
             n <= k => n \in DOMAIN g_events /\ g_events'[n] = g_events[n]
      BY <1>3, <3>5, <3>9
    <3> QED BY <3>4, <3>5, <3>7, <3>9, <3>11, <3>13, <3>14, <3>15
  <2> QED BY <1>4, <2>1, <2>2
<1>7. QueueType'
  BY <1>2, <1>4, <1>5, <1>6 DEF QueueType
<1>8. Race'
  <2>1. CASE g_events' = g_events
    BY <1>2, <1>6, <2>1, RaceGrows
  <2>2. CASE \A c \in Pushing : detected[c] \in clashed'[c]
    <3>1. Range(<<>>) = {}
      BY DEF Range
    <3>2. \A n \in DOMAIN g_events' : \/ n \in DOMAIN g_events /\ g_events'[n] = g_events[n]
                                      \/ \A d \in Channels : Range(Carried(d, n)') \subseteq clashed'[d]
      BY <1>6, <3>1
    <3> QED BY <1>2, <1>6, <2>2, <3>2, RaceGrows
  <2> QED BY <1>6, <2>1, <2>2
<1>9. ASSUME NEW c \in Channels PROVE ChannelOK(c)'
  <2>1. OffParked(c)'
    BY <1>5 DEF ChannelOK
  <2> QED BY <1>2, <1>5, <1>6, <2>1, OthersEvents
<1> QED BY <1>7, <1>8, <1>9

LEMMA DetectorInvInit == DetectorInit => DetectorInv
<1> SUFFICES ASSUME DetectorInit PROVE DetectorInv
  OBVIOUS
<1>1. Timed
  BY InitTimed
<1>2. /\ use \in Uses /\ has_id = TRUE /\ g_events = <<>> /\ popped = 0 /\ others = 0
      /\ \A c \in Channels : /\ pc[c] = "idle" /\ Buffers[c] = <<>> /\ handed[c] = <<>>
                             /\ detected[c] = 0
      /\ slot \in [Channels -> Nat] /\ dropped \in [Channels -> SUBSET Digits]
      /\ parked \in [Channels -> SUBSET Digits] /\ clashed \in [Channels -> SUBSET Digits]
      /\ handed = [c \in Channels |-> <<>>]
  BY DEF DetectorInit
<1>3. <<>> \in Seq(Digits) /\ <<>> \in Seq(Events) /\ Len(<<>>) = 0 /\ DOMAIN <<>> = {}
  OBVIOUS
<1>4. QueueType
  <2>1. handed \in [Channels -> Seq(Digits)]
    BY <1>2, <1>3
  <2>2. use.others \in Nat
    BY <1>2, DigitAssumption
  <2> QED BY <1>2, <1>3, <2>1, <2>2 DEF QueueType
<1>5. Race
  BY <1>2 DEF Race, Pushing
<1>6. ASSUME NEW c \in Channels PROVE ChannelOK(c)
  <2>1. KeptDetected(c) /\ Queued(c) /\ NulFirst(c)
    BY <1>2, <1>3 DEF KeptDetected, Earlier, Queued, Ascending, Before, NulFirst
  <2>2. Held(c)
    BY <1>2 DEF Held
  <2>3. OffParked(c)
    <3>1. Range(<<>>) = {}
      BY DEF Range
    <3> QED BY <1>2, <3>1 DEF OffParked, Waiting
  <2> QED BY <2>1, <2>2, <2>3 DEF ChannelOK
<1> QED BY <1>1, <1>4, <1>5, <1>6 DEF DetectorInv

LEMMA DetectorInvStep == DetectorInv /\ [DetectorNext]_detector_vars => DetectorInv'
<1> SUFFICES ASSUME DetectorInv, [DetectorNext]_detector_vars PROVE DetectorInv'
  OBVIOUS
<1>1. Timed /\ QueueType /\ Race /\ \A c \in Channels : ChannelOK(c)
  BY DEF DetectorInv
<1>2. Timed'
  BY <1>1, StepTimed
<1>3. QueueType' /\ Race' /\ \A c \in Channels : ChannelOK(c)'
  <2>1. ASSUME NEW c \in Channels, Detect(c) \/ Detector(c)
        PROVE  QueueType' /\ Race' /\ \A d \in Channels : ChannelOK(d)'
    BY <1>1, <2>1, DetectStep, BufferQueued, BeginPushStep, EndPushStep DEF Detector
  <2>2. CASE Check
    BY <1>1, <2>2, CheckStep
  <2>3. CASE Poll
    BY <1>1, <2>3, PollStep
  <2>4. CASE \/ \E kind \in {"dtmf", "bfsk"}, t \in use.timers : SetTimer(kind, t)
             \/ OtherEvent \/ EndCall \/ Tick \/ UNCHANGED detector_vars
    BY <1>1, <2>4, OtherStep
  <2> QED BY <2>1, <2>2, <2>3, <2>4 DEF DetectorNext
<1> QED BY <1>2, <1>3 DEF DetectorInv

(***************************************************************************)
(* The inductive invariant holds, whatever calls are used for.             *)
(***************************************************************************)
THEOREM DetectorInvariance == DetectorSpec => []DetectorInv
<1>1. DetectorInit => DetectorInv
  BY DetectorInvInit
<1>2. DetectorInv /\ [DetectorNext]_detector_vars => DetectorInv'
  BY DetectorInvStep
<1> QED BY <1>1, <1>2, PTL DEF DetectorSpec

(***************************************************************************)
(* Buffers, timestamps and events keep their types, and no buffer holds    *)
(* more than MAXDIGITS + 1 digits (on_dtmf, on_inband_dtmf, on_bfsk_bit).  *)
(***************************************************************************)
THEOREM DetectorTypeCorrect == DetectorSpec => []DetectorTypeOK
<1>1. DetectorInv => DetectorTypeOK
  BY DEF DetectorInv, Timed, BufferType, QueueType, Events, DetectorTypeOK
<1> QED BY <1>1, DetectorInvariance, PTL

(***************************************************************************)
(* Each digit a detector has reported is in its hands, in a buffer, in an  *)
(* event or with the client, unless a full buffer has cost it or its event *)
(* was pushed while another thread pushed one (on_dtmf, on_inband_dtmf,    *)
(* on_bfsk_bit, check_digit_buffer, dispatch_event).                       *)
(***************************************************************************)
THEOREM NothingLostCorrect == DetectorSpec => []NothingLost
<1>1. DetectorInv => NothingLost
  BY DEF DetectorInv, ChannelOK, Held, NothingLost
<1> QED BY <1>1, DetectorInvariance, PTL

(***************************************************************************)
(* The digits of a channel keep the order in which they were detected,     *)
(* from the buffer through the events to the client; but for those that    *)
(* waited for their timer when it was switched off.                        *)
(***************************************************************************)
THEOREM OrderCorrect == DetectorSpec => []InOrder
<1>1. DetectorInv => InOrder
  BY DEF DetectorInv, ChannelOK, InOrder
<1> QED BY <1>1, DetectorInvariance, PTL
=============================================================================
