------------------------- MODULE SubscriptionsProofs -------------------------
(***************************************************************************)
(* For any number of dialogs and any size of the tables: an id leads to    *)
(* memory that is there as long as it has to, a command is answered with   *)
(* its own error, and a NOTIFY goes to a peer that was accepted.           *)
(***************************************************************************)
EXTENDS Subscriptions, SequenceTheorems, TLAPS

\* What keeps a dialog is known from its kind and from the state of its subscription.
Keepers(r) == IF r.way = "in" THEN IF r.sub \in {"over", "left"} THEN 1 ELSE LockAndSession
              ELSE IF r.sub = "over" THEN 0 ELSE 1

Regular(r) == /\ r \in DialogType
              /\ r.sessions = Keepers(r)

DialogsRegular == /\ dialogs \in Seq(DialogType)
                  /\ \A d \in DOMAIN dialogs : Regular(dialogs[d])

\* An id names a dialog of its own direction, and no other id does.
LeadTo(ids, way) == /\ ids \in Seq(DOMAIN dialogs)
                    /\ Len(ids) <= IdsMax
                    /\ \A k \in DOMAIN ids : dialogs[ids[k]].way = way
                    /\ \A j, k \in DOMAIN ids : ids[j] = ids[k] => j = k

TablesLead == LeadTo(g_subscription_ids, "out") /\ LeadTo(g_subscriber_ids, "in")

\* What the client may be told of, and notify.
Fine(id) == LET r == dialogs[g_subscriber_ids[id + 1]]
            IN 200 \in r.answers \/ ~r.pinned \/ id \in misled

Notified(id) == dialogs[g_subscriber_ids[id + 1]].notified

KnownInv == /\ told \subseteq SubscriberIds
            /\ misled \subseteq SubscriberIds
            /\ \A id \in SubscriberIds : id \in told \/ Notified(id) => Fine(id)

\* A command that waits starts without an error, and a callback may give it one.
ErrorsInv == /\ pjw_errorstring \in {"none", "command", "callback"}
             /\ waiting \in BOOLEAN
             /\ meanwhile \in BOOLEAN
             /\ result \in [ok : BOOLEAN, failed : BOOLEAN]
             /\ waiting /\ pjw_errorstring # "none" => meanwhile
             /\ ResultIsOwn

Settings == /\ g_PackageSet \subseteq Events \X Accepts
            /\ packages \subseteq Events
            /\ g_shutting_down \in BOOLEAN

Survived == fault \in {"none", "package", "contact", "subscribe", "shutdown"}

Structure == DialogsRegular /\ TablesLead

IInv == Structure /\ KnownInv /\ ErrorsInv /\ Settings /\ Survived

-----------------------------------------------------------------------------
LEMMA AppendLeads ==
  ASSUME NEW n \in Nat, NEW ids \in Seq(1 .. n)
  PROVE  /\ Append(ids, n + 1) \in Seq(1 .. n + 1)
         /\ ids \in Seq(1 .. n + 1)
         /\ Len(Append(ids, n + 1)) = Len(ids) + 1
         /\ \A k \in DOMAIN Append(ids, n + 1) :
              \/ k \in DOMAIN ids /\ Append(ids, n + 1)[k] = ids[k]
              \/ k = Len(ids) + 1 /\ Append(ids, n + 1)[k] = n + 1
<1>1. ids \in Seq(1 .. n + 1)
  <2>1. Len(ids) \in Nat /\ ids \in [1 .. Len(ids) -> 1 .. n]
    BY LenProperties
  <2>2. \A k \in 1 .. Len(ids) : ids[k] \in 1 .. n + 1
    BY <2>1
  <2> QED BY <2>1, <2>2
<1>2. /\ Append(ids, n + 1) \in Seq(1 .. n + 1)
      /\ Len(Append(ids, n + 1)) = Len(ids) + 1
      /\ \A k \in 1 .. Len(ids) : Append(ids, n + 1)[k] = ids[k]
      /\ Append(ids, n + 1)[Len(ids) + 1] = n + 1
  BY <1>1, AppendProperties
<1>3. /\ DOMAIN ids = 1 .. Len(ids) /\ Len(ids) \in Nat
      /\ DOMAIN Append(ids, n + 1) = 1 .. Len(ids) + 1
  BY <1>1, <1>2, LenProperties
<1> QED BY <1>1, <1>2, <1>3

(***************************************************************************)
(* A dialog more, with or without an id in the table of its direction.     *)
(***************************************************************************)
LEMMA DialogAdded ==
  ASSUME Structure, NEW r, Regular(r), dialogs' = Append(dialogs, r),
         \/ UNCHANGED g_subscription_ids
         \/ /\ r.way = "out" /\ Len(g_subscription_ids) < IdsMax
            /\ g_subscription_ids' = Append(g_subscription_ids, Len(dialogs) + 1),
         \/ UNCHANGED g_subscriber_ids
         \/ /\ r.way = "in" /\ Len(g_subscriber_ids) < IdsMax
            /\ g_subscriber_ids' = Append(g_subscriber_ids, Len(dialogs) + 1)
  PROVE  Structure'
<1> DEFINE n == Len(dialogs)
<1>1. /\ n \in Nat
      /\ DOMAIN dialogs = 1 .. n
      /\ dialogs \in Seq(DialogType)
  BY LenProperties DEF Structure, DialogsRegular
<1>2. r \in DialogType
  BY DEF Regular
<1>3. /\ dialogs' \in Seq(DialogType)
      /\ Len(dialogs') = n + 1
      /\ \A d \in 1 .. n : dialogs'[d] = dialogs[d]
      /\ dialogs'[n + 1] = r
  BY <1>1, <1>2, AppendProperties
<1>4. DOMAIN dialogs' = 1 .. n + 1
  BY <1>3, LenProperties
<1>5. DialogsRegular'
  <2>1. \A d \in DOMAIN dialogs' : Regular(dialogs'[d])
    BY <1>1, <1>3, <1>4 DEF Structure, DialogsRegular
  <2> QED BY <1>3, <2>1 DEF DialogsRegular, Regular, Keepers
<1>6. IdsMax \in Nat
  BY BoundsAssumption
<1>7. ASSUME NEW ids, NEW way, LeadTo(ids, way)
      PROVE  /\ ids \in Seq(1 .. n)
             /\ ids \in Seq(DOMAIN dialogs')
             /\ \A k \in DOMAIN ids : dialogs'[ids[k]].way = way
             /\ r.way = way /\ Len(ids) < IdsMax =>
                  /\ Append(ids, n + 1) \in Seq(DOMAIN dialogs')
                  /\ Len(Append(ids, n + 1)) <= IdsMax
                  /\ \A k \in DOMAIN Append(ids, n + 1) :
                       dialogs'[Append(ids, n + 1)[k]].way = way
                  /\ \A j, k \in DOMAIN Append(ids, n + 1) :
                       Append(ids, n + 1)[j] = Append(ids, n + 1)[k] => j = k
  <2>1. ids \in Seq(1 .. n) /\ \A k \in DOMAIN ids : ids[k] \in 1 .. n /\ dialogs[ids[k]].way = way
    <3>1. ids \in Seq(1 .. n)
      BY <1>1, <1>7 DEF LeadTo
    <3>2. \A k \in DOMAIN ids : ids[k] \in 1 .. n
      BY <3>1, ElementOfSeq, LenProperties
    <3> QED BY <1>7, <3>1, <3>2 DEF LeadTo
  <2>2. \A k \in DOMAIN ids : dialogs'[ids[k]].way = way
    BY <1>3, <2>1
  <2>3. ids \in Seq(DOMAIN dialogs')
    BY <1>1, <1>4, <2>1, AppendLeads
  <2>4. ASSUME r.way = way, Len(ids) < IdsMax
        PROVE  /\ Append(ids, n + 1) \in Seq(DOMAIN dialogs')
               /\ Len(Append(ids, n + 1)) <= IdsMax
               /\ \A k \in DOMAIN Append(ids, n + 1) :
                    dialogs'[Append(ids, n + 1)[k]].way = way
               /\ \A j, k \in DOMAIN Append(ids, n + 1) :
                    Append(ids, n + 1)[j] = Append(ids, n + 1)[k] => j = k
    <3>1. /\ Append(ids, n + 1) \in Seq(DOMAIN dialogs')
          /\ Len(Append(ids, n + 1)) = Len(ids) + 1
          /\ \A k \in DOMAIN Append(ids, n + 1) :
               \/ k \in DOMAIN ids /\ Append(ids, n + 1)[k] = ids[k]
               \/ k = Len(ids) + 1 /\ Append(ids, n + 1)[k] = n + 1
      BY <1>1, <1>4, <2>1, AppendLeads
    <3>2. Len(ids) \in Nat
      BY <2>1, LenProperties
    <3>3. ASSUME NEW j \in DOMAIN Append(ids, n + 1), NEW k \in DOMAIN Append(ids, n + 1),
                 Append(ids, n + 1)[j] = Append(ids, n + 1)[k]
          PROVE  j = k
      <4>1. \A i \in DOMAIN ids : ids[i] # n + 1
        BY <1>1, <2>1
      <4>2. \A i, h \in DOMAIN ids : ids[i] = ids[h] => i = h
        BY <1>7 DEF LeadTo
      <4> QED BY <3>1, <3>3, <4>1, <4>2
    <3>4. \A k \in DOMAIN Append(ids, n + 1) : dialogs'[Append(ids, n + 1)[k]].way = way
      BY <1>3, <2>2, <2>4, <3>1
    <3>5. Len(Append(ids, n + 1)) <= IdsMax
      BY <1>6, <2>4, <3>1, <3>2
    <3> QED BY <3>1, <3>3, <3>4, <3>5
  <2> QED BY <2>1, <2>2, <2>3, <2>4
<1>8. TablesLead'
  <2>1. LeadTo(g_subscription_ids, "out") /\ LeadTo(g_subscriber_ids, "in")
    BY DEF Structure, TablesLead
  <2>4. LeadTo(g_subscription_ids, "out")'
    <3>1. CASE UNCHANGED g_subscription_ids
      <4>1. /\ g_subscription_ids \in Seq(DOMAIN dialogs')
            /\ \A k \in DOMAIN g_subscription_ids : dialogs'[g_subscription_ids[k]].way = "out"
        BY <1>7, <2>1
      <4>2. /\ Len(g_subscription_ids) <= IdsMax
            /\ \A j, k \in DOMAIN g_subscription_ids : g_subscription_ids[j] = g_subscription_ids[k] => j = k
        BY <2>1 DEF LeadTo
      <4> QED BY <3>1, <4>1, <4>2 DEF LeadTo
    <3>2. CASE /\ r.way = "out" /\ Len(g_subscription_ids) < IdsMax
               /\ g_subscription_ids' = Append(g_subscription_ids, n + 1)
      <4>1. /\ g_subscription_ids' \in Seq(DOMAIN dialogs')
            /\ Len(g_subscription_ids') <= IdsMax
            /\ \A k \in DOMAIN g_subscription_ids' : dialogs'[g_subscription_ids'[k]].way = "out"
            /\ \A j, k \in DOMAIN g_subscription_ids' : g_subscription_ids'[j] = g_subscription_ids'[k] => j = k
        BY <1>7, <2>1, <3>2
      <4> QED BY <4>1 DEF LeadTo
    <3> QED BY <3>1, <3>2
  <2>5. LeadTo(g_subscriber_ids, "in")'
    <3>1. CASE UNCHANGED g_subscriber_ids
      <4>1. /\ g_subscriber_ids \in Seq(DOMAIN dialogs')
            /\ \A k \in DOMAIN g_subscriber_ids : dialogs'[g_subscriber_ids[k]].way = "in"
        BY <1>7, <2>1
      <4>2. /\ Len(g_subscriber_ids) <= IdsMax
            /\ \A j, k \in DOMAIN g_subscriber_ids : g_subscriber_ids[j] = g_subscriber_ids[k] => j = k
        BY <2>1 DEF LeadTo
      <4> QED BY <3>1, <4>1, <4>2 DEF LeadTo
    <3>2. CASE /\ r.way = "in" /\ Len(g_subscriber_ids) < IdsMax
               /\ g_subscriber_ids' = Append(g_subscriber_ids, n + 1)
      <4>1. /\ g_subscriber_ids' \in Seq(DOMAIN dialogs')
            /\ Len(g_subscriber_ids') <= IdsMax
            /\ \A k \in DOMAIN g_subscriber_ids' : dialogs'[g_subscriber_ids'[k]].way = "in"
            /\ \A j, k \in DOMAIN g_subscriber_ids' : g_subscriber_ids'[j] = g_subscriber_ids'[k] => j = k
        BY <1>7, <2>1, <3>2
      <4> QED BY <4>1 DEF LeadTo
    <3> QED BY <3>1, <3>2
  <2> QED BY <2>4, <2>5 DEF TablesLead
<1> QED BY <1>5, <1>8 DEF Structure

(***************************************************************************)
(* The dialogs that there are go on, and the tables stay.                  *)
(***************************************************************************)
LEMMA DialogsGoOn ==
  ASSUME Structure, UNCHANGED <<g_subscription_ids, g_subscriber_ids>>,
         DOMAIN dialogs' = DOMAIN dialogs, dialogs' \in Seq(DialogType),
         \A d \in DOMAIN dialogs : /\ Regular(dialogs'[d])
                                   /\ dialogs'[d].way = dialogs[d].way
  PROVE  Structure'
<1>1. DialogsRegular'
  BY DEF DialogsRegular, Regular, Keepers
<1>2. ASSUME NEW ids, NEW way, LeadTo(ids, way)
      PROVE  \A k \in DOMAIN ids : ids[k] \in DOMAIN dialogs /\ dialogs'[ids[k]].way = way
  <2>1. ids \in Seq(DOMAIN dialogs)
    BY <1>2 DEF LeadTo
  <2>2. \A k \in DOMAIN ids : ids[k] \in DOMAIN dialogs
    BY <2>1, ElementOfSeq, LenProperties
  <2> QED BY <1>2, <2>2 DEF LeadTo
<1>3. TablesLead'
  <2>1. LeadTo(g_subscription_ids, "out") /\ LeadTo(g_subscriber_ids, "in")
    BY DEF Structure, TablesLead
  <2>2. LeadTo(g_subscription_ids, "out")'
    BY <1>2, <2>1 DEF LeadTo
  <2>3. LeadTo(g_subscriber_ids, "in")'
    BY <1>2, <2>1 DEF LeadTo
  <2> QED BY <2>2, <2>3 DEF TablesLead
<1> QED BY <1>1, <1>3 DEF Structure

LEMMA NothingChanges ==
  ASSUME Structure, UNCHANGED <<dialogs, g_subscription_ids, g_subscriber_ids>>
  PROVE  Structure'
BY DEF Structure, DialogsRegular, Regular, Keepers, TablesLead, LeadTo

(***************************************************************************)
(* A record takes the place of that of a dialog.                           *)
(***************************************************************************)
LEMMA OneChanges ==
  ASSUME Structure, UNCHANGED <<g_subscription_ids, g_subscriber_ids>>,
         NEW d \in DOMAIN dialogs, NEW new, Regular(new), new.way = dialogs[d].way,
         dialogs' = [dialogs EXCEPT ![d] = new]
  PROVE  /\ Structure'
         /\ \A c \in DOMAIN dialogs : dialogs'[c] = IF c = d THEN new ELSE dialogs[c]
<1>1. /\ dialogs \in Seq(DialogType)
      /\ \A c \in DOMAIN dialogs : Regular(dialogs[c])
  BY DEF Structure, DialogsRegular
<1>2. dialogs' \in Seq(DialogType) /\ DOMAIN dialogs' = DOMAIN dialogs
  BY <1>1, ExceptSeq DEF Regular
<1>3. \A c \in DOMAIN dialogs : dialogs'[c] = IF c = d THEN new ELSE dialogs[c]
  BY <1>1
<1> QED BY <1>1, <1>2, <1>3, DialogsGoOn

\* Nothing but the state of a subscription differs, and whether its dialog is kept.
SameOtherwise == \A c \in DOMAIN dialogs : /\ dialogs'[c].answers = dialogs[c].answers
                                           /\ dialogs'[c].pinned = dialogs[c].pinned
                                           /\ dialogs'[c].notified = dialogs[c].notified

\* The state of a subscription that is not over changes, or one that ends leaves its dialog.
LEMMA SubChanges ==
  ASSUME Structure, UNCHANGED <<g_subscription_ids, g_subscriber_ids>>,
         NEW d \in DOMAIN dialogs, dialogs[d].sub \notin {"over", "left"},
         NEW sub \in {"sent", "accepted", "active", "terminated", "over"},
         \/ sub # "over" /\ dialogs' = [dialogs EXCEPT ![d].sub = sub]
         \/ sub = "over" /\ dialogs' = [dialogs EXCEPT ![d].sessions = @ - 1, ![d].sub = sub]
  PROVE  Structure' /\ SameOtherwise
<1>1. /\ dialogs \in Seq(DialogType)
      /\ \A c \in DOMAIN dialogs : Regular(dialogs[c])
  BY DEF Structure, DialogsRegular
<1>2. dialogs[d] \in DialogType /\ Regular(dialogs[d])
  BY <1>1 DEF Regular
<1> DEFINE new == IF sub = "over" THEN [dialogs[d] EXCEPT !.sessions = @ - 1, !.sub = sub]
                  ELSE [dialogs[d] EXCEPT !.sub = sub]
<1>3. /\ Regular(new) /\ new.way = dialogs[d].way
      /\ new.answers = dialogs[d].answers
      /\ new.pinned = dialogs[d].pinned
      /\ new.notified = dialogs[d].notified
  BY <1>2 DEF Regular, Keepers, DialogType, LockAndSession
<1>4. dialogs' = [dialogs EXCEPT ![d] = new]
  BY <1>1, <1>2
<1> HIDE DEF new
<1>5. /\ Structure'
      /\ \A c \in DOMAIN dialogs : dialogs'[c] = IF c = d THEN new ELSE dialogs[c]
  BY <1>3, <1>4, OneChanges
<1> QED BY <1>3, <1>5 DEF SameOtherwise

\* An id leads to a dialog of its direction.
LEMMA IdLeads ==
  ASSUME Structure
  PROVE  /\ \A id \in SubscriptionIds :
              /\ g_subscription_ids[id + 1] \in DOMAIN dialogs
              /\ dialogs[g_subscription_ids[id + 1]].way = "out"
         /\ \A id \in SubscriberIds :
              /\ g_subscriber_ids[id + 1] \in DOMAIN dialogs
              /\ dialogs[g_subscriber_ids[id + 1]].way = "in"
         /\ \A id, other \in SubscriberIds :
              g_subscriber_ids[id + 1] = g_subscriber_ids[other + 1] => id = other
         /\ Len(g_subscriber_ids) \in Nat
<1>1. ASSUME NEW ids, NEW way, LeadTo(ids, way), NEW id \in 0 .. Len(ids) - 1
      PROVE  /\ ids[id + 1] \in DOMAIN dialogs
             /\ dialogs[ids[id + 1]].way = way
             /\ id + 1 \in DOMAIN ids /\ id \in Int
  <2>1. ids \in Seq(DOMAIN dialogs)
    BY <1>1 DEF LeadTo
  <2>2. Len(ids) \in Nat /\ DOMAIN ids = 1 .. Len(ids)
    BY <2>1, LenProperties
  <2>3. id + 1 \in 1 .. Len(ids)
    BY <2>2
  <2>4. ids[id + 1] \in DOMAIN dialogs
    BY <2>1, <2>3, ElementOfSeq
  <2> QED BY <1>1, <2>2, <2>3, <2>4 DEF LeadTo
<1>2. LeadTo(g_subscription_ids, "out") /\ LeadTo(g_subscriber_ids, "in")
  BY DEF Structure, TablesLead
<1>3. ASSUME NEW id \in SubscriptionIds
      PROVE  /\ g_subscription_ids[id + 1] \in DOMAIN dialogs
             /\ dialogs[g_subscription_ids[id + 1]].way = "out"
  BY <1>1, <1>2 DEF SubscriptionIds
<1>4. ASSUME NEW id \in SubscriberIds
      PROVE  /\ g_subscriber_ids[id + 1] \in DOMAIN dialogs
             /\ dialogs[g_subscriber_ids[id + 1]].way = "in"
             /\ id + 1 \in DOMAIN g_subscriber_ids /\ id \in Int
  BY <1>1, <1>2 DEF SubscriberIds
<1>5. ASSUME NEW id \in SubscriberIds, NEW other \in SubscriberIds,
             g_subscriber_ids[id + 1] = g_subscriber_ids[other + 1]
      PROVE  id = other
  <2>1. id + 1 = other + 1
    BY <1>2, <1>4, <1>5 DEF LeadTo
  <2> QED BY <1>4, <2>1
<1>6. Len(g_subscriber_ids) \in Nat
  <2>1. g_subscriber_ids \in Seq(DOMAIN dialogs)
    BY <1>2 DEF LeadTo
  <2> QED BY <2>1, LenProperties
<1> QED BY <1>3, <1>4, <1>5, <1>6

(***************************************************************************)
(* What the client knows of subscribers, while dialogs keep their answers. *)
(***************************************************************************)
LEMMA KnownGoesOn ==
  ASSUME Structure, KnownInv, UNCHANGED <<g_subscriber_ids, misled>>,
         \A d \in DOMAIN dialogs : /\ dialogs'[d].answers = dialogs[d].answers
                                   /\ dialogs'[d].pinned = dialogs[d].pinned,
         told' \subseteq SubscriberIds,
         \A id \in SubscriberIds : id \in told' \/ Notified(id)' => Fine(id)
  PROVE  KnownInv'
<1>1. SubscriberIds' = SubscriberIds
  BY DEF SubscriberIds
<1>2. ASSUME NEW id \in SubscriberIds PROVE Fine(id)' <=> Fine(id)
  <2>1. g_subscriber_ids[id + 1] \in DOMAIN dialogs
    BY IdLeads
  <2> QED BY <2>1 DEF Fine
<1> QED BY <1>1, <1>2 DEF KnownInv

LEMMA KnownStays ==
  ASSUME Structure, KnownInv, UNCHANGED <<g_subscriber_ids, known>>,
         UNCHANGED dialogs \/ SameOtherwise
  PROVE  KnownInv'
<1>1. ASSUME NEW id \in SubscriberIds PROVE Notified(id)' <=> Notified(id)
  <2>1. g_subscriber_ids[id + 1] \in DOMAIN dialogs
    BY IdLeads
  <2> QED BY <2>1 DEF Notified, SameOtherwise
<1>2. told' \subseteq SubscriberIds
  BY DEF known, KnownInv
<1>3. \A id \in SubscriberIds : id \in told' \/ Notified(id)' => Fine(id)
  BY <1>1 DEF known, KnownInv
<1>4. \A d \in DOMAIN dialogs : /\ dialogs'[d].answers = dialogs[d].answers
                                /\ dialogs'[d].pinned = dialogs[d].pinned
  BY DEF SameOtherwise
<1> QED BY <1>2, <1>3, <1>4, KnownGoesOn DEF known

LEMMA KnownAdded ==
  ASSUME Structure, KnownInv, NEW r, ~r.notified, Regular(r), dialogs' = Append(dialogs, r),
         misled \subseteq misled', misled' \subseteq SubscriberIds,
         \/ UNCHANGED <<g_subscriber_ids, told>>
         \/ /\ g_subscriber_ids' = Append(g_subscriber_ids, Len(dialogs) + 1)
            /\ \/ UNCHANGED told
               \/ /\ told' = told \cup {NewId}
                  /\ 200 \in r.answers \/ ~r.pinned
  PROVE  KnownInv'
<1> DEFINE n == Len(dialogs)
<1>0. PICK l \in Nat : l = Len(g_subscriber_ids)
  BY IdLeads
<1>1. /\ n \in Nat /\ DOMAIN dialogs = 1 .. n
      /\ dialogs \in Seq(DialogType) /\ r \in DialogType
      /\ g_subscriber_ids \in Seq(1 .. n)
  BY LenProperties, IdLeads DEF Structure, DialogsRegular, Regular, TablesLead, LeadTo
<1>2. /\ \A d \in 1 .. n : dialogs'[d] = dialogs[d]
      /\ dialogs'[n + 1] = r
  BY <1>1, AppendProperties
<1>3. SubscriberIds = 0 .. l - 1
  BY <1>0 DEF SubscriberIds
<1>4. ASSUME NEW id \in SubscriberIds, g_subscriber_ids'[id + 1] = g_subscriber_ids[id + 1]
      PROVE  (Fine(id) => Fine(id)') /\ (Notified(id)' <=> Notified(id))
  <2>1. g_subscriber_ids[id + 1] \in 1 .. n
    BY <1>1, IdLeads
  <2> QED BY <1>2, <1>4, <2>1 DEF Fine, Notified
<1>5. CASE UNCHANGED <<g_subscriber_ids, told>>
  <2>1. SubscriberIds' = SubscriberIds
    BY <1>5 DEF SubscriberIds
  <2> QED BY <1>4, <1>5, <2>1 DEF KnownInv
<1>6. CASE /\ g_subscriber_ids' = Append(g_subscriber_ids, n + 1)
           /\ \/ UNCHANGED told
              \/ /\ told' = told \cup {NewId}
                 /\ 200 \in r.answers \/ ~r.pinned
  <2>1. /\ Len(g_subscriber_ids') = l + 1
        /\ \A k \in 1 .. l : g_subscriber_ids'[k] = g_subscriber_ids[k]
        /\ g_subscriber_ids'[l + 1] = n + 1
    BY <1>0, <1>1, <1>6, AppendProperties
  <2>2. SubscriberIds' = 0 .. l
    BY <1>1, <2>1 DEF SubscriberIds
  <2>3. SubscriberIds' = SubscriberIds \cup {l} /\ l \notin SubscriberIds
    BY <1>1, <1>3, <2>2
  <2>4. ASSUME NEW id \in SubscriberIds PROVE g_subscriber_ids'[id + 1] = g_subscriber_ids[id + 1]
    BY <1>1, <1>3, <2>1
  <2>5. ~Notified(l)' /\ (l \in told' => Fine(l)')
    <3>1. dialogs'[g_subscriber_ids'[l + 1]] = r
      BY <1>2, <2>1
    <3>2. l \notin told
      BY <2>3 DEF KnownInv
    <3> QED BY <1>6, <3>1, <3>2 DEF Notified, Fine
  <2>6. \A id \in SubscriberIds' : id \in told' \/ Notified(id)' => Fine(id)'
    <3> SUFFICES ASSUME NEW id \in SubscriberIds', id \in told' \/ Notified(id)' PROVE Fine(id)'
      OBVIOUS
    <3>1. CASE id = l
      BY <2>5, <3>1
    <3>2. CASE id \in SubscriberIds
      <4>1. id \in told' => id \in told
        BY <1>0, <1>6, <2>3, <3>2 DEF NewId
      <4> QED BY <1>4, <2>4, <3>2, <4>1 DEF KnownInv
    <3> QED BY <2>3, <3>1, <3>2
  <2>7. told' \subseteq SubscriberIds' /\ misled' \subseteq SubscriberIds'
    BY <1>0, <1>6, <2>3 DEF KnownInv, NewId
  <2> QED BY <2>6, <2>7 DEF KnownInv
<1> QED BY <1>5, <1>6

-----------------------------------------------------------------------------
(* The error string. *)

LEMMA CommandErrors == ASSUME ErrorsInv, ~waiting, NEW b \in BOOLEAN, Command(b) PROVE ErrorsInv'
BY DEF ErrorsInv, Command, Cleared, ResultIsOwn

LEMMA CallbackErrors ==
  ASSUME ErrorsInv,
         \/ CallbackFails
         \/ pjw_errorstring' = Cleared /\ UNCHANGED <<waiting, result, meanwhile>>
         \/ UNCHANGED errors
  PROVE  ErrorsInv'
BY DEF ErrorsInv, CallbackFails, Cleared, errors, ResultIsOwn

-----------------------------------------------------------------------------
LEMMA InitIInv == Init => IInv
<1> SUFFICES ASSUME Init PROVE IInv
  OBVIOUS
<1>1. IdsMax \in Nat
  BY BoundsAssumption
<1>2. dialogs \in Seq(DialogType) /\ DOMAIN dialogs = {}
  BY DEF Init
<1>3. g_subscription_ids \in Seq({}) /\ g_subscriber_ids \in Seq({})
  BY DEF Init
<1>4. TablesLead
  BY <1>1, <1>2, <1>3 DEF Init, TablesLead, LeadTo
<1>5. KnownInv
  <2>1. Len(g_subscriber_ids) = 0
    BY DEF Init
  <2> QED BY <2>1 DEF Init, KnownInv, SubscriberIds
<1>6. ErrorsInv
  BY DEF Init, ErrorsInv, ResultIsOwn
<1> QED BY <1>2, <1>4, <1>5, <1>6
           DEF Init, IInv, Structure, DialogsRegular, Settings, Survived

\* A fault leaves everything else as it is.
LEMMA FaultIInv ==
  ASSUME IInv, NEW why \in {"package", "contact", "subscribe", "shutdown"}, Fault(why)
  PROVE  IInv'
<1>1. Structure' /\ KnownInv'
  BY NothingChanges, KnownStays DEF IInv, Fault, tables
<1>2. ErrorsInv'
  BY CallbackErrors DEF IInv, Fault
<1> QED BY <1>1, <1>2 DEF IInv, Fault, tables, Settings, Survived

\* Dialogs and ids stay as they are.
LEMMA RestIInv ==
  ASSUME IInv, UNCHANGED <<dialogs, g_subscription_ids, g_subscriber_ids, known, fault>>,
         ErrorsInv', Settings'
  PROVE  IInv'
BY NothingChanges, KnownStays DEF IInv, Survived

LEMMA OtherCommandIInv == ASSUME IInv, KeepingCommand \/ CommandWaits \/ CommandEnds PROVE IInv'
<1>1. UNCHANGED <<tables, dialogs, known, g_shutting_down, fault>>
  BY DEF KeepingCommand, CommandWaits, CommandEnds
<1>2. ErrorsInv'
  <2>1. CASE KeepingCommand
    <3>1. PICK succeeds \in BOOLEAN :
            /\ pjw_errorstring' = IF succeeds THEN pjw_errorstring ELSE "command"
            /\ result' = [ok |-> succeeds, failed |-> ~succeeds]
      BY <2>1 DEF KeepingCommand
    <3>2. ~waiting /\ ~waiting' /\ meanwhile' = FALSE /\ waiting' = waiting
      BY <2>1 DEF KeepingCommand, Idle
    <3>3. CASE succeeds
      BY <3>1, <3>2, <3>3 DEF IInv, ErrorsInv, ResultIsOwn
    <3>4. CASE ~succeeds
      BY <3>1, <3>2, <3>4 DEF IInv, ErrorsInv, ResultIsOwn
    <3> QED BY <3>3, <3>4
  <2>2. CASE CommandWaits
    BY <2>2 DEF IInv, ErrorsInv, CommandWaits, Cleared, ResultIsOwn, Idle
  <2>3. CASE CommandEnds
    <3>1. PICK succeeds \in BOOLEAN :
            /\ pjw_errorstring' = IF succeeds THEN pjw_errorstring ELSE "command"
            /\ result' = [ok |-> pjw_errorstring' = "none", failed |-> ~succeeds]
      BY <2>3 DEF CommandEnds
    <3>2. waiting /\ waiting' = FALSE /\ meanwhile' = meanwhile
      BY <2>3 DEF CommandEnds
    <3>3. CASE succeeds
      <4>1. pjw_errorstring' = pjw_errorstring /\ result'.failed = FALSE
        BY <3>1, <3>3
      <4>2. result'.ok <=> pjw_errorstring = "none"
        BY <3>1, <4>1
      <4>3. result' \in [ok : BOOLEAN, failed : BOOLEAN]
        BY <3>1
      <4> QED BY <3>2, <4>1, <4>2, <4>3 DEF IInv, ErrorsInv, ResultIsOwn
    <3>4. CASE ~succeeds
      <4>1. pjw_errorstring' = "command" /\ result'.failed = TRUE /\ result'.ok = FALSE
        BY <3>1, <3>4
      <4>2. result' \in [ok : BOOLEAN, failed : BOOLEAN]
        BY <3>1
      <4> QED BY <3>2, <4>1, <4>2 DEF IInv, ErrorsInv, ResultIsOwn
    <3> QED BY <3>3, <3>4
  <2> QED BY <2>1, <2>2, <2>3
<1> QED BY <1>1, <1>2, RestIInv DEF tables, IInv, Settings

LEMMA RegisterIInv == ASSUME IInv, RegisterCommand PROVE IInv'
<1>1. PICK event \in Events, accept \in Accepts :
        \/ /\ RegisterPkg(event, accept)
           /\ Command(TRUE)
           /\ UNCHANGED <<g_subscription_ids, g_subscriber_ids, dialogs, known,
                          g_shutting_down, fault>>
        \/ RegisterTwice(event, accept)
  BY DEF RegisterCommand
<1>2. CASE /\ RegisterPkg(event, accept)
           /\ Command(TRUE)
           /\ UNCHANGED <<g_subscription_ids, g_subscriber_ids, dialogs, known,
                          g_shutting_down, fault>>
  <2>1. ErrorsInv'
    BY <1>2, CommandErrors DEF RegisterCommand, Idle, IInv
  <2> QED BY <1>2, <2>1, RestIInv DEF IInv, RegisterPkg, Settings
<1>3. CASE RegisterTwice(event, accept)
  BY <1>3, FaultIInv DEF RegisterTwice
<1> QED BY <1>1, <1>2, <1>3

LEMMA CreateIInv == ASSUME IInv, SubscriptionCreate PROVE IInv'
<1> DEFINE Left == Dialog("out", 1, "left", {}, TRUE)
           New == Dialog("out", 1, "new", {}, TRUE)
<1>1. /\ Regular(Left) /\ ~Left.notified
      /\ Regular(New) /\ ~New.notified /\ New.way = "out"
  BY DEF Regular, Keepers, DialogType, Dialog, LockAndSession
<1> HIDE DEF Left, New
<1>2. CASE Fault("contact")
  BY <1>2, FaultIInv
<1>3. ASSUME NEW event \in Events, NEW accept \in Accepts,
             CreateFails(event, accept), UNCHANGED <<known, g_shutting_down, fault>>
      PROVE  IInv'
  <2>1. Structure' /\ KnownInv'
    <3>1. CASE UNCHANGED <<g_PackageSet, packages, dialogs>>
      BY <1>3, <3>1, NothingChanges, KnownStays DEF CreateFails, IInv
    <3>2. CASE dialogs' = Append(dialogs, Left)
      <4>1. Structure'
        BY <1>1, <1>3, <3>2, DialogAdded DEF CreateFails, IInv
      <4>2. misled' = misled /\ misled \subseteq SubscriberIds
        BY <1>3 DEF known, IInv, KnownInv
      <4>3. KnownInv'
        BY <1>1, <1>3, <3>2, <4>2, KnownAdded DEF CreateFails, IInv, known
      <4> QED BY <4>1, <4>3
    <3> QED BY <1>3, <3>1, <3>2 DEF CreateFails, Left
  <2>2. g_PackageSet' \subseteq Events \X Accepts /\ packages' \subseteq Events
    <3>1. UNCHANGED <<g_PackageSet, packages>> \/ RegisterPkg(event, accept)
      BY <1>3 DEF CreateFails
    <3> QED BY <3>1 DEF RegisterPkg, IInv, Settings
  <2>3. ErrorsInv'
    BY <1>3, CommandErrors DEF SubscriptionCreate, CreateFails, Idle, IInv
  <2> QED BY <1>3, <2>1, <2>2, <2>3 DEF IInv, Settings, Survived
<1>4. ASSUME NEW event \in Events, NEW accept \in Accepts,
             RegisterPkg(event, accept),
             Len(g_subscription_ids) < IdsMax,
             dialogs' = Append(dialogs, New),
             g_subscription_ids' = Append(g_subscription_ids, Len(dialogs) + 1),
             Command(TRUE),
             UNCHANGED <<g_subscriber_ids, known, g_shutting_down, fault>>
      PROVE  IInv'
  <2>1. Structure'
    BY <1>1, <1>4, DialogAdded DEF IInv
  <2>2. misled' = misled /\ misled \subseteq SubscriberIds
    BY <1>4 DEF known, IInv, KnownInv
  <2>3. KnownInv'
    BY <1>1, <1>4, <2>2, KnownAdded DEF IInv, known
  <2>4. g_PackageSet' \subseteq Events \X Accepts /\ packages' \subseteq Events
    BY <1>4 DEF RegisterPkg, IInv, Settings
  <2>5. ErrorsInv'
    BY <1>4, CommandErrors DEF SubscriptionCreate, Idle, IInv
  <2> QED BY <1>4, <2>1, <2>3, <2>4, <2>5 DEF IInv, Settings, Survived
<1>5. ASSUME NEW event \in Events, NEW accept \in Accepts, RegisterTwice(event, accept)
      PROVE  IInv'
  BY <1>5, FaultIInv DEF RegisterTwice
<1> QED BY <1>2, <1>3, <1>4, <1>5 DEF SubscriptionCreate, New

LEMMA SubscribeIInv ==
  ASSUME IInv, NEW id \in SubscriptionIds, SubscriptionSubscribe(id)
  PROVE  IInv'
<1> DEFINE d == g_subscription_ids[id + 1]
<1>1. d \in DOMAIN dialogs
  BY IdLeads DEF IInv
<1>2. CASE Fault("subscribe")
  BY <1>2, FaultIInv
<1>3. CASE Command(FALSE) /\ UNCHANGED <<dialogs, tables, known, g_shutting_down, fault>>
  <2>1. ErrorsInv'
    BY <1>3, CommandErrors DEF SubscriptionSubscribe, Idle, IInv
  <2> QED BY <1>3, <2>1, RestIInv DEF IInv, tables, Settings
<1>4. CASE /\ Command(TRUE)
           /\ dialogs' = [dialogs EXCEPT ![d].sub = IF @ = "new" THEN "sent" ELSE @]
           /\ UNCHANGED <<tables, known, g_shutting_down, fault>>
  <2>1. Structure' /\ KnownInv'
    <3>1. CASE dialogs[d].sub = "new"
      <4>1. dialogs' = [dialogs EXCEPT ![d].sub = "sent"]
        BY <1>4, <3>1
      <4>2. Structure' /\ SameOtherwise
        BY <1>1, <1>4, <3>1, <4>1, SubChanges DEF IInv, tables
      <4> QED BY <1>4, <4>2, KnownStays DEF IInv, tables
    <3>2. CASE dialogs[d].sub # "new"
      <4>1. dialogs \in Seq(DialogType) /\ dialogs[d] \in DialogType
        BY <1>1 DEF IInv, Structure, DialogsRegular, Regular
      <4>2. dialogs' = [dialogs EXCEPT ![d] = dialogs[d]]
        <5>1. [dialogs[d] EXCEPT !.sub = dialogs[d].sub] = dialogs[d]
          BY <4>1 DEF DialogType
        <5>2. dialogs' = [dialogs EXCEPT ![d] = [dialogs[d] EXCEPT !.sub = dialogs[d].sub]]
          BY <1>4, <3>2
        <5> QED BY <5>1, <5>2
      <4>3. UNCHANGED dialogs
        BY <4>1, <4>2
      <4> QED BY <1>4, <4>3, NothingChanges, KnownStays DEF IInv, tables
    <3> QED BY <3>1, <3>2
  <2>2. ErrorsInv'
    BY <1>4, CommandErrors DEF SubscriptionSubscribe, Idle, IInv
  <2> QED BY <1>4, <2>1, <2>2 DEF IInv, tables, Settings, Survived
<1> QED BY <1>2, <1>3, <1>4 DEF SubscriptionSubscribe

Answers == SUBSET {200, 500}

LEMMA DialogIn ==
  ASSUME NEW sessions, NEW sub, NEW answers \in Answers, NEW pinned \in BOOLEAN,
         \/ sessions = LockAndSession /\ sub \in {"pending", "active"}
         \/ sessions = LockAndSession - 1 /\ sub = "left",
         Arrives(sessions, sub, answers, pinned)
  PROVE  \E r : /\ Regular(r) /\ r.way = "in" /\ ~r.notified
                /\ r.answers = answers /\ r.pinned = pinned
                /\ dialogs' = Append(dialogs, r)
<1> DEFINE r == Dialog("in", sessions, sub, answers, pinned)
<1>1. /\ Regular(r) /\ r.way = "in" /\ ~r.notified
      /\ r.answers = answers /\ r.pinned = pinned
  BY DEF Regular, Keepers, DialogType, Dialog, LockAndSession, Answers
<1>2. dialogs' = Append(dialogs, r)
  BY DEF Arrives
<1> HIDE DEF r
<1> QED BY <1>1, <1>2

\* The client is told of an id only for a SUBSCRIBE that was accepted or not pinned.
LEMMA RxSubscribeIInv == ASSUME IInv, RxSubscribe PROVE IInv'
<1>1. {} \in Answers
  BY DEF Answers
<1>2. UNCHANGED g_subscription_ids
  BY DEF RxSubscribe
<1>3. \E r : /\ Regular(r) /\ r.way = "in" /\ ~r.notified
             /\ dialogs' = Append(dialogs, r)
             /\ \/ UNCHANGED <<g_subscriber_ids, told>>
                \/ /\ TakesId
                   /\ \/ UNCHANGED told
                      \/ /\ told' = told \cup {NewId}
                         /\ 200 \in r.answers \/ ~r.pinned
  <2>1. CASE NoSession
    <3>1. PICK answers \in Refusals : Arrives(LockAndSession - 1, "left", answers, FALSE)
      BY <2>1 DEF NoSession
    <3>2. answers \in Answers
      BY DEF Refusals, Answers
    <3>3. PICK r : Regular(r) /\ r.way = "in" /\ ~r.notified /\ dialogs' = Append(dialogs, r)
      BY <3>1, <3>2, DialogIn
    <3> QED BY <2>1, <3>3 DEF NoSession, known
  <2>2. CASE NoId
    <3>1. PICK r : Regular(r) /\ r.way = "in" /\ ~r.notified /\ dialogs' = Append(dialogs, r)
      BY <2>2, <1>1, DialogIn DEF NoId
    <3> QED BY <2>2, <3>1 DEF NoId
  <2>3. CASE NotPinned
    <3>1. PICK r : /\ Regular(r) /\ r.way = "in" /\ ~r.notified /\ ~r.pinned
                   /\ dialogs' = Append(dialogs, r)
      BY <2>3, <1>1, DialogIn DEF NotPinned
    <3> QED BY <2>3, <3>1 DEF NotPinned, Tells
  <2>4. CASE NotAccepted
    <3>1. PICK answers \in Refusals : Arrives(LockAndSession, "pending", answers, TRUE)
      BY <2>4 DEF NotAccepted
    <3>2. answers \in Answers
      BY DEF Refusals, Answers
    <3>3. PICK r : Regular(r) /\ r.way = "in" /\ ~r.notified /\ dialogs' = Append(dialogs, r)
      BY <3>1, <3>2, DialogIn
    <3> QED BY <2>4, <3>3 DEF NotAccepted, known
  <2>5. CASE NotNotified
    <3>1. PICK answers \in Refusals : Arrives(LockAndSession, "pending", {200} \cup answers, TRUE)
      BY <2>5 DEF NotNotified
    <3>2. PICK all \in Answers : all = {200} \cup answers
      <4>1. answers = {} \/ answers = {500}
        BY DEF Refusals
      <4>2. {200} \cup answers \in Answers
        BY <4>1 DEF Answers
      <4> QED BY <4>2
    <3>3. PICK r : Regular(r) /\ r.way = "in" /\ ~r.notified /\ dialogs' = Append(dialogs, r)
      BY <3>1, <3>2, DialogIn
    <3> QED BY <2>5, <3>3 DEF NotNotified, known
  <2>6. CASE Accepted
    <3>1. PICK answers \in Answers : answers = {200}
      BY DEF Answers
    <3>2. Arrives(LockAndSession, "active", answers, TRUE)
      BY <2>6, <3>1 DEF Accepted
    <3>3. PICK r : /\ Regular(r) /\ r.way = "in" /\ ~r.notified /\ r.answers = answers
                   /\ dialogs' = Append(dialogs, r)
      BY <3>2, DialogIn
    <3> QED BY <2>6, <3>1, <3>3 DEF Accepted, Tells
  <2> QED BY <2>1, <2>2, <2>3, <2>4, <2>5, <2>6 DEF RxSubscribe
<1>4. /\ misled \subseteq misled' /\ misled' \subseteq SubscriberIds
      /\ CallbackFails \/ UNCHANGED errors
  BY DEF RxSubscribe, NoSession, NoId, NotPinned, NotAccepted, NotNotified, Accepted, Tells, known,
         IInv, KnownInv
<1>5. Structure'
  BY <1>2, <1>3, DialogAdded DEF TakesId, IInv
<1>6. KnownInv'
  BY <1>3, <1>4, KnownAdded DEF TakesId, IInv
<1>7. ErrorsInv'
  BY <1>4, CallbackErrors DEF IInv
<1>8. UNCHANGED <<g_PackageSet, packages, g_shutting_down, fault>>
  BY DEF RxSubscribe
<1> QED BY <1>5, <1>6, <1>7, <1>8 DEF IInv, Settings, Survived

\* What the client learns from a peer that subscribes again.
LEMMA RxRefreshIInv == ASSUME IInv, NEW d \in DOMAIN dialogs, RxRefresh(d) PROVE IInv'
<1>1. \E sub \in {"active", "terminated"} : dialogs' = [dialogs EXCEPT ![d].sub = sub]
  BY DEF RxRefresh, Becomes
<1>2. /\ dialogs[d].sub \notin {"over", "left"}
      /\ 200 \in dialogs[d].answers \/ dialogs[d].notified
      /\ told' = told \cup IdsOf(d) /\ UNCHANGED misled
      /\ UNCHANGED <<tables, g_shutting_down, fault>>
  BY DEF RxRefresh, Served, Tells
<1>3. Structure' /\ SameOtherwise
  BY <1>1, <1>2, SubChanges DEF IInv, tables
<1>4. ASSUME NEW id \in SubscriberIds, id \in told' \/ Notified(id)' PROVE Fine(id)
  <2>1. g_subscriber_ids[id + 1] \in DOMAIN dialogs
    BY IdLeads DEF IInv
  <2>2. Notified(id)' <=> Notified(id)
    BY <1>2, <1>3, <2>1 DEF Notified, SameOtherwise, tables
  <2>3. id \in IdsOf(d) => Fine(id)
    BY <1>2 DEF IdsOf, IInv, KnownInv, Fine, Notified
  <2> QED BY <1>2, <1>4, <2>2, <2>3 DEF IInv, KnownInv
<1>5. told' \subseteq SubscriberIds
  BY <1>2 DEF IdsOf, IInv, KnownInv
<1>6. KnownInv'
  BY <1>2, <1>3, <1>4, <1>5, KnownGoesOn DEF IInv, tables, SameOtherwise
<1>7. ErrorsInv'
  BY CallbackErrors DEF IInv, RxRefresh
<1> QED BY <1>2, <1>3, <1>6, <1>7 DEF IInv, tables, Settings, Survived

\* The peer and the clock, and the end of a dialog.
LEMMA DialogIInv ==
  ASSUME IInv, NEW d \in DOMAIN dialogs, Peer(d) \/ OnClientRefresh(d) \/ DialogEnds(d)
  PROVE  IInv'
<1>1. CASE RxAccepted(d) \/ RxNotify(d) \/ RxRefused(d)
  <2>1. \E sub \in {"accepted", "active", "terminated"} :
           dialogs' = [dialogs EXCEPT ![d].sub = sub]
    BY <1>1 DEF RxAccepted, RxNotify, RxRefused, Becomes
  <2>2. /\ dialogs[d].sub \notin {"over", "left"}
        /\ UNCHANGED <<tables, known, errors, g_shutting_down, fault>>
    BY <1>1 DEF RxAccepted, RxNotify, RxRefused, Subscribed
  <2>3. Structure' /\ SameOtherwise
    BY <2>1, <2>2, SubChanges DEF IInv, tables
  <2>4. KnownInv' /\ ErrorsInv'
    BY <2>2, <2>3, KnownStays, CallbackErrors DEF IInv, tables
  <2> QED BY <2>2, <2>3, <2>4 DEF IInv, tables, Settings, Survived
<1>2. CASE RxRefresh(d)
  BY <1>2, RxRefreshIInv
<1>3. CASE OnClientRefresh(d)
  <2>1. ErrorsInv'
    BY <1>3, CallbackErrors DEF OnClientRefresh, IInv
  <2> QED BY <1>3, <2>1, RestIInv DEF OnClientRefresh, IInv, tables, Settings
<1>4. CASE DialogEnds(d)
  <2>1. Structure' /\ SameOtherwise
    BY <1>4, SubChanges DEF DialogEnds, IInv, tables
  <2>2. KnownInv' /\ ErrorsInv'
    BY <1>4, <2>1, KnownStays, CallbackErrors DEF DialogEnds, IInv, tables
  <2> QED BY <1>4, <2>1, <2>2 DEF DialogEnds, IInv, tables, Settings, Survived
<1> QED BY <1>1, <1>2, <1>3, <1>4 DEF Peer

\* The memory of a subscriber is there whenever the client is told of it: the Fault of
\* pjw_notify() cannot come about.
LEMMA NotifyIInv == ASSUME IInv, NEW id \in SubscriberIds, Notify(id) PROVE IInv'
<1> DEFINE d == g_subscriber_ids[id + 1]
<1>1. d \in DOMAIN dialogs /\ dialogs[d].way = "in"
  BY IdLeads DEF IInv
<1>2. ~Gone(d)
  BY <1>1 DEF IInv, Structure, DialogsRegular, Regular, Keepers, LockAndSession, Gone
<1>3. UNCHANGED <<tables, known, g_shutting_down, fault>>
  BY <1>2 DEF Notify
<1>4. ErrorsInv'
  BY <1>2, CommandErrors DEF Notify, Idle, IInv
<1>5. CASE UNCHANGED dialogs
  BY <1>3, <1>4, <1>5, RestIInv DEF IInv, tables, Settings
<1>6. ASSUME NEW sub \in IF Served(d) THEN {"active", "terminated"} ELSE {dialogs[d].sub},
             dialogs' = [dialogs EXCEPT ![d].sub = sub, ![d].notified = TRUE]
      PROVE  IInv'
  <2>1. Regular(dialogs[d]) /\ dialogs[d] \in DialogType
    BY <1>1 DEF IInv, Structure, DialogsRegular, Regular
  <2> DEFINE new == [dialogs[d] EXCEPT !.sub = sub, !.notified = TRUE]
  <2>2. /\ Regular(new) /\ new.way = dialogs[d].way
        /\ new.answers = dialogs[d].answers /\ new.pinned = dialogs[d].pinned
    BY <1>1, <1>6, <2>1 DEF Regular, Keepers, DialogType, Served
  <2>3. dialogs' = [dialogs EXCEPT ![d] = new]
    BY <1>1, <1>6, <2>1 DEF DialogType
  <2> HIDE DEF new
  <2>4. /\ Structure'
        /\ \A c \in DOMAIN dialogs : dialogs'[c] = IF c = d THEN new ELSE dialogs[c]
    BY <1>1, <1>3, <2>2, <2>3, OneChanges DEF IInv, tables
  <2>5. Fine(id)
    BY DEF Notify, IInv, KnownInv, Fine
  <2>6. ASSUME NEW other \in SubscriberIds, other \in told' \/ Notified(other)'
        PROVE  Fine(other)
    <3>1. CASE other = id
      BY <2>5, <3>1
    <3>2. CASE other # id
      <4>1. g_subscriber_ids[other + 1] \in DOMAIN dialogs \ {d}
        BY <3>2, IdLeads DEF IInv
      <4>2. Notified(other)' <=> Notified(other)
        BY <1>3, <2>4, <4>1 DEF Notified, tables
      <4> QED BY <1>3, <2>6, <4>2 DEF IInv, KnownInv, known
    <3> QED BY <3>1, <3>2
  <2>7. told' \subseteq SubscriberIds
    BY <1>3 DEF known, IInv, KnownInv
  <2>8. \A c \in DOMAIN dialogs : /\ dialogs'[c].answers = dialogs[c].answers
                                  /\ dialogs'[c].pinned = dialogs[c].pinned
    BY <2>2, <2>4
  <2>9. KnownInv'
    BY <1>3, <2>6, <2>7, <2>8, KnownGoesOn DEF IInv, tables, known
  <2> QED BY <1>3, <1>4, <2>4, <2>9 DEF IInv, tables, Settings, Survived
<1> QED BY <1>2, <1>5, <1>6 DEF Notify

LEMMA ShutdownIInv == ASSUME IInv, Shutdown PROVE IInv'
<1>1. CASE Fault("shutdown")
  BY <1>1, FaultIInv
<1>2. CASE /\ g_shutting_down' = TRUE
           /\ dialogs' = [d \in DOMAIN dialogs |->
                            IF dialogs[d].way = "out" /\ dialogs[d].sub = "new"
                            THEN [dialogs[d] EXCEPT !.sub = "sent"] ELSE dialogs[d]]
           /\ UNCHANGED <<tables, known, errors, fault>>
  <2>1. dialogs \in Seq(DialogType) /\ \A d \in DOMAIN dialogs : Regular(dialogs[d])
    BY DEF IInv, Structure, DialogsRegular
  <2>2. ASSUME NEW d \in DOMAIN dialogs
        PROVE  /\ Regular(dialogs'[d])
               /\ dialogs'[d].way = dialogs[d].way
               /\ dialogs'[d].answers = dialogs[d].answers
               /\ dialogs'[d].pinned = dialogs[d].pinned
               /\ dialogs'[d].notified = dialogs[d].notified
    <3>1. dialogs[d] \in DialogType /\ Regular(dialogs[d])
      BY <2>1 DEF Regular
    <3>2. CASE dialogs[d].way = "out" /\ dialogs[d].sub = "new"
      <4>1. dialogs'[d] = [dialogs[d] EXCEPT !.sub = "sent"]
        BY <1>2, <3>2
      <4> QED BY <3>1, <3>2, <4>1 DEF Regular, Keepers, DialogType
    <3>3. CASE ~(dialogs[d].way = "out" /\ dialogs[d].sub = "new")
      BY <1>2, <3>1, <3>3
    <3> QED BY <3>2, <3>3
  <2>3. DOMAIN dialogs' = DOMAIN dialogs
    BY <1>2
  <2>4. dialogs' \in Seq(DialogType)
    <3>1. Len(dialogs) \in Nat /\ DOMAIN dialogs = 1 .. Len(dialogs)
      BY <2>1, LenProperties
    <3>2. dialogs' \in [1 .. Len(dialogs) -> DialogType]
      BY <1>2, <2>2, <3>1 DEF Regular
    <3> QED BY <3>1, <3>2
  <2>5. Structure'
    BY <1>2, <2>2, <2>3, <2>4, DialogsGoOn DEF IInv, tables
  <2>6. KnownInv' /\ ErrorsInv'
    BY <1>2, <2>2, KnownStays, CallbackErrors DEF IInv, tables, SameOtherwise
  <2> QED BY <1>2, <2>5, <2>6 DEF IInv, tables, Settings, Survived
<1> QED BY <1>1, <1>2 DEF Shutdown

LEMMA NextIInv == ASSUME IInv, [Next]_vars PROVE IInv'
<1>1. CASE UNCHANGED vars
  <2>1. ErrorsInv' /\ Settings'
    BY <1>1, CallbackErrors DEF vars, tables, IInv, Settings
  <2> QED BY <1>1, <2>1, RestIInv DEF vars, tables
<1>2. CASE Next
  BY <1>2, RegisterIInv, CreateIInv, SubscribeIInv, OtherCommandIInv, RxSubscribeIInv, NotifyIInv,
     DialogIInv, ShutdownIInv DEF Next
<1> QED BY <1>1, <1>2

LEMMA Inductive == Spec => []IInv
BY InitIInv, NextIInv, PTL DEF Spec

-----------------------------------------------------------------------------
(***************************************************************************)
(* Everything has its type (the tables, the dialogs and the error string). *)
(***************************************************************************)
THEOREM TypeCorrect == Spec => []TypeOK
<1>1. IInv => TypeOK
  BY DEF IInv, Structure, DialogsRegular, TablesLead, LeadTo, KnownInv, ErrorsInv, Settings,
         Survived, TypeOK
<1> QED BY <1>1, Inductive, PTL

(***************************************************************************)
(* pjw_notify() never reads memory that is gone, and an id of              *)
(* pjw_subscription_subscribe() leads to what is there until the           *)
(* subscription is over.                                                   *)
(***************************************************************************)
THEOREM HandlesCorrect == Spec => []HandlesLead
<1>1. ASSUME IInv PROVE HandlesLead
  <2>1. fault # "notify"
    BY <1>1 DEF IInv, Survived
  <2>2. ASSUME NEW id \in SubscriberIds PROVE ~Gone(g_subscriber_ids[id + 1])
    <3>1. /\ g_subscriber_ids[id + 1] \in DOMAIN dialogs
          /\ dialogs[g_subscriber_ids[id + 1]].way = "in"
      BY <1>1, IdLeads DEF IInv
    <3> QED BY <1>1, <3>1
               DEF IInv, Structure, DialogsRegular, Regular, Keepers, LockAndSession, Gone
  <2>3. ASSUME NEW id \in SubscriptionIds
        PROVE  LET d == g_subscription_ids[id + 1]
               IN dialogs[d].way = "out" /\ (Gone(d) => dialogs[d].sub = "over")
    <3>1. /\ g_subscription_ids[id + 1] \in DOMAIN dialogs
          /\ dialogs[g_subscription_ids[id + 1]].way = "out"
      BY <1>1, IdLeads DEF IInv
    <3> QED BY <1>1, <3>1 DEF IInv, Structure, DialogsRegular, Regular, Keepers, Gone
  <2> QED BY <2>1, <2>2, <2>3 DEF HandlesLead
<1> QED BY <1>1, Inductive, PTL

(***************************************************************************)
(* Whatever callbacks run before a command, between its steps and after    *)
(* it: it is answered with an error if it failed, and only then, or if a   *)
(* callback failed while it waited.                                        *)
(***************************************************************************)
THEOREM ResultsCorrect == Spec => []ResultIsOwn
BY Inductive, PTL DEF IInv, ErrorsInv

(***************************************************************************)
(* For any number of peers that subscribe: the client's NOTIFY goes to one *)
(* that had 200, apart from the two cases of NotifiesAccepted in which     *)
(* process_subscribe_request tells the client of a failure as a success.   *)
(***************************************************************************)
THEOREM NotifiesCorrect == Spec => []NotifiesAccepted
<1>1. IInv => NotifiesAccepted
  BY DEF IInv, KnownInv, Notified, Fine, NotifiesAccepted
<1> QED BY <1>1, Inductive, PTL
=============================================================================
