------------------------- MODULE PushNotifications ---------------------------
(* Push notifications: the server tells every address it has stored of a new  *)
(* pending Question and of its end (pushNotifier.ts, pushStore.ts).  A browser*)
(* has one subscription that all its tabs share (pushNotifications.ts,        *)
(* NotificationSubscriptionControl.svelte); its service worker shows and      *)
(* closes the notifications (sw.js).  A phone has a token of the FCM service  *)
(* (fcmSender.ts).  Sends run side by side and one that fails concerns no     *)
(* other; the services say of an address that has ended that it is gone.      *)
(* Addresses are numbers, each given out once by the services.                *)
EXTENDS Naturals, FiniteSets

CONSTANTS
  Tabs, PushQuestions,
  MaxAddresses, MaxPushFaults      \* bounds of the checked instances

ASSUME PushAssumption == MaxAddresses \in Nat /\ MaxPushFaults \in Nat

VARIABLES
  addresses,   \* push_subscriptions and push_fcm_tokens
  live,        \* the address each device has now, 0 without one
  given,       \* addresses given out
  tab,         \* each tab of the browser: what it is doing, with which address
  control,     \* what the control of the tab says
  tokenUploads, \* tokens the phone is registering
  asked,       \* each Question: "none", "pending", "resolved", or "withdrawn" by its agent
  pushes,      \* messages on their way to an address
  onDevice,    \* the notifications on each device
  fcmAccount,  \* the service account file: "unread", "read" or "unusable"
  abandoned,   \* history: <<device, address>> a tab left before it had saved it, or whose
               \* registration failed, or that the service disowned
  excused,     \* history: <<device, Question>> whose dismissal was lost, had no address
               \* or came too early
  pushFaults

deviceState == <<live, given, tab, control, tokenUploads, abandoned>>
messageState == <<asked, pushes, onDevice, excused>>
pushVars == <<addresses, live, given, tab, control, tokenUploads, asked, pushes, onDevice, fcmAccount,
              abandoned, excused, pushFaults>>

Devices == {"browser", "phone"}
Idle == [stage |-> "idle", address |-> 0]
Messages == [kind : {"created", "resolved"}, question : PushQuestions, device : Devices, to : Nat]

PushTypeOk ==
  /\ addresses \subseteq (Devices \X Nat)
  /\ live \in [Devices -> Nat] /\ given \in Nat
  /\ tab \in [Tabs -> [stage : {"idle", "saving", "saved", "rollback", "deleting"}, address : Nat]]
  /\ control \in [Tabs -> {"checking", "unavailable", "subscribed", "unsubscribed"}]
  /\ tokenUploads \subseteq Nat
  /\ asked \in [PushQuestions -> {"none", "pending", "resolved", "withdrawn"}]
  /\ pushes \subseteq Messages
  /\ onDevice \in [Devices -> SUBSET PushQuestions]
  /\ fcmAccount \in {"unread", "read", "unusable"}
  /\ abandoned \subseteq (Devices \X Nat) /\ excused \subseteq (Devices \X PushQuestions) /\ pushFaults \in Nat

PushInit ==
  /\ addresses = {} /\ live = [d \in Devices |-> 0] /\ given = 0
  /\ tab = [t \in Tabs |-> Idle] /\ control = [t \in Tabs |-> "checking"]
  /\ tokenUploads = {} /\ asked = [q \in PushQuestions |-> "none"] /\ pushes = {}
  /\ onDevice = [d \in Devices |-> {}] /\ fcmAccount = "unread" /\ excused = {} /\ abandoned = {}
  /\ pushFaults = 0

\* The device has an address that its owner left, or the service disowned.
Unserved(d) == <<d, live[d]>> \in abandoned
Fault == pushFaults < MaxPushFaults /\ pushFaults' = pushFaults + 1

-----------------------------------------------------------------------------
(* The control of a tab.                                                     *)

\* refreshNotificationState asks the server for its keys and the browser, not
\* the server, for the subscription.
RefreshControl(t) ==
  /\ tab[t] = Idle
  /\ control' = [control EXCEPT ![t] = IF live["browser"] # 0 THEN "subscribed" ELSE "unsubscribed"]
  /\ control' # control
  /\ UNCHANGED <<addresses, live, given, tab, messageState, fcmAccount, pushFaults, abandoned, tokenUploads>>
RefreshFails(t) ==
  /\ tab[t] = Idle /\ Fault /\ control' = [control EXCEPT ![t] = "unavailable"]
  /\ UNCHANGED <<addresses, live, given, tab, messageState, fcmAccount, abandoned, tokenUploads>>

\* enableNotifications: the browser hands out its subscription, or a new one,
\* and the tab saves it.
Enable(t) ==
  /\ tab[t] = Idle /\ control[t] = "unsubscribed"
  /\ \/ live["browser"] # 0 /\ UNCHANGED <<live, given>>
     \/ /\ live["browser"] = 0 /\ given < MaxAddresses
        /\ given' = given + 1 /\ live' = [live EXCEPT !["browser"] = given']
  /\ tab' = [tab EXCEPT ![t] = [stage |-> "saving", address |-> live'["browser"]]]
  /\ UNCHANGED <<addresses, control, messageState, fcmAccount, pushFaults, abandoned, tokenUploads>>
\* POST /api/push/subscriptions.
Save(t) ==
  /\ tab[t].stage = "saving"
  /\ addresses' = addresses \cup {<<"browser", tab[t].address>>}
  /\ abandoned' = abandoned \ {<<"browser", tab[t].address>>}
  /\ tab' = [tab EXCEPT ![t].stage = "saved"]
  /\ UNCHANGED <<live, given, control, messageState, fcmAccount, pushFaults, tokenUploads>>
SaveReturns(t) ==
  /\ tab[t].stage = "saved"
  /\ tab' = [tab EXCEPT ![t] = Idle] /\ control' = [control EXCEPT ![t] = "subscribed"]
  /\ UNCHANGED <<addresses, live, given, messageState, fcmAccount, pushFaults, abandoned, tokenUploads>>
\* The save, or its answer, is lost.
SaveFails(t) ==
  /\ tab[t].stage \in {"saving", "saved"} /\ Fault
  /\ tab' = [tab EXCEPT ![t].stage = "rollback"]
  /\ UNCHANGED <<addresses, live, given, control, messageState, fcmAccount, abandoned, tokenUploads>>

\* The subscription the browser has by now ends, another tab's too; what it
\* shows stays.
Unsubscribed ==
  /\ live' = [live EXCEPT !["browser"] = 0]
  /\ excused' = excused \cup ({"browser"} \X onDevice["browser"])
\* savePushSubscriptionWithBrowserRollback.
RollBack(t) ==
  /\ tab[t].stage = "rollback" /\ Unsubscribed
  /\ tab' = [tab EXCEPT ![t] = Idle] /\ control' = [control EXCEPT ![t] = "unavailable"]
  /\ UNCHANGED <<addresses, given, asked, pushes, onDevice, fcmAccount, pushFaults, abandoned, tokenUploads>>
\* A tab closes, or cannot roll back.
TabEnds(t) ==
  /\ tab[t].stage # "idle" /\ Fault
  /\ abandoned' = abandoned \cup ({<<"browser", tab[t].address>>} \ addresses)
  /\ tab' = [tab EXCEPT ![t] = Idle] /\ control' = [control EXCEPT ![t] = "checking"]
  /\ UNCHANGED <<addresses, live, given, messageState, fcmAccount, tokenUploads>>

\* disableNotifications.
Disable(t) ==
  /\ tab[t] = Idle /\ control[t] = "subscribed"
  /\ \/ /\ live["browser"] # 0
        /\ tab' = [tab EXCEPT ![t] = [stage |-> "deleting", address |-> live["browser"]]]
        /\ UNCHANGED control
     \/ /\ live["browser"] = 0 /\ UNCHANGED tab
        /\ control' = [control EXCEPT ![t] = "unsubscribed"]
  /\ Unsubscribed
  /\ UNCHANGED <<addresses, given, asked, pushes, onDevice, fcmAccount, pushFaults, abandoned, tokenUploads>>
\* DELETE /api/push/subscriptions.
Delete(t) ==
  /\ tab[t].stage = "deleting"
  /\ addresses' = addresses \ {<<"browser", tab[t].address>>}
  /\ tab' = [tab EXCEPT ![t] = Idle] /\ control' = [control EXCEPT ![t] = "unsubscribed"]
  /\ UNCHANGED <<live, given, messageState, fcmAccount, pushFaults, abandoned, tokenUploads>>
DeleteFails(t) ==
  /\ tab[t].stage = "deleting" /\ Fault
  /\ tab' = [tab EXCEPT ![t] = Idle] /\ control' = [control EXCEPT ![t] = "unavailable"]
  /\ UNCHANGED <<addresses, live, given, messageState, fcmAccount, abandoned, tokenUploads>>

\* onNewToken: the phone is given a token and, if it knows a server, uploads it.
NewToken ==
  /\ given < MaxAddresses /\ given' = given + 1
  /\ live' = [live EXCEPT !["phone"] = given']
  /\ \/ tokenUploads' = tokenUploads \cup {given'} /\ UNCHANGED abandoned
     \/ abandoned' = abandoned \cup {<<"phone", given'>>} /\ UNCHANGED tokenUploads
  /\ excused' = excused \cup ({"phone"} \X onDevice["phone"])
  /\ UNCHANGED <<addresses, tab, control, asked, pushes, onDevice, fcmAccount, pushFaults>>
\* registerIfAvailable, when the app is opened.
RegisterToken ==
  /\ live["phone"] \notin tokenUploads \cup {0} /\ tokenUploads' = tokenUploads \cup {live["phone"]}
  /\ UNCHANGED <<addresses, live, given, tab, control, messageState, fcmAccount, pushFaults, abandoned>>
\* POST /api/push/fcm-tokens.
SaveToken(a) ==
  /\ a \in tokenUploads /\ tokenUploads' = tokenUploads \ {a}
  /\ addresses' = addresses \cup {<<"phone", a>>} /\ abandoned' = abandoned \ {<<"phone", a>>}
  /\ UNCHANGED <<live, given, tab, control, messageState, fcmAccount, pushFaults>>
SaveTokenFails(a) ==
  /\ a \in tokenUploads /\ Fault /\ tokenUploads' = tokenUploads \ {a}
  /\ abandoned' = abandoned \cup ({<<"phone", a>>} \ addresses)
  /\ UNCHANGED <<addresses, live, given, tab, control, messageState, fcmAccount>>

-----------------------------------------------------------------------------
(* The server.                                                               *)

\* listSubscriptions and listFcmTokens at the moment of the event.
Fanout(kind, q) ==
  pushes' = pushes \cup {[kind |-> kind, question |-> q, device |-> a[1], to |-> a[2]] : a \in addresses}

\* ask.create; Questions of ask.batch.create are announced to nobody.
AskOne(q) ==
  /\ asked[q] = "none" /\ asked' = [asked EXCEPT ![q] = "pending"]
  /\ Fanout("created", q)
  /\ UNCHANGED <<addresses, deviceState, onDevice, fcmAccount, excused, pushFaults>>
AskInBatch(q) ==
  /\ asked[q] = "none" /\ asked' = [asked EXCEPT ![q] = "pending"]
  /\ UNCHANGED <<addresses, deviceState, pushes, onDevice, fcmAccount, excused, pushFaults>>
\* onAnyResolved: answered, expired, or cancelled with its agent's ask.
ResolveAsked(q) ==
  /\ asked[q] = "pending" /\ asked' = [asked EXCEPT ![q] = "resolved"]
  /\ Fanout("resolved", q)
  /\ excused' = excused \cup ({d \in Devices : Unserved(d)} \X {q})
  /\ UNCHANGED <<addresses, deviceState, onDevice, fcmAccount, pushFaults>>
\* question.update, cancel and supersede: no device is told.
WithdrawAsked(q) ==
  /\ asked[q] = "pending" /\ asked' = [asked EXCEPT ![q] = "withdrawn"]
  /\ UNCHANGED <<addresses, deviceState, pushes, onDevice, fcmAccount, excused, pushFaults>>

\* The service account is read by the first send to a phone and the outcome,
\* good or bad, is kept until the server ends.
Usable(m) == m.device = "phone" => fcmAccount = "read"
ReadAccount ==
  /\ fcmAccount = "unread" /\ \E m \in pushes : m.device = "phone"
  /\ \/ fcmAccount' = "read" /\ UNCHANGED pushFaults
     \/ fcmAccount' = "unusable" /\ Fault
  /\ UNCHANGED <<addresses, deviceState, messageState>>

\* The device gets a message, in any order: sw.js shows a notification under
\* the tag of the Question, or closes it.
Overtakes(m) ==
  m.kind = "resolved" /\ \E x \in pushes : x.kind = "created" /\ x.question = m.question /\ x.to = m.to
Deliver(m) ==
  /\ Usable(m) /\ m.to = live[m.device]
  /\ pushes' = pushes \ {m}
  /\ excused' = IF Overtakes(m) THEN excused \cup {<<m.device, m.question>>} ELSE excused
  /\ onDevice' = [onDevice EXCEPT ![m.device] = IF m.kind = "created" THEN @ \cup {m.question}
                                          ELSE @ \ {m.question}]
  /\ UNCHANGED <<addresses, deviceState, asked, fcmAccount, pushFaults>>
\* 404, 410, UNREGISTERED: the row goes by its address.
Gone(m) ==
  /\ Usable(m) /\ m.to # live[m.device]
  /\ pushes' = pushes \ {m} /\ addresses' = addresses \ {<<m.device, m.to>>}
  /\ UNCHANGED <<deviceState, asked, onDevice, fcmAccount, excused, pushFaults>>
\* SENDER_ID_MISMATCH, or a 404 for the account's project: the token is alive, but
\* the account is another project's.
Disown(m) ==
  /\ m.device = "phone" /\ Usable(m) /\ m.to = live["phone"] /\ Fault
  /\ pushes' = pushes \ {m} /\ addresses' = addresses \ {<<"phone", m.to>>}
  /\ abandoned' = abandoned \cup {<<"phone", m.to>>}
  /\ excused' = excused \cup (IF m.kind = "resolved" THEN {<<"phone", m.question>>} ELSE {})
  /\ UNCHANGED <<live, given, tab, control, tokenUploads, asked, onDevice, fcmAccount>>
\* Definitions named Slip... are faulty variants of the one that follows, used
\* by no specification: a property has to notice each of them.

SlipSendFails(m) ==
  /\ Fault
  /\ pushes' = pushes \ {m} /\ addresses' = addresses \ {<<m.device, m.to>>}
  /\ UNCHANGED <<deviceState, asked, onDevice, fcmAccount, excused>>
\* Any other failure is logged; so is every send to a phone without an account.
SendFails(m) ==
  /\ \/ Fault
     \/ m.device = "phone" /\ fcmAccount = "unusable" /\ UNCHANGED pushFaults
  /\ pushes' = pushes \ {m}
  /\ excused' = IF m.kind = "resolved" THEN excused \cup {<<m.device, m.question>>} ELSE excused
  /\ UNCHANGED <<addresses, deviceState, asked, onDevice, fcmAccount>>

\* notificationclick.
Click(d, q) ==
  /\ q \in onDevice[d] /\ onDevice' = [onDevice EXCEPT ![d] = @ \ {q}]
  /\ UNCHANGED <<addresses, deviceState, asked, pushes, fcmAccount, excused, pushFaults>>

PushNext ==
  \/ \E t \in Tabs :
       \/ RefreshControl(t) \/ RefreshFails(t) \/ Enable(t) \/ Save(t) \/ SaveReturns(t)
       \/ SaveFails(t) \/ RollBack(t) \/ TabEnds(t) \/ Disable(t) \/ Delete(t) \/ DeleteFails(t)
  \/ NewToken \/ RegisterToken \/ ReadAccount
  \/ \E a \in tokenUploads : SaveToken(a) \/ SaveTokenFails(a)
  \/ \E q \in PushQuestions :
       \/ AskOne(q) \/ AskInBatch(q) \/ ResolveAsked(q) \/ WithdrawAsked(q)
       \/ \E d \in Devices : Click(d, q)
  \/ \E m \in pushes : Deliver(m) \/ Gone(m) \/ Disown(m) \/ SendFails(m)

PushSpec == PushInit /\ [][PushNext]_pushVars

-----------------------------------------------------------------------------

\* The server knows the address of every device that has one, unless a tab or the
\* phone is still saving it, or gave up, or the service disowned it: neither a roll
\* back, nor the end of another tab's subscription, nor an older token's upload or
\* end, takes a live one away (pushNotifier.ts:57).
Busy == \E t \in Tabs : tab[t].stage \in {"saving", "saved", "rollback"}
LiveAddressKnown ==
  /\ live["browser"] # 0 /\ ~Unserved("browser") /\ ~Busy => <<"browser", live["browser"]>> \in addresses
  /\ live["phone"] \notin tokenUploads \cup {0} /\ ~Unserved("phone") =>
       <<"phone", live["phone"]>> \in addresses
\* A notification on a device is of a pending Question, or of one its agent
\* withdrew, or the message that closes it is on its way to that device, unless
\* that message was lost or came first, or found no address of the device
\* (pushNotifier.ts:31).
DismissalFollows ==
  \A d \in Devices : \A q \in onDevice[d] :
    \/ asked[q] \in {"pending", "withdrawn"} \/ <<d, q>> \in excused
    \/ \E m \in pushes : m.kind = "resolved" /\ m.question = q /\ m.device = d /\ m.to = live[d]

PushSettles == LiveAddressKnown /\ DismissalFollows
=============================================================================
