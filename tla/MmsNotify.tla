------------------------------ MODULE MmsNotify ------------------------------
(***************************************************************************)
(* How long a message stays available (mms_notify.c, mms.c): the sender    *)
(* dates it and sets its expiry, absolute or relative; the receiver gets a *)
(* notification with the expiry and perhaps the date, keeps it, and asks   *)
(* for the expiry again and again while the clock runs.                    *)
(*                                                                         *)
(* What the MMSC puts into the notification of what the sender wrote is    *)
(* its own business: any of it may be missing.                             *)
(***************************************************************************)
EXTENDS Integers, Sequences

CONSTANTS
  Offsets,     (* What the sender counts to the expiry.                      *)
  ThirtyDays,  (* 30 * 24 * 3600, the receiver's own limit.                  *)
  MaxTime      (* Bound: the clock stops here.                               *)

ASSUME NotifyAssumption ==
  /\ Offsets \subseteq Nat \ {0}
  /\ ThirtyDays \in Nat \ {0} /\ MaxTime \in Nat \ {0}

VARIABLES
  now,      (* time(NULL), of the sender and of the receiver.                *)
  date,     (* "Date" of the message, 0 for none.                            *)
  expiry,   (* "X-Mms-Expiry" of the message, see NoExpiry.                  *)
  notify,   (* The notification as unpacked, [date, expiry], or <<>>.     *)
  (* History, read by the properties only. *)
  meant,    (* The time at which the sender wanted it gone, 0 for none.      *)
  late      (* The receiver was told once that the notification is expired.  *)

notifyVars == <<now, date, expiry, notify, meant, late>>

(* An item that is not there: mms_header_get_time and get_long give 0.      *)
NoExpiry == [time |-> 0, relative |-> FALSE]

-----------------------------------------------------------------------------
(* The receiver's getters.                                                 *)

(* altered: the date of the notification is not looked at.                  *)
GetDateNow(n) == now

(* altered: a date long past is not believed.                               *)
GetDateRecent(n) == IF n.date + 2 < now THEN now ELSE n.date

(* mms_notify_get_date: now, when there is no Date.                         *)
GetDate(n) == IF n.date = 0 THEN now ELSE n.date

(* altered: a relative expiry is taken for a time.                          *)
GetExpiryAbsolute(n) ==
  IF n.expiry.time > 0 THEN n.expiry.time ELSE now + ThirtyDays

(* mms_notify_get_expiry.                                                  *)
GetExpiry(n) ==
  IF n.expiry.time > 0
    THEN n.expiry.time + (IF n.expiry.relative THEN GetDate(n) ELSE 0)
    ELSE now + ThirtyDays

-----------------------------------------------------------------------------
NotifyInit ==
  /\ now \in 1 .. MaxTime
  /\ date = 0 /\ expiry = NoExpiry /\ notify = <<>> /\ meant = 0 /\ late = FALSE

Tick ==
  /\ now < MaxTime /\ now' = now + 1
  /\ UNCHANGED <<date, expiry, notify, meant, late>>

(* mms_create_send_req: dated now, with an absolute expiry unless that is 0. *)
CreateSendReq ==
  /\ notify = <<>>
  /\ date' = now
  /\ \/ expiry' = NoExpiry /\ meant' = 0
     \/ \E o \in Offsets : expiry' = [time |-> now + o, relative |-> FALSE] /\ meant' = now + o
  /\ UNCHANGED <<now, notify, late>>

(* mms_set_expire: another absolute one.                                    *)
SetExpire ==
  /\ notify = <<>> /\ date # 0
  /\ \E o \in Offsets : expiry' = [time |-> now + o, relative |-> FALSE] /\ meant' = now + o
  /\ UNCHANGED <<now, date, notify, late>>

(* mms_set_expire_relat: counted from the date of the message, which is when *)
(* it was created, not when this is called or the message is sent.          *)
SetExpireRelat ==
  /\ notify = <<>> /\ date # 0
  /\ \E o \in Offsets : expiry' = [time |-> o, relative |-> TRUE] /\ meant' = date + o
  /\ UNCHANGED <<now, date, notify, late>>

(* The message is sent and the MMSC notifies the receiver, who unpacks it    *)
(* (mms_notify_create), with the date or without, with the expiry or not.   *)
Notify ==
  /\ notify = <<>> /\ date # 0
  /\ \E d \in {0, date}, e \in {NoExpiry, expiry} :
       notify' = <<[date |-> d, expiry |-> e]>>
  /\ UNCHANGED <<now, date, expiry, meant, late>>

(* The receiver asks whether it is expired.                                *)
Ask ==
  /\ notify # <<>>
  /\ late' = (late \/ now >= GetExpiry(notify[1]))
  /\ UNCHANGED <<now, date, expiry, notify, meant>>

(* mms_notify_destroy.                                                     *)
Drop ==
  /\ notify # <<>>
  /\ notify' = <<>> /\ late' = FALSE /\ date' = 0 /\ expiry' = NoExpiry /\ meant' = 0
  /\ UNCHANGED now

NotifyNext == Tick \/ CreateSendReq \/ SetExpire \/ SetExpireRelat \/ Notify \/ Ask \/ Drop

NotifySpec == NotifyInit /\ [][NotifyNext]_notifyVars

(* Time passes, whatever the application does.                              *)
NotifyFairSpec == NotifySpec /\ WF_notifyVars(Tick)

-----------------------------------------------------------------------------
(* Properties.                                                             *)

Headers == [time: Nat, relative: BOOLEAN]

(* Every variable has its type.                                            *)
NotifyTypeOK ==
  /\ now \in 1 .. MaxTime /\ date \in Nat /\ meant \in Nat
  /\ expiry \in Headers
  /\ notify \in Seq([date: Nat, expiry: Headers]) /\ Len(notify) <= 1
  /\ late \in BOOLEAN

(* The notification fixes a time: a date to count from, or an absolute one. *)
Anchored(n) == n.expiry.time > 0 /\ (n.expiry.relative => n.date # 0)

(* What the receiver reads of a notification that fixes a time is the time  *)
(* the sender meant, at every moment it asks.                               *)
ReadAsMeant ==
  \A i \in DOMAIN notify : Anchored(notify[i]) => GetExpiry(notify[i]) = meant

(* ... so that what it once found expired it never finds alive again.       *)
ExpiredForGood ==
  late => \A i \in DOMAIN notify : now >= GetExpiry(notify[i])

(* A message is never taken for expired before the sender's time: without a *)
(* time to count from the receiver only ever errs to the later side.        *)
NeverTooEarly ==
  \A i \in DOMAIN notify :
    meant # 0 /\ notify[i].expiry # NoExpiry => GetExpiry(notify[i]) >= meant

(* If the clock goes far enough, a kept notification that fixes a time is    *)
(* expired in the end.                                                     *)
Expires ==
  (notify # <<>> /\ Anchored(notify[1]) /\ meant <= MaxTime)
    ~> (notify = <<>> \/ now >= GetExpiry(notify[1]))

=============================================================================
