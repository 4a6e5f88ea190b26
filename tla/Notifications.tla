---------------------------- MODULE Notifications ----------------------------
(***************************************************************************)
(* NotificationModel.swift and its two callers: the registration reminder  *)
(* of SettingsView.swift and the bell of SectionView (AddClassView.swift). *)
(* The notification center is external: it delivers a request of           *)
(* UNCalendarNotificationTrigger when the clock enters the minute that the *)
(* components name, so never for a minute that has begun.                  *)
(***************************************************************************)
EXTENDS Integers, Sequences

CONSTANTS
  Ticks,        \* ticks of the clock in a minute
  MaxNow,       \* bound on the clock
  MaxRequests   \* bound on the requests

ASSUME NotificationsAssumption == Ticks \in Nat \ {0} /\ MaxNow \in Nat /\ MaxRequests \in Nat

VARIABLES
  now,        \* Date.now
  permission, \* what the user has said to getPersission
  date,       \* the date of the picker in SettingsView
  added,      \* the requests given to the center, in order
  delivered   \* for every request, the ticks at which it was delivered

notifyVars == <<now, permission, date, added, delivered>>

MinuteOf(t) == t \div Ticks

-----------------------------------------------------------------------------
NotificationsInit ==
  /\ now \in 0..Ticks
  /\ permission = "unasked"
  /\ date = now
  /\ added = <<>> /\ delivered = <<>>

(* The first launch asks; iOS lets the user give permission later.  That   *)
(* it is taken back is left out.                                           *)
getPersission ==
  /\ permission # "granted"
  /\ permission' \in {"granted", "denied"}
  /\ UNCHANGED <<now, date, added, delivered>>

pickDate ==
  /\ date' \in 0..MaxNow
  /\ UNCHANGED <<now, permission, added, delivered>>

(* Mutant of TriggerMinute: the date is rounded to the nearest minute.     *)
TriggerMinuteRounded(t) == (t + Ticks \div 2) \div Ticks

(* dateComponents of day, month, year, hour and minute.                    *)
TriggerMinute(t) == MinuteOf(t)

(* add fails without permission, which nobody looks at.                    *)
pushNotification(t, from) ==
  /\ Len(added) < MaxRequests
  /\ added' = Append(added, [at |-> now, date |-> t, from |-> from,
                             minute |-> TriggerMinute(t), accepted |-> permission = "granted"])
  /\ delivered' = Append(delivered, {})
  /\ UNCHANGED <<now, permission, date>>

scheduleReminder == pushNotification(date, "settings")

(* Mutant of addNotification: half a minute from now.                      *)
addNotificationSoon == pushNotification(now + Ticks \div 2, "bell")

(* The bell: 60 seconds from now.                                          *)
addNotification == pushNotification(now + Ticks, "bell")

Due(r, t) == r.accepted /\ t = r.minute * Ticks /\ r.at < t

(* The clock advances, and what is due is delivered.                       *)
tick ==
  /\ now < MaxNow
  /\ now' = now + 1
  /\ delivered' = [i \in DOMAIN added |->
       delivered[i] \cup (IF Due(added[i], now') THEN {now'} ELSE {})]
  /\ UNCHANGED <<permission, date, added>>

NotificationsNext ==
  \/ getPersission
  \/ pickDate
  \/ scheduleReminder
  \/ addNotification
  \/ tick

NotificationsSpec == NotificationsInit /\ [][NotificationsNext]_notifyVars

-----------------------------------------------------------------------------
(* A reminder comes in its minute: one for a later minute than the one it  *)
(* is scheduled in is delivered before that minute is over, and none is    *)
(* delivered in another minute.                                            *)
RemindersOnTime ==
  \A i \in DOMAIN added : LET r == added[i] IN
    /\ \A t \in delivered[i] : MinuteOf(t) = MinuteOf(r.date)
    /\ /\ r.accepted
       /\ MinuteOf(r.at) < MinuteOf(r.date) /\ MinuteOf(r.date) < MinuteOf(now)
       => delivered[i] # {}

(* The seconds that the trigger drops never cost the bell its minute: a    *)
(* bell that is tapped with permission rings after the tap and within 60   *)
(* seconds.                                                                *)
BellRings ==
  \A i \in DOMAIN added : LET r == added[i] IN
    r.from = "bell" /\ r.accepted /\ now >= r.at + Ticks =>
      \E t \in delivered[i] : r.at < t /\ t <= r.at + Ticks

(* Reminders of both kinds keep their time, although the trigger knows     *)
(* minutes only.                                                           *)
RemindersRight ==
  /\ RemindersOnTime
  /\ BellRings

=============================================================================
