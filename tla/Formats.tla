-------------------------------- MODULE Formats --------------------------------
(***************************************************************************)
(* The conversions of the dashboard between what the panel stores and what  *)
(* a form shows: web/src/lib/format.ts, web/src/components/ui/date-picker   *)
(* and parseExpireDate of internal/api/server.go.  Limits are bytes, times  *)
(* are seconds, days are counted from the epoch in UTC.                     *)
(***************************************************************************)
EXTENDS Integers

CONSTANTS
    Kilo,       \* 1024: from one unit of traffic to the next
    Cents,      \* 100: a form shows a limit with two decimals
    Day,        \* seconds of a day
    Never       \* no expiry date

ASSUME FormatsAssumption ==
    /\ Kilo \in Nat /\ Cents \in Nat /\ Day \in Nat
    /\ Kilo > 1 /\ Cents > 0 /\ Day > 0
    /\ Cents < Kilo * Kilo
    /\ Never \notin Int

MB == Kilo * Kilo
GB == Kilo * MB
TB == Kilo * GB
Unlimited == 0

(* Math.round and toFixed of a / b. *)
Rounded(a, b) == (2 * a + b) \div (2 * b)

-------------------------------------------------------------------------------
(* trafficParts: a limit as a number of hundredths and its unit; "unlimited"  *)
(* is unit 0.  A multiple of a unit is at least that unit.                     *)
Unit(n) == IF n >= TB THEN TB ELSE IF n >= GB THEN GB ELSE MB
trafficParts(n) ==
    IF n = 0 THEN [value |-> 0, unit |-> Unlimited]
    ELSE [value |-> Rounded(n * Cents, Unit(n)), unit |-> Unit(n)]

(* trafficLimitFrom: what the form sends; nothing and zero mean unlimited.     *)
trafficLimitFrom(p) ==
    IF p.unit = Unlimited \/ p.value = 0 THEN 0 ELSE Rounded(p.value * p.unit, Cents)

(* A limit that goes through an edit form nobody touches. *)
FormLimit(n) == trafficLimitFrom(trafficParts(n))

(* ymd of what the panel stored, parseExpireDate of what the form sends: the   *)
(* date picker hands days on as they are.                                       *)
ymd(t) == IF t = Never THEN Never ELSE t \div Day
parseExpireDate(d) == IF d = Never THEN Never ELSE d * Day + Day - 1
FormExpire(t) == parseExpireDate(ymd(t))

-------------------------------------------------------------------------------
(* models.User: Expired, OverQuota, Active. *)
Expired(u, now) == u.expire # Never /\ now > u.expire
OverQuota(u) == u.limit > 0 /\ u.used >= u.limit
Active(u, now) == u.enable /\ ~Expired(u, now) /\ ~OverQuota(u)

(* userStatus: the badge of a row. *)
userStatus(u, now) ==
    CASE u.limit # 0 /\ u.used >= u.limit -> "quota"
      [] ~(u.limit # 0 /\ u.used >= u.limit) /\ u.expire # Never /\ u.expire < now -> "expired"
      [] OTHER -> IF u.enable THEN "on" ELSE "off"

(* remainingDays, rounded up, and the label the Expire column makes of it.      *)
remainingDays(t, now) == -((now - t) \div Day)
Expire(t, now) ==
    IF t = Never THEN "No expiry"
    ELSE IF remainingDays(t, now) < 0 THEN "Expired" ELSE "left"
(* The filter "Expiring" of the users page. *)
expiring(t, now) == t # Never /\ remainingDays(t, now) \in 0..9
===============================================================================
