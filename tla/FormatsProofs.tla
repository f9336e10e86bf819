---------------------------- MODULE FormatsProofs ----------------------------
(***************************************************************************)
(* What the conversions of the dashboard keep, for every unit, number of      *)
(* decimals, limit and moment.                                                *)
(***************************************************************************)
EXTENDS Formats, TLAPS

(* Rounding moves a quotient by at most a half. *)
LEMMA RoundedBounds ==
    ASSUME NEW a \in Nat, NEW b \in Nat, b > 0
    PROVE  /\ Rounded(a, b) \in Nat
           /\ 2 * b * Rounded(a, b) <= 2 * a + b
           /\ 2 * a + b < 2 * b * Rounded(a, b) + 2 * b
<1> DEFINE n == 2 * a + b
           d == 2 * b
<1>1. n \in Nat /\ d \in Nat /\ d > 0
  OBVIOUS
<1> HIDE DEF n, d
<1>2. n = (d * (n \div d)) + (n % d) /\ n % d \in 0..(d - 1) /\ n \div d \in Int
  BY <1>1
<1>3. n \div d >= 0
  BY <1>1
<1> QED
  BY <1>2, <1>3 DEF Rounded, n, d

LEMMA UnitBounds ==
    ASSUME NEW n \in Nat
    PROVE  Unit(n) \in Nat /\ Unit(n) >= MB /\ MB \in Nat /\ MB > Cents
<1>1. MB \in Nat /\ MB > Cents
  BY FormatsAssumption DEF MB
<1>2. GB \in Nat /\ GB >= MB
  BY <1>1, FormatsAssumption DEF GB
<1>3. TB \in Nat /\ TB >= GB
  BY <1>2, FormatsAssumption DEF TB
<1> QED
  BY <1>1, <1>2, <1>3 DEF Unit

(* trafficParts and trafficLimitFrom, one after the other: a limit that goes    *)
(* through an edit form moves by at most half of the last decimal shown and a     *)
(* half byte; unlimited stays unlimited, and so does a limit stay one when it is   *)
(* at least half of the smallest amount the form can show.                         *)
THEOREM FormLimitNear ==
    ASSUME NEW n \in Nat
    PROVE  /\ FormLimit(n) \in Nat
           /\ 2 * Cents * (FormLimit(n) - n) <= Unit(n) + Cents
           /\ 2 * Cents * (n - FormLimit(n)) <= Unit(n) + Cents
           /\ n = 0 => FormLimit(n) = 0
           /\ 2 * Cents * n >= MB => FormLimit(n) > 0
<1> DEFINE U == Unit(n)
           v == Rounded(n * Cents, U)
           m == Rounded(v * U, Cents)
<1>1. Cents \in Nat /\ Cents > 0
  BY FormatsAssumption
<1>2. U \in Nat /\ U >= MB /\ MB \in Nat /\ MB > Cents
  BY UnitBounds
<1>3. CASE n = 0
  <2>1. FormLimit(n) = 0
    BY <1>3 DEF FormLimit, trafficParts, trafficLimitFrom
  <2> QED
    BY <1>1, <1>2, <1>3, <2>1
<1>4. CASE n # 0
  <2>1. n * Cents \in Nat /\ U > 0
    BY <1>1, <1>2
  <2>2. v \in Nat /\ 2 * U * v <= 2 * (n * Cents) + U /\ 2 * (n * Cents) + U < 2 * U * v + 2 * U
    BY <1>2, <2>1, RoundedBounds
  <2>3. v * U \in Nat
    BY <1>2, <2>2
  <2>4. m \in Nat /\ 2 * Cents * m <= 2 * (v * U) + Cents /\ 2 * (v * U) + Cents < 2 * Cents * m + 2 * Cents
    BY <1>1, <2>3, RoundedBounds
  <2>5. FormLimit(n) = IF v = 0 THEN 0 ELSE m
    BY <1>1, <1>2, <1>4, <2>1 DEF FormLimit, trafficParts, trafficLimitFrom, Unlimited
  <2>6. v = 0 => m = 0
    <3>1. SUFFICES ASSUME v = 0 PROVE m = 0
      OBVIOUS
    <3>2. v * U = 0
      BY <1>2, <3>1
    <3>3. 2 * Cents * m <= Cents
      BY <1>1, <2>4, <3>2
    <3> QED
      BY <1>1, <2>4, <3>3
  <2>7. FormLimit(n) = m
    BY <2>5, <2>6
  <2>8. 2 * U * v = 2 * (v * U) /\ 2 * Cents * (m - n) = 2 * Cents * m - 2 * (n * Cents)
        /\ 2 * Cents * (n - m) = 2 * (n * Cents) - 2 * Cents * m /\ 2 * Cents * n = 2 * (n * Cents)
    BY <1>1, <1>2, <2>2, <2>4
  <2> DEFINE x == n * Cents
             y == v * U
             z == 2 * Cents * m
  <2>9. x \in Int /\ y \in Int /\ z \in Int /\ U \in Int
    BY <1>1, <1>2, <2>1, <2>3, <2>4
  <2>10. 2 * y <= 2 * x + U /\ 2 * x + U < 2 * y + 2 * U /\ z <= 2 * y + Cents /\ 2 * y + Cents < z + 2 * Cents
    BY <2>2, <2>4, <2>8
  <2>11. 2 * Cents * n >= MB => m > 0
    <3>1. SUFFICES ASSUME 2 * x >= MB PROVE m > 0
      BY <2>8
    <3>2. v > 0
      <4>1. U = MB => v > 0
        <5>1. SUFFICES ASSUME U = MB, v = 0 PROVE FALSE
          BY <2>2
        <5>2. y = 0
          BY <1>2, <5>1
        <5> QED
          BY <1>2, <2>9, <2>10, <3>1, <5>1, <5>2
      <4>2. U # MB => n >= U
        BY DEF Unit
      <4>3. U # MB => v > 0
        <5>1. SUFFICES ASSUME n >= U, v = 0 PROVE FALSE
          BY <2>2, <4>2
        <5>2. y = 0
          BY <1>2, <5>1
        <5>3. n * Cents >= U
          BY <1>1, <1>2, <5>1
        <5> QED
          BY <1>2, <2>9, <2>10, <5>2, <5>3
      <4> QED
        BY <4>1, <4>3
    <3>3. y >= U
      BY <1>2, <2>2, <3>2
    <3>4. z > 0
      BY <1>1, <1>2, <2>9, <2>10, <3>3
    <3> QED
      BY <1>1, <2>4, <3>4
  <2>12. z - 2 * x <= U + Cents /\ 2 * x - z <= U + Cents
    BY <1>1, <2>9, <2>10
  <2> QED
    BY <1>4, <2>4, <2>7, <2>8, <2>11, <2>12
<1> QED
  BY <1>3, <1>4

(* ymd and parseExpireDate: a date that goes through a form stays on its day and *)
(* is never moved back, and a second pass changes nothing.                        *)
THEOREM FormExpireSameDay ==
    ASSUME NEW t \in Int
    PROVE  /\ FormExpire(t) \in Int /\ t <= FormExpire(t) /\ FormExpire(t) < t + Day
           /\ ymd(FormExpire(t)) = ymd(t)
           /\ FormExpire(FormExpire(t)) = FormExpire(t)
<1> DEFINE d == t \div Day
<1>1. Day \in Int /\ Day > 0 /\ Never \notin Int
  BY FormatsAssumption
<1>2. d \in Int /\ d * Day <= t /\ t < d * Day + Day
  BY <1>1
<1>3. t # Never /\ d # Never
  BY <1>1, <1>2
<1>4. FormExpire(t) = d * Day + Day - 1
  BY <1>3 DEF FormExpire, ymd, parseExpireDate
<1>5. FormExpire(t) \in Int
  BY <1>1, <1>2, <1>4
<1> DEFINE e == FormExpire(t) \div Day
<1>6. e = d
  <2>1. e \in Int /\ e * Day <= FormExpire(t) /\ FormExpire(t) < e * Day + Day
    BY <1>1, <1>5
  <2>2. (e - d) * Day < Day /\ (d - e) * Day < Day
    BY <1>1, <1>2, <1>4, <2>1
  <2>3. e - d < 1
    <3>1. SUFFICES ASSUME e - d >= 1 PROVE FALSE
      BY <1>2, <2>1
    <3>2. (e - d) * Day >= Day
      BY <1>1, <1>2, <2>1, <3>1
    <3> QED
      BY <1>1, <1>2, <2>1, <2>2, <3>2
  <2>4. d - e < 1
    <3>1. SUFFICES ASSUME d - e >= 1 PROVE FALSE
      BY <1>2, <2>1
    <3>2. (d - e) * Day >= Day
      BY <1>1, <1>2, <2>1, <3>1
    <3> QED
      BY <1>1, <1>2, <2>1, <2>2, <3>2
  <2> QED
    BY <1>2, <2>1, <2>3, <2>4
<1>7. FormExpire(t) # Never
  BY <1>1, <1>5
<1>8. ymd(FormExpire(t)) = d /\ ymd(t) = d
  BY <1>3, <1>6, <1>7 DEF ymd
<1>9. t <= FormExpire(t) /\ FormExpire(t) < t + Day
  BY <1>1, <1>2, <1>4
<1>10. FormExpire(FormExpire(t)) = FormExpire(t)
  BY <1>8 DEF FormExpire
<1> QED
  BY <1>5, <1>8, <1>9, <1>10

(* userStatus and Active of internal/models agree: the badge says "on" exactly    *)
(* when the panel serves the user.                                                 *)
THEOREM OnMeansActive ==
    ASSUME NEW u, NEW now \in Int, u.limit \in Nat, u.used \in Nat, u.enable \in BOOLEAN,
           u.expire \in Int \cup {Never}
    PROVE  (userStatus(u, now) = "on") <=> Active(u, now)
<1> DEFINE q == u.limit # 0 /\ u.used >= u.limit
           e == u.expire # Never /\ u.expire < now
<1>1. q <=> OverQuota(u)
  BY DEF OverQuota
<1>2. e <=> Expired(u, now)
  BY DEF Expired
<1>3. CASE q
  BY <1>1, <1>3 DEF userStatus, Active
<1>4. CASE ~q /\ e
  BY <1>2, <1>4 DEF userStatus, Active
<1>5. CASE ~q /\ ~e
  BY <1>1, <1>2, <1>5 DEF userStatus, Active
<1> QED
  BY <1>3, <1>4, <1>5

(* remainingDays rounds up: the column "Expire" says "Expired" only when a whole  *)
(* day has passed since the date, while the badge says so at once.                 *)
THEOREM ExpiredColumnLags ==
    ASSUME NEW t \in Int, NEW now \in Int
    PROVE  Expire(t, now) = "Expired" <=> now - t >= Day
<1> DEFINE a == now - t
           q == a \div Day
<1>1. Day \in Int /\ Day > 0 /\ t # Never /\ a \in Int
  BY FormatsAssumption
<1>2. q \in Int /\ Day * q <= a /\ a < Day * q + Day
  BY <1>1
<1>3. q >= 1 <=> a >= Day
  BY <1>1, <1>2
<1>4. Expire(t, now) = "Expired" <=> -q < 0
  BY <1>1 DEF Expire, remainingDays
<1> QED
  BY <1>2, <1>3, <1>4
===============================================================================
