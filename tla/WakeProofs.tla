----------------------------- MODULE WakeProofs -----------------------------
(***************************************************************************)
(* Proofs about WakeSchedules, for any schedules, one-shot wakes, zones,   *)
(* periods and bounds.                                                     *)
(*                                                                         *)
(* The tick acts on what it read earlier. The inductive invariant Inv says *)
(* what of it is still true when it is used: Snapshot of the rows, Look    *)
(* and Calendar of the schedule in hand, Occurrence and Verdict inside     *)
(* deliver_frozen_wake. Table, Dating and Taken order the occurrences of a *)
(* schedule; Departures, RowVerdicts and CliVerdicts are what is promised. *)
(***************************************************************************)
EXTENDS WakeSchedules, TLAPS, WellFoundedInduction

-----------------------------------------------------------------------------
(* The calendar.                                                           *)

(* Least is defined by CHOOSE: a non-empty set of naturals has a least     *)
(* member.                                                                 *)
LEMMA LeastOfNat ==
  ASSUME NEW S, S \subseteq Nat, S # {}
  PROVE  Least(S) \in S /\ \A e \in S : Least(S) <= e
<1> DEFINE R == {p \in Nat \X Nat : p[1] < p[2]}
<1>1. IsWellFoundedOn(R, Nat)
  BY NatLessThanWellFounded, Zenon DEF OpToRel
<1>2. PICK x \in S : \A y \in S : ~(<<y, x>> \in R)
  <2> HIDE DEF R
  <2> QED
    BY <1>1, WFMin
<1>3. ASSUME NEW y \in S PROVE x <= y
  <2>1. x \in Nat /\ y \in Nat /\ <<y, x>> \in Nat \X Nat
    OBVIOUS
  <2>2. y < x => <<y, x>> \in R
    BY <2>1
  <2>3. ~(y < x)
    BY <2>2, <1>2
  <2>4. QED
    BY <2>1, <2>3
<1>4. QED
  BY <1>3 DEF Least

(* What calculate_cadence uses of the division by the period.              *)
LEMMA Quotient ==
  ASSUME NEW p \in Int, NEW b \in Nat \ {0}
  PROVE  /\ p \div b \in Int
         /\ (p \div b) * b \in Int
         /\ (p \div b) * b <= p
         /\ p < (p \div b) * b + b
  OBVIOUS

(* Two dates are at least a day apart.                                     *)
LEMMA DatesApart ==
  ASSUME NEW d \in Int, NEW e \in Int, NEW b \in Nat \ {0}, d < e
  PROVE  d * b \in Int /\ e * b \in Int /\ d * b + b <= e * b
<1>1. (e - d - 1) * b >= 0
  OBVIOUS
<1>2. (e - d - 1) * b = e * b - d * b - b
  OBVIOUS
<1>3. QED
  BY <1>1, <1>2

(* t is the hour of the schedules on the date d, in some zone.             *)
Epoch(t, d) == \E z \in Zones : t = CivilEpoch(d, z)

(* The hour of a date in a zone is such a time.                            *)
LEMMA EpochTyped ==
  ASSUME NEW d \in Dates, NEW z \in Zones
  PROVE  d \in Nat /\ CivilEpoch(d, z) \in Int /\ Epoch(CivilEpoch(d, z), d)
<1>1. d \in Nat /\ Day \in Nat /\ Hour \in Int /\ Offset[z] \in Int
  BY WakesAssumption DEF Dates
<1>2. (d - 1) * Day \in Int
  BY <1>1
<1>3. QED
  BY <1>1, <1>2 DEF CivilEpoch, Epoch

(* No two zones are more than a day apart. The program does not see to it: *)
(* it admits zones from a day behind UTC to a day before it.               *)
Near == \A y, z \in Zones : Offset[y] - Offset[z] <= Day

(* Between such zones a later due never has an earlier date, however the   *)
(* zone changed.                                                           *)
LEMMA EpochsOrdered ==
  ASSUME NEW d \in Dates, NEW e \in Dates, NEW t \in Int, NEW u \in Int,
         Near, Epoch(t, d), Epoch(u, e), t < u
  PROVE  d <= e
<1>1. PICK y \in Zones : t = CivilEpoch(d, y)
  BY DEF Epoch
<1>2. PICK z \in Zones : u = CivilEpoch(e, z)
  BY DEF Epoch
<1>3. /\ d \in Int /\ e \in Int /\ Day \in Nat \ {0} /\ Hour \in Int
      /\ Offset[y] \in Int /\ Offset[z] \in Int /\ Offset[y] - Offset[z] <= Day
  BY WakesAssumption DEF Dates, Near
<1>4. SUFFICES ASSUME e < d PROVE FALSE
  BY <1>3
<1>5. /\ (d - 1) * Day \in Int /\ (e - 1) * Day \in Int
      /\ (e - 1) * Day + Day <= (d - 1) * Day
  <2>1. d - 1 \in Int /\ e - 1 \in Int /\ e - 1 < d - 1
    BY <1>3, <1>4
  <2>2. QED
    BY <1>3, <2>1, DatesApart
<1>6. t = (d - 1) * Day + Hour - Offset[y] /\ u = (e - 1) * Day + Hour - Offset[z]
  BY <1>1, <1>2 DEF CivilEpoch
<1> DEFINE m == (d - 1) * Day
           n == (e - 1) * Day
<1>7. /\ m \in Int /\ n \in Int /\ n + Day <= m
      /\ t = m + Hour - Offset[y] /\ u = n + Hour - Offset[z]
  BY <1>5, <1>6
<1> HIDE DEF m, n
<1>8. QED
  BY <1>3, <1>7

(* calculate_cadence, interval: the next due is in the future; the due, if *)
(* any, has passed and was announced.                                      *)
LEMMA IntervalFacts ==
  ASSUME NEW r \in Rows, NEW t \in Times, NEW z \in Zones, r.next >= 0
  PROVE  LET cal == CadenceInterval(r, t, z) IN
         /\ cal \in Calendars /\ cal.tz = z /\ cal.next > t
         /\ cal.date = None /\ cal.ndate = None
         /\ cal.due # None => cal.due <= t /\ r.next <= t
<1> DEFINE q == (t - r.anchor) \div Step
           last == r.anchor + q * Step
           cal == CadenceInterval(r, t, z)
<1>1. t \in Int /\ r.anchor \in Int /\ r.next \in Int /\ Step \in Nat \ {0}
  BY WakesAssumption DEF Times, Rows
<1>2. q \in Int /\ q * Step \in Int /\ q * Step <= t - r.anchor /\ t - r.anchor < q * Step + Step
  <2>1. t - r.anchor \in Int
    BY <1>1
  <2>2. QED
    BY <2>1, <1>1, Quotient
<1> HIDE DEF q
<1>3. last \in Int /\ last <= t /\ last + Step > t
  BY <1>1, <1>2
<1>4. cal = [next |-> last + Step, due |-> IF last >= r.next THEN last ELSE None,
             date |-> None, ndate |-> None, tz |-> z]
  BY DEF CadenceInterval, q
<1> HIDE DEF last, cal
<1>5. /\ cal.next = last + Step /\ cal.tz = z /\ cal.date = None /\ cal.ndate = None
      /\ cal.due = IF last >= r.next THEN last ELSE None
  BY <1>4
<1>6. last + Step \in Int /\ (IF last >= r.next THEN last ELSE None) \in Int
  BY <1>1, <1>3 DEF None
<1>7. cal \in Calendars
  BY <1>4, <1>6 DEF Calendars
<1>8. QED
  BY <1>1, <1>3, <1>5, <1>7 DEF cal

(* calculate_cadence, calendar: the same, each due on its date, and never  *)
(* on the date taken last.                                                 *)
LEMMA AtFacts ==
  ASSUME NEW r \in Rows, NEW t \in Times, NEW z \in Zones, r.next >= 0,
         r.ndate # None => Epoch(r.next, r.ndate),
         Ahead(r, t, z) # {}
  PROVE  LET cal == CadenceAt(r, t, z) IN
         /\ cal \in Calendars /\ cal.tz = z /\ cal.next > t
         /\ Epoch(cal.next, cal.ndate)
         /\ cal.due # None => cal.due <= t /\ r.next <= t /\ cal.date # None
         /\ cal.date # None => cal.date # r.pdate /\ Epoch(cal.due, cal.date)
<1> DEFINE next == Least(Ahead(r, t, z))
           late == {d \in Days(r, t, z) : CivilEpoch(d, z) \in (t - Grace)..t
                                          /\ CivilEpoch(d, z) >= r.next}
           kept == r.next \in (t - Grace)..t /\ r.ndate # None /\ r.pdate # r.ndate
           due == IF kept THEN r.next ELSE IF late # {} THEN CivilEpoch(Least(late), z) ELSE None
           date == IF kept THEN r.ndate ELSE IF late # {} THEN Least(late) ELSE None
           cal == CadenceAt(r, t, z)
<1>1. /\ t \in Int /\ t >= 0 /\ r.next \in Int /\ Grace \in Nat
      /\ r.ndate \in Dates \cup {None} /\ r.pdate \in Dates \cup {None}
  BY WakesAssumption DEF Times, Rows
<1>2. Dates \subseteq Nat
  BY DEF Dates
<1>3. Days(r, t, z) \subseteq Dates /\ \A d \in Days(r, t, z) : d # r.pdate
  BY DEF Days
<1>4. next \in Dates /\ CivilEpoch(next, z) > t
  <2>1. Ahead(r, t, z) \subseteq Nat
    BY <1>2, <1>3 DEF Ahead
  <2>2. next \in Ahead(r, t, z)
    BY <2>1, LeastOfNat
  <2>3. QED
    BY <2>2, <1>3 DEF Ahead
<1>5. late # {} => Least(late) \in late
  <2>1. late \subseteq Nat
    BY <1>2, <1>3
  <2>2. QED
    BY <2>1, LeastOfNat
<1>6. late # {} => /\ Least(late) \in Dates /\ Least(late) # r.pdate
                   /\ CivilEpoch(Least(late), z) \in (t - Grace)..t
                   /\ CivilEpoch(Least(late), z) >= r.next
  BY <1>3, <1>5
<1>7. cal = [next |-> CivilEpoch(next, z), ndate |-> next, tz |-> z, due |-> due, date |-> date]
  BY DEF CadenceAt
<1>8. CivilEpoch(next, z) \in Int /\ Epoch(CivilEpoch(next, z), next)
  BY <1>4, EpochTyped
<1>9. late # {} => /\ CivilEpoch(Least(late), z) \in Int
                   /\ Epoch(CivilEpoch(Least(late), z), Least(late))
  BY <1>6, EpochTyped
<1> HIDE DEF late, next
<1>10. due \in Int /\ date \in Dates \cup {None}
  BY <1>1, <1>6, <1>9 DEF None
<1>11. due # None => due <= t /\ r.next <= t /\ date # None
  <2>1. \A d \in Dates : d # None
    BY <1>2 DEF None
  <2>2. CASE kept
    BY <2>2, <1>1
  <2>3. CASE ~kept /\ late # {}
    BY <2>1, <2>3, <1>1, <1>6, <1>9
  <2>4. CASE ~kept /\ late = {}
    BY <2>4
  <2>5. QED
    BY <2>2, <2>3, <2>4
<1>12. date # None => date # r.pdate /\ Epoch(due, date)
  BY <1>6, <1>9
<1> HIDE DEF due, date
<1>13. cal \in Calendars
  BY <1>4, <1>7, <1>8, <1>10 DEF Calendars
<1> HIDE DEF cal
<1>14. /\ cal.next = CivilEpoch(next, z) /\ cal.ndate = next /\ cal.tz = z
       /\ cal.due = due /\ cal.date = date
  BY <1>7
<1>15. QED
  BY <1>4, <1>8, <1>11, <1>12, <1>13, <1>14 DEF cal

(* Both cadences, as the rest of the proof uses them.                      *)
LEMMA CadenceFacts ==
  ASSUME NEW s \in Schedules, NEW r \in Rows, NEW t \in Times, NEW z \in Zones, r.next >= 0,
         r.ndate # None => Epoch(r.next, r.ndate),
         CalendarAvailable(s, r, t, z)
  PROVE  LET cal == CalculateCadence(s, r, t, z) IN
         /\ cal \in Calendars /\ cal.tz = z /\ cal.next > t
         /\ cal.ndate # None => Epoch(cal.next, cal.ndate)
         /\ s \notin AtSchedules => cal.ndate = None /\ cal.date = None
         /\ cal.due # None => /\ cal.due <= t /\ r.next <= t
                              /\ s \in AtSchedules => cal.date # None
         /\ cal.date # None => cal.date # r.pdate /\ Epoch(cal.due, cal.date)
<1>1. CASE s \in AtSchedules
  <2>1. CalculateCadence(s, r, t, z) = CadenceAt(r, t, z)
    BY <1>1 DEF CalculateCadence
  <2>2. Ahead(r, t, z) # {}
    BY <1>1 DEF CalendarAvailable
  <2>3. QED
    BY <2>1, <2>2, <1>1, AtFacts
<1>2. CASE s \notin AtSchedules
  <2>1. CalculateCadence(s, r, t, z) = CadenceInterval(r, t, z)
    BY <1>2 DEF CalculateCadence
  <2>2. QED
    BY <2>1, <1>2, IntervalFacts
<1>3. QED
  BY <1>1, <1>2

-----------------------------------------------------------------------------
(* The inductive invariant.                                                *)

(* The tick is inside deliver_frozen_wake, or closes an occurrence.        *)
Delivering == {"missed", "guards", "post", "accept", "depart", "write", "mark", "settle"}

(* The tick works on an occurrence of s.                                   *)
InHand(s) == pc \in Delivering /\ wake[1] = s

(* Which wake the tick has in hand, and where it is still listed.          *)
Control ==
  /\ pc \in {"idle", "page"} => todo = {}
  /\ pc = "commit" => Scheduled(wake) /\ wake[1] \in todo
  /\ pc \in Delivering => wake \in Wakes
  /\ pc \in Delivering /\ Scheduled(wake) => wake[1] \in todo
  /\ pc \in Delivering /\ ~Scheduled(wake) => pc # "missed" /\ wake[2] \in page /\ todo = {}

(* No occurrence is frozen before it is due, nor after the tick began.     *)
Clocks ==
  /\ at <= now
  /\ \A s \in Schedules : rows[s].due <= now
  /\ pc # "idle" => \A s \in Schedules : rows[s].due <= at

(* An occurrence is stored exactly when the row has a phase, and the next  *)
(* due lies behind it.                                                     *)
Table ==
  \A s \in Schedules :
    /\ rows[s].status # "kept" => rows[s].phase = "none"
    /\ rows[s].next >= 0
    /\ rows[s].phase = "none" <=> rows[s].due = None
    /\ rows[s].due # None => rows[s].due >= 0 /\ rows[s].due < rows[s].next

(* Every stored due is on the stored date.                                 *)
Dating ==
  \A s \in Schedules :
    /\ s \notin AtSchedules => rows[s].ndate = None /\ rows[s].pdate = None
    /\ rows[s].ndate # None => Epoch(rows[s].next, rows[s].ndate)
    /\ rows[s].pdate # None => rows[s].due # None /\ Epoch(rows[s].due, rows[s].pdate)

(* The last occurrence has the latest due of all those frozen for the      *)
(* schedule and, where no zone is far from another, the latest date.       *)
Taken ==
  \A s \in Schedules :
    /\ rows[s].status = "unborn" => frozen[s] = {}
    /\ Kept(s) => \A o \in frozen[s] : o.due <= rows[s].due
    /\ Near /\ Kept(s) => \A o \in frozen[s] :
                    o.date # None => rows[s].pdate # None /\ o.date <= rows[s].pdate

(* What the tick read of a schedule it has not taken up yet is still so    *)
(* while the row is kept: nobody but the tick moves a calendar or a phase, *)
(* and an occurrence under way keeps its row.                              *)
Snapshot ==
  \A s \in todo :
    /\ snap[s].status = "kept" /\ rows[s].status # "unborn"
    /\ snap[s].next >= 0
    /\ s \notin AtSchedules => snap[s].ndate = None
    /\ snap[s].ndate # None => Epoch(snap[s].next, snap[s].ndate)
    /\ ~InHand(s) /\ Pending(snap[s]) => Kept(s)
    /\ ~InHand(s) /\ Kept(s) =>
         /\ rows[s].next = snap[s].next /\ rows[s].due = snap[s].due
         /\ rows[s].phase = snap[s].phase /\ rows[s].pdate = snap[s].pdate

(* A phase says of a wake what happened to it.                             *)
Truth(phase, w) ==
  /\ phase = "confirmed" => delivery[w] = "acked"
  /\ phase = "committed_thread" => w \in posted
  /\ phase \in {"missed_before_departure", "owner_unavailable"} =>
         w \notin posted /\ delivery[w] = "none"
  /\ phase \in {"dispatching_agent", "outcome_unknown"} => delivery[w] # "none"

(* What was read before the mutex was taken to act.                        *)
Look ==
  pc = "commit" =>
    /\ wake[2] = snap[wake[1]].due
    /\ look.ends # "none" => Pending(snap[wake[1]]) /\ look.cal.next >= snap[wake[1]].next
    /\ look.ends \in {"none", "committed_thread", "confirmed", "outcome_unknown", "owner_unavailable"}
    /\ Truth(look.ends, wake)
    /\ look.cal.due # None => /\ look.cal.due <= at /\ snap[wake[1]].next <= at
                              /\ wake[1] \in AtSchedules => look.cal.date # None
    /\ look.cal.date # None => /\ look.cal.date # snap[wake[1]].pdate
                               /\ Epoch(look.cal.due, look.cal.date)
    /\ Pending(snap[wake[1]]) /\ look.ends = "none" => look.cal.next = snap[wake[1]].next

(* The calendar in hand: its next due is on its date, and is the stored    *)
(* one unless that has passed.                                             *)
Calendar ==
  pc \in {"commit"} \cup Delivering /\ Scheduled(wake) =>
    /\ look.cal.ndate # None => Epoch(look.cal.next, look.cal.ndate)
    /\ wake[1] \notin AtSchedules => look.cal.ndate = None /\ look.cal.date = None
    /\ pc # "commit" /\ snap[wake[1]].next > at => look.cal.next = snap[wake[1]].next

(* The occurrence in hand is the one of the row, still open.               *)
Occurrence ==
  pc \in Delivering /\ Scheduled(wake) =>
    Kept(wake[1]) /\ rows[wake[1]].due = wake[2] /\ Pending(rows[wake[1]])

(* What the tick knows inside deliver_frozen_wake, up to the verdict it    *)
(* will store.                                                             *)
Verdict ==
  /\ pc \in {"missed", "post"} => delivery[wake] = "none" /\ wake \notin posted
  /\ pc \in {"depart", "write", "mark"} => ~ToThread(wake)
  /\ pc \in {"post", "accept"} => ToThread(wake)
  /\ pc = "post" => ~paused
  /\ pc = "post" /\ Scheduled(wake) => ownerLives /\ rows[wake[1]].cancelled = None
  /\ pc = "post" /\ ~Scheduled(wake) => cli[wake[2]].state = "dispatching"
  /\ pc = "accept" => ~Scheduled(wake) /\ wake \in posted /\ verdict = "committed_thread"
  /\ pc = "write" => delivery[wake] = "dispatching" /\ left[wake] = 0
  /\ pc = "mark" => delivery[wake] # "none"
  /\ pc = "settle" =>
       /\ verdict \notin {"none", "prepared"}
       /\ Truth(verdict, wake)

(* What has left is marked, and what is marked belongs to an occurrence    *)
(* that was frozen: the last one or an earlier one.                        *)
Departures ==
  \A w \in Wakes :
    /\ left[w] <= 1
    /\ left[w] # 0 => w \in posted \/ delivery[w] # "none"
    /\ w \in posted => ToThread(w) /\ left[w] = 1
    /\ delivery[w] # "none" => ~ToThread(w)
    /\ delivery[w] = "acked" => left[w] = 1
    /\ Scheduled(w) /\ (w \in posted \/ delivery[w] # "none") =>
         rows[w[1]].status # "unborn" /\ (Kept(w[1]) => w[2] <= rows[w[1]].due)

(* The stored phases are true.                                             *)
RowVerdicts == \A s \in Schedules : Truth(rows[s].phase, Key(s, rows[s]))

(* So are the records of the one-shot wakes; a page holds open ones, or    *)
(* ones accepted or orphaned since it was read.                            *)
CliTruth(c) ==
  /\ cli[c].state = "accepted" => <<Cli, c>> \in posted \/ delivery[<<Cli, c>>] = "acked"
  /\ delivery[<<Cli, c>>] = "acked" => cli[c].state = "accepted"
  /\ cli[c].state = "rejected" => delivery[<<Cli, c>>] = "none" /\ <<Cli, c>> \notin posted
  /\ cli[c].state = "orphaned" => delivery[<<Cli, c>>] \in {"dispatching", "unknown"}
  /\ c \in page => cli[c].state \in CliPending \cup {"accepted", "orphaned"}

CliVerdicts == \A c \in 1..Clis : CliTruth(c)

Inv == /\ TypeOK /\ Control /\ Clocks /\ Table /\ Dating /\ Taken /\ Snapshot /\ Look /\ Calendar
       /\ Occurrence /\ Verdict /\ Departures /\ RowVerdicts /\ CliVerdicts

-----------------------------------------------------------------------------
(* What the writes of the store and the steps of the tick do.              *)

(* An empty row.                                                           *)
LEMMA NoRowTyped ==
  ASSUME zone \in Zones
  PROVE  /\ NoRow \in Rows /\ NoRow.tz \in Zones
         /\ NoRow.status = "unborn" /\ NoRow.next = 0 /\ NoRow.ndate = None /\ NoRow.pdate = None
         /\ NoRow.cancelled = None /\ NoRow.due = None /\ NoRow.phase = "none"
         /\ NoLook \in [closed : BOOLEAN, ends : Phases, cal : Calendars]
<1>1. (CHOOSE z \in Zones : TRUE) \in Zones
  OBVIOUS
<1>2. NoRow \in Rows /\ NoRow.tz \in Zones
  BY <1>1 DEF NoRow, Rows, Phases, None
<1>3. NoLook \in [closed : BOOLEAN, ends : Phases, cal : Calendars]
  <2>1. NoCalendar \in Calendars
    BY <1>2 DEF NoCalendar, Calendars, None
  <2>2. QED
    BY <2>1 DEF NoLook, Phases
<1>4. QED
  BY <1>2, <1>3 DEF NoRow

(* settle_wake_occurrence writes the phase and the next due of one open    *)
(* occurrence, or nothing.                                                 *)
LEMMA SettledWrites ==
  ASSUME NEW R \in [Schedules -> Rows], NEW s \in Schedules, NEW due \in Int,
         NEW phase \in Phases, NEW next \in Int, NEW ndate \in Dates \cup {None}
  PROVE  LET Q == Settled(R, s, due, phase, next, ndate) IN
         /\ Q \in [Schedules -> Rows]
         /\ \A o \in Schedules : o # s => Q[o] = R[o]
         /\ Q[s].status = R[s].status /\ Q[s].due = R[s].due
         /\ Q[s].pdate = R[s].pdate /\ Q[s].cancelled = R[s].cancelled
         /\ \/ Q[s].phase = R[s].phase
            \/ R[s].status = "kept" /\ R[s].due = due /\ Pending(R[s]) /\ Q[s].phase = phase
         /\ \/ Q[s].next = R[s].next /\ Q[s].ndate = R[s].ndate
            \/ /\ R[s].due = due /\ phase \in Terminal
               /\ next > due /\ next >= R[s].next /\ Q[s].next = next /\ Q[s].ndate = ndate
<1> DEFINE Q == Settled(R, s, due, phase, next, ndate)
<1>1. CASE ~Settleable(R[s], due, phase, next)
  <2>1. Q = R
    BY <1>1 DEF Settled
  <2>2. QED
    BY <2>1
<1>2. CASE Settleable(R[s], due, phase, next)
  <2> DEFINE n == IF phase \in Terminal THEN next ELSE R[s].next
             d == IF phase \in Terminal THEN ndate ELSE R[s].ndate
             q == [R[s] EXCEPT !.phase = phase, !.next = n, !.ndate = d]
  <2>1. Q = [R EXCEPT ![s] = q]
    BY <1>2 DEF Settled
  <2>2. R[s] \in Rows /\ n \in Int /\ d \in Dates \cup {None}
    BY DEF Rows
  <2> HIDE DEF n, d
  <2>3. q \in Rows
    BY <2>2 DEF Rows
  <2>4. /\ q.status = R[s].status /\ q.due = R[s].due /\ q.pdate = R[s].pdate
        /\ q.cancelled = R[s].cancelled /\ q.phase = phase /\ q.next = n /\ q.ndate = d
    BY <2>2 DEF Rows
  <2> HIDE DEF q
  <2>5. Q \in [Schedules -> Rows] /\ Q[s] = q /\ \A o \in Schedules : o # s => Q[o] = R[o]
    BY <2>1, <2>3
  <2>6. QED
    BY <1>2, <2>4, <2>5 DEF Settleable, n, d
<1>3. QED
  BY <1>1, <1>2

(* A cancellation leaves the occurrence and the calendar.                  *)
LEMMA CancelledWrites ==
  ASSUME NEW R \in [Schedules -> Rows], NEW s \in Schedules, NEW t \in Times
  PROVE  LET Q == Cancelled(R, s, t) IN
         /\ Q \in [Schedules -> Rows]
         /\ \A o \in Schedules : o # s => Q[o] = R[o]
         /\ Q[s].status = R[s].status /\ Q[s].due = R[s].due /\ Q[s].pdate = R[s].pdate
         /\ Q[s].phase = R[s].phase /\ Q[s].next = R[s].next /\ Q[s].ndate = R[s].ndate
  BY DEF Cancelled, Rows

(* advance_wake_calendar writes the calendar of one row, or nothing.       *)
LEMMA AdvanceWrites ==
  ASSUME rows \in [Schedules -> Rows], NEW s \in Schedules, NEW r, NEW cal \in Calendars,
         NEW t \in Int, AdvanceWakeCalendar(s, r, cal, t)
  PROVE  /\ rows' \in [Schedules -> Rows]
         /\ \A o \in Schedules : o # s => rows'[o] = rows[o]
         /\ rows'[s].status = rows[s].status /\ rows'[s].due = rows[s].due
         /\ rows'[s].pdate = rows[s].pdate /\ rows'[s].phase = rows[s].phase
         /\ \/ rows'[s].next = rows[s].next /\ rows'[s].ndate = rows[s].ndate
            \/ cal.next > t /\ rows'[s].next = cal.next /\ rows'[s].ndate = cal.ndate
<1>1. CASE UNCHANGED rows
  BY <1>1
<1>2. CASE /\ cal.next > t
           /\ rows' = [rows EXCEPT ![s].next = cal.next, ![s].ndate = cal.ndate, ![s].tz = cal.tz]
  <2> DEFINE q == [rows[s] EXCEPT !.next = cal.next, !.ndate = cal.ndate, !.tz = cal.tz]
  <2>1. rows' = [rows EXCEPT ![s] = q]
    BY <1>2
  <2>2. rows[s] \in Rows /\ cal.next \in Int /\ cal.ndate \in Dates \cup {None} /\ cal.tz \in Zones
    BY DEF Calendars
  <2>3. q \in Rows
    BY <2>2 DEF Rows
  <2>4. /\ q.status = rows[s].status /\ q.due = rows[s].due /\ q.pdate = rows[s].pdate
        /\ q.phase = rows[s].phase /\ q.next = cal.next /\ q.ndate = cal.ndate
    BY <2>2 DEF Rows
  <2> HIDE DEF q
  <2>5. rows' \in [Schedules -> Rows] /\ rows'[s] = q /\ \A o \in Schedules : o # s => rows'[o] = rows[o]
    BY <2>1, <2>3
  <2>6. QED
    BY <1>2, <2>4, <2>5
<1>3. QED
  BY <1>1, <1>2 DEF AdvanceWakeCalendar

(* freeze_wake_occurrence opens an occurrence of one row.                  *)
LEMMA FreezeWrites ==
  ASSUME rows \in [Schedules -> Rows], NEW s \in Schedules, NEW r, NEW cal \in Calendars,
         FreezeWakeOccurrence(s, r, cal)
  PROVE  /\ rows' \in [Schedules -> Rows]
         /\ \A o \in Schedules : o # s => rows'[o] = rows[o]
         /\ Kept(s) /\ rows[s].next = r.next /\ ~Pending(rows[s])
         /\ r.next <= cal.due /\ cal.due < cal.next
         /\ rows'[s].status = "kept" /\ rows'[s].due = cal.due /\ rows'[s].phase = "prepared"
         /\ rows'[s].next = cal.next /\ rows'[s].ndate = cal.ndate
         /\ rows'[s].pdate = IF cal.date = None THEN rows[s].pdate ELSE cal.date
<1> DEFINE p == IF cal.date = None THEN rows[s].pdate ELSE cal.date
           q == [rows[s] EXCEPT !.next = cal.next, !.ndate = cal.ndate, !.tz = cal.tz,
                                !.pdate = p, !.due = cal.due, !.phase = "prepared"]
<1>1. rows' = [rows EXCEPT ![s] = q]
  BY DEF FreezeWakeOccurrence
<1>2. /\ rows[s] \in Rows /\ cal.next \in Int /\ cal.ndate \in Dates \cup {None} /\ cal.tz \in Zones
      /\ cal.due \in Int /\ p \in Dates \cup {None} /\ "prepared" \in Phases
  BY DEF Calendars, Rows, Phases, Unsettled
<1>3. rows[s].next = r.next /\ r.next \in Int /\ rows[s].status = "kept"
  BY DEF FreezeWakeOccurrence, Unchanged, Kept, Rows
<1> HIDE DEF p
<1>4. q \in Rows
  BY <1>2 DEF Rows
<1>5. /\ q.status = rows[s].status /\ q.due = cal.due /\ q.pdate = p
      /\ q.phase = "prepared" /\ q.next = cal.next /\ q.ndate = cal.ndate
  BY <1>2 DEF Rows
<1> HIDE DEF q
<1>6. rows' \in [Schedules -> Rows] /\ rows'[s] = q /\ \A o \in Schedules : o # s => rows'[o] = rows[o]
  BY <1>1, <1>4
<1>7. QED
  BY <1>2, <1>3, <1>5, <1>6 DEF FreezeWakeOccurrence, Unchanged, p

(* The row a request starts from.                                          *)
LEMMA NewRow ==
  ASSUME NEW s \in Schedules, now \in Times, zone \in Zones
  PROVE  LET new == [NoRow EXCEPT !.status = "kept", !.anchor = now,
                                  !.next = IF s \in AtSchedules THEN now + 1 ELSE now + Step]
         IN new \in Rows /\ new.next >= 0 /\ new.ndate = None
<1>1. now \in Int /\ now >= 0 /\ now + 1 \in Int /\ now + Step \in Int /\ now + Step >= 0
  BY WakesAssumption DEF Times
<1>2. NoRow \in Rows
  BY NoRowTyped
<1> DEFINE n == IF s \in AtSchedules THEN now + 1 ELSE now + Step
<1>3. n \in Int /\ n >= 0
  BY <1>1
<1> HIDE DEF n
<1> SUFFICES LET new == [NoRow EXCEPT !.status = "kept", !.anchor = now, !.next = n]
             IN new \in Rows /\ new.next >= 0 /\ new.ndate = None
  BY DEF n
<1>4. QED
  BY <1>1, <1>2, <1>3 DEF Rows, NoRow

(* A request fills one row, and may remove one that is settled.            *)
LEMMA CreateEffect ==
  ASSUME TypeOK, NEW s \in Schedules, RequestSchedule(s)
  PROVE  /\ rows' \in [Schedules -> Rows] /\ rows[s].status = "unborn"
         /\ rows'[s].status = "kept" /\ rows'[s].phase = "none" /\ rows'[s].due = None
         /\ rows'[s].pdate = None /\ rows'[s].next >= 0
         /\ rows'[s].ndate # None => Epoch(rows'[s].next, rows'[s].ndate)
         /\ s \notin AtSchedules => rows'[s].ndate = None
         /\ \A o \in Schedules : o # s =>
              \/ rows'[o] = rows[o]
              \/ Kept(o) /\ ~Pending(rows[o]) /\ rows'[o] = [NoRow EXCEPT !.status = "removed"]
<1> DEFINE new == [NoRow EXCEPT !.status = "kept", !.anchor = now,
                                !.next = IF s \in AtSchedules THEN now + 1 ELSE now + Step]
           cal == CalculateCadence(s, new, now, zone)
           row == [new EXCEPT !.next = cal.next, !.ndate = cal.ndate, !.tz = zone]
           gone == [NoRow EXCEPT !.status = "removed"]
<1>1. now \in Times /\ zone \in Zones /\ rows \in [Schedules -> Rows] /\ now \in Int /\ now >= 0
  BY DEF TypeOK, Times
<1>2. new \in Rows /\ new.next >= 0 /\ new.ndate = None
  BY <1>1, NewRow
<1>3. new.status = "kept" /\ new.phase = "none" /\ new.due = None /\ new.pdate = None
  BY DEF NoRow
<1>4. CalendarAvailable(s, new, now, zone) /\ CreateWakeSchedule(s, row) /\ rows[s].status = "unborn"
  BY DEF RequestSchedule
<1> HIDE DEF new
<1>5. /\ cal \in Calendars /\ cal.next > now
      /\ cal.ndate # None => Epoch(cal.next, cal.ndate)
      /\ s \notin AtSchedules => cal.ndate = None
  BY <1>1, <1>2, <1>4, CadenceFacts
<1> HIDE DEF cal
<1>6. cal.next \in Int /\ cal.next >= 0 /\ cal.ndate \in Dates \cup {None}
  BY <1>1, <1>5 DEF Calendars
<1>7. row \in Rows
  BY <1>1, <1>2, <1>6 DEF Rows
<1>8. /\ row.status = "kept" /\ row.phase = "none" /\ row.due = None /\ row.pdate = None
      /\ row.next = cal.next /\ row.ndate = cal.ndate
  BY <1>2, <1>3 DEF Rows
<1> HIDE DEF row
<1>9. gone \in Rows /\ gone.status = "removed"
  BY <1>1, NoRowTyped DEF NoRow, Rows
<1> HIDE DEF gone
<1>10. CASE rows' = [rows EXCEPT ![s] = row]
  BY <1>1, <1>4, <1>5, <1>6, <1>7, <1>8, <1>10
<1>11. CASE \E o \in Schedules : Oldest(o) /\ rows' = [rows EXCEPT ![s] = row, ![o] = gone]
  <2>1. PICK o \in Schedules : Oldest(o) /\ rows' = [rows EXCEPT ![s] = row, ![o] = gone]
    BY <1>11
  <2>2. Kept(o) /\ ~Pending(rows[o]) /\ o # s
    BY <2>1, <1>4 DEF Oldest, Removable, Kept
  <2>3. /\ rows' \in [Schedules -> Rows] /\ rows'[s] = row /\ rows'[o] = gone
        /\ \A p \in Schedules : p # s /\ p # o => rows'[p] = rows[p]
    BY <2>1, <2>2, <1>1, <1>7, <1>9
  <2>4. QED
    BY <2>2, <2>3, <1>4, <1>5, <1>6, <1>8 DEF gone
<1>12. QED
  BY <1>4, <1>10, <1>11 DEF CreateWakeSchedule, gone

(* A cancellation changes nothing else of any row.                         *)
LEMMA CancelEffect ==
  ASSUME TypeOK, NEW s \in Schedules, RequestCancel(s)
  PROVE  /\ rows' \in [Schedules -> Rows]
         /\ \A o \in Schedules :
              /\ rows'[o].status = rows[o].status /\ rows'[o].due = rows[o].due
              /\ rows'[o].pdate = rows[o].pdate /\ rows'[o].phase = rows[o].phase
              /\ rows'[o].next = rows[o].next /\ rows'[o].ndate = rows[o].ndate
<1>1. rows \in [Schedules -> Rows] /\ now \in Times /\ rows' = Cancelled(rows, s, now)
  BY DEF TypeOK, RequestCancel
<1>2. /\ rows' \in [Schedules -> Rows]
      /\ \A o \in Schedules : o # s => rows'[o] = rows[o]
      /\ rows'[s].status = rows[s].status /\ rows'[s].due = rows[s].due
      /\ rows'[s].pdate = rows[s].pdate /\ rows'[s].phase = rows[s].phase
      /\ rows'[s].next = rows[s].next /\ rows'[s].ndate = rows[s].ndate
  BY <1>1, CancelledWrites
<1>3. QED
  BY <1>2

(* A wake is of a schedule or of the command line.                         *)
LEMMA WakeKinds ==
  ASSUME NEW w \in Wakes
  PROVE  /\ Scheduled(w) => w[1] \in Schedules /\ w[2] \in Times /\ w = <<w[1], w[2]>>
         /\ ~Scheduled(w) => w[2] \in 1..Clis /\ w = <<Cli, w[2]>>
<1>1. w \in (Schedules \X Times) \cup ({Cli} \X (1..Clis))
  BY DEF Wakes, ScheduledWakes, CliWakes
<1>2. CASE w \in Schedules \X Times
  BY <1>2, WakesAssumption DEF Scheduled, Cli
<1>3. CASE w \in {Cli} \X (1..Clis)
  BY <1>3 DEF Scheduled
<1>4. QED
  BY <1>1, <1>2, <1>3

(* The wake in hand inside deliver_frozen_wake.                            *)
LEMMA InHandFacts ==
  ASSUME TypeOK, Control, Occurrence, pc \in Delivering
  PROVE  /\ wake \in Wakes
         /\ Scheduled(wake) => /\ wake[1] \in Schedules /\ wake[1] \in todo /\ wake[2] \in Times
                               /\ wake = Key(wake[1], rows[wake[1]])
         /\ ~Scheduled(wake) => /\ wake[2] \in 1..Clis /\ wake[2] \in page /\ wake = <<Cli, wake[2]>>
<1>1. wake \in Wakes
  BY DEF Control
<1>2. CASE Scheduled(wake)
  BY <1>1, <1>2, WakeKinds DEF Control, Occurrence, Key
<1>3. CASE ~Scheduled(wake)
  BY <1>1, <1>3, WakeKinds DEF Control
<1>4. QED
  BY <1>1, <1>2, <1>3

(* The schedule in hand when the mutex is taken to act.                    *)
LEMMA AtCommit ==
  ASSUME TypeOK, Control, Look, pc = "commit"
  PROVE  /\ wake[1] \in Schedules /\ wake[1] \in todo /\ wake = <<wake[1], snap[wake[1]].due>>
         /\ look.cal \in Calendars /\ look.ends \in Phases /\ snap[wake[1]] \in Rows
         /\ rows[wake[1]] \in Rows /\ ~InHand(wake[1])
<1>1. Scheduled(wake) /\ wake[1] \in todo /\ todo \subseteq Schedules
  BY DEF Control, TypeOK
<1>2. wake \in (Schedules \X Int) \cup ({Cli} \X (1..Clis)) \cup {<<"none", 0>>}
  BY DEF TypeOK, CliWakes, NoWake
<1>3. wake = <<wake[1], wake[2]>>
  BY <1>2
<1>4. look.cal \in Calendars /\ look.ends \in Phases
  BY DEF TypeOK
<1>5. QED
  BY <1>1, <1>3, <1>4 DEF TypeOK, Look, InHand, Delivering

LEMMA EndEffect ==
  ASSUME TypeOK, Control, Clocks, Table, Dating, Snapshot, Look, Calendar, Occurrence, Verdict,
         CommitEnds \/ CommitAdvances \/ CommitMissed \/ SettleSchedule,
         NEW s, s = wake[1]
  PROVE  /\ s \in Schedules /\ s \in todo /\ NextSchedule(s) /\ pc # "idle"
         /\ UNCHANGED <<clocks, cli, delivery, posted, left, frozen>>
         /\ rows' \in [Schedules -> Rows]
         /\ \A o \in Schedules : o # s => rows'[o] = rows[o]
         /\ rows'[s].status = rows[s].status /\ rows'[s].due = rows[s].due
         /\ rows'[s].pdate = rows[s].pdate
         /\ rows'[s].next >= 0 /\ (rows[s].due # None => rows[s].due < rows'[s].next)
         /\ rows'[s].ndate # None => Epoch(rows'[s].next, rows'[s].ndate)
         /\ s \notin AtSchedules => rows'[s].ndate = None
         /\ \/ rows'[s].phase = rows[s].phase
            \/ Pending(rows[s]) /\ rows'[s].phase # "none" /\ Truth(rows'[s].phase, Key(s, rows[s]))
<1> DEFINE Goal == 
         /\ rows' \in [Schedules -> Rows]
         /\ \A o \in Schedules : o # s => rows'[o] = rows[o]
         /\ rows'[s].status = rows[s].status /\ rows'[s].due = rows[s].due
         /\ rows'[s].pdate = rows[s].pdate
         /\ rows'[s].next >= 0 /\ (rows[s].due # None => rows[s].due < rows'[s].next)
         /\ rows'[s].ndate # None => Epoch(rows'[s].next, rows'[s].ndate)
         /\ s \notin AtSchedules => rows'[s].ndate = None
         /\ \/ rows'[s].phase = rows[s].phase
            \/ Pending(rows[s]) /\ rows'[s].phase # "none" /\ Truth(rows'[s].phase, Key(s, rows[s]))
<1>1. /\ rows \in [Schedules -> Rows] /\ at \in Times /\ at \in Int /\ zone \in Zones
      /\ look.cal \in Calendars /\ look.ends \in Phases
  BY DEF TypeOK, Times
<1>2. /\ look.cal.next \in Int /\ look.cal.ndate \in Dates \cup {None}
  BY <1>1 DEF Calendars
<1>3. ASSUME NEW R \in [Schedules -> Rows], s \in Schedules, NEW due \in Int,
             NEW phase \in Phases, NEW next \in Int, NEW ndate \in Dates \cup {None},
             rows' = Settled(R, s, due, phase, next, ndate),
             \A o \in Schedules : o # s => R[o] = rows[o],
             R[s].status = rows[s].status, R[s].due = rows[s].due, R[s].pdate = rows[s].pdate,
             R[s].phase = rows[s].phase, R[s].next = rows[s].next, R[s].ndate = rows[s].ndate,
             phase \in Terminal /\ ndate # None => Epoch(next, ndate),
             s \notin AtSchedules => ndate = None,
             phase # "none",
             rows[s].due = due => Truth(phase, Key(s, rows[s]))
      PROVE  Goal
  <2>1. /\ rows' \in [Schedules -> Rows]
        /\ \A o \in Schedules : o # s => rows'[o] = rows[o]
        /\ rows'[s].status = rows[s].status /\ rows'[s].due = rows[s].due
        /\ rows'[s].pdate = rows[s].pdate
        /\ \/ rows'[s].phase = rows[s].phase
           \/ rows[s].due = due /\ Pending(R[s]) /\ rows'[s].phase = phase
        /\ \/ rows'[s].next = rows[s].next /\ rows'[s].ndate = rows[s].ndate
           \/ /\ rows[s].due = due /\ phase \in Terminal
              /\ next > due /\ next >= rows[s].next /\ rows'[s].next = next /\ rows'[s].ndate = ndate
    BY <1>3, SettledWrites
  <2>2. Pending(R[s]) => Pending(rows[s])
    BY <1>3 DEF Pending
  <2>3. rows[s].next \in Int /\ rows[s].due \in Int
    BY <1>1, <1>3 DEF Rows
  <2>4. /\ rows[s].next >= 0 /\ (rows[s].due # None => rows[s].due < rows[s].next)
        /\ rows[s].ndate # None => Epoch(rows[s].next, rows[s].ndate)
        /\ s \notin AtSchedules => rows[s].ndate = None
    BY <1>3 DEF Table, Dating
  <2>5. QED
    BY <1>3, <2>1, <2>2, <2>3, <2>4
<1>4. CASE CommitEnds
  <2>1. pc = "commit" /\ NextSchedule(s) /\ UNCHANGED <<clocks, cli, delivery, posted, left, frozen>>
    BY <1>4 DEF CommitEnds
  <2>2. /\ s \in Schedules /\ s \in todo /\ wake = <<s, snap[s].due>>
        /\ snap[s] \in Rows /\ ~InHand(s)
    BY <2>1, AtCommit
  <2> DEFINE next == IF look.cal.next > snap[s].next THEN look.cal.next ELSE snap[s].next
             R == IF look.closed THEN Cancelled(rows, s, at) ELSE rows
  <2>3. rows' = IF look.ends = "none" THEN R
                ELSE Settled(R, s, snap[s].due, look.ends, next, look.cal.ndate)
    BY <1>4 DEF CommitEnds
  <2>4. /\ R \in [Schedules -> Rows]
        /\ \A o \in Schedules : o # s => R[o] = rows[o]
        /\ R[s].status = rows[s].status /\ R[s].due = rows[s].due /\ R[s].pdate = rows[s].pdate
        /\ R[s].phase = rows[s].phase /\ R[s].next = rows[s].next /\ R[s].ndate = rows[s].ndate
    BY <1>1, <2>2, CancelledWrites
  <2> HIDE DEF R
  <2>5. CASE look.ends = "none"
    BY <2>1, <2>2, <2>3, <2>4, <2>5 DEF Table, Dating
  <2>6. CASE look.ends # "none"
    <3>1. look.cal.next >= snap[s].next /\ Truth(look.ends, wake)
      BY <2>1, <2>6 DEF Look
    <3>2. snap[s].next \in Int /\ snap[s].due \in Int
      BY <2>2 DEF Rows
    <3>3. next = look.cal.next
      BY <1>2, <3>1, <3>2
    <3> HIDE DEF next
    <3>4. /\ look.cal.ndate # None => Epoch(look.cal.next, look.cal.ndate)
          /\ s \notin AtSchedules => look.cal.ndate = None
      BY <2>1 DEF Calendar, Control
    <3>5. rows[s].due = snap[s].due => Truth(look.ends, Key(s, rows[s]))
      BY <2>2, <3>1 DEF Key
    <3>6. Goal
      BY <1>1, <1>2, <1>3, <2>2, <2>3, <2>4, <2>6, <3>2, <3>3, <3>4, <3>5
    <3>7. QED
      BY <2>1, <2>2, <3>6
  <2>7. QED
    BY <2>5, <2>6
<1>5. CASE CommitAdvances
  <2>1. pc = "commit" /\ NextSchedule(s) /\ UNCHANGED <<clocks, cli, delivery, posted, left, frozen>>
    BY <1>5 DEF CommitAdvances
  <2>2. s \in Schedules /\ s \in todo
    BY <2>1, AtCommit
  <2>3. CASE UNCHANGED rows
    BY <1>1, <2>1, <2>2, <2>3 DEF Table, Dating
  <2>4. CASE AdvanceWakeCalendar(s, snap[s], look.cal, at)
    <3>1. /\ rows' \in [Schedules -> Rows]
          /\ \A o \in Schedules : o # s => rows'[o] = rows[o]
          /\ rows'[s].status = rows[s].status /\ rows'[s].due = rows[s].due
          /\ rows'[s].pdate = rows[s].pdate /\ rows'[s].phase = rows[s].phase
          /\ \/ rows'[s].next = rows[s].next /\ rows'[s].ndate = rows[s].ndate
             \/ look.cal.next > at /\ rows'[s].next = look.cal.next /\ rows'[s].ndate = look.cal.ndate
      BY <1>1, <2>2, <2>4, AdvanceWrites
    <3>2. /\ look.cal.ndate # None => Epoch(look.cal.next, look.cal.ndate)
          /\ s \notin AtSchedules => look.cal.ndate = None
      BY <2>1 DEF Calendar, Control
    <3>3. rows[s].due \in Int /\ rows[s].due <= at /\ at >= 0 /\ rows[s].next \in Int
      BY <1>1, <2>1, <2>2 DEF Clocks, Rows, Times
    <3>4. QED
      BY <1>1, <1>2, <2>1, <2>2, <3>1, <3>2, <3>3 DEF Table, Dating
  <2>5. QED
    BY <1>5, <2>3, <2>4 DEF CommitAdvances
<1>6. CASE CommitMissed
  <2>1. /\ pc = "missed" /\ NextSchedule(s) /\ UNCHANGED <<clocks, cli, delivery, posted, left, frozen>>
        /\ rows' = Settled(rows, s, wake[2], "missed_before_departure", look.cal.next, look.cal.ndate)
    BY <1>6 DEF CommitMissed
  <2>2. pc \in Delivering /\ Scheduled(wake)
    BY <2>1 DEF Control, Delivering
  <2>3. s \in Schedules /\ s \in todo /\ wake[2] \in Times /\ wake = Key(s, rows[s])
    BY <2>2, InHandFacts
  <2>4. Truth("missed_before_departure", wake)
    BY <2>1 DEF Truth, Verdict
  <2>5. /\ look.cal.ndate # None => Epoch(look.cal.next, look.cal.ndate)
        /\ s \notin AtSchedules => look.cal.ndate = None
    BY <2>2 DEF Calendar
  <2>6. wake[2] \in Int /\ "missed_before_departure" \in Phases
    BY <2>3 DEF Times, Phases, Terminal
  <2>7. Goal
    BY <1>1, <1>2, <1>3, <2>1, <2>3, <2>4, <2>5, <2>6
  <2>8. QED
    BY <2>1, <2>3, <2>7
<1>7. CASE SettleSchedule
  <2> DEFINE jumps == verdict \in Terminal /\ snap[s].next <= at
             cal == IF jumps THEN CalculateCadence(s, snap[s], at, zone) ELSE look.cal
             next == IF cal.next > snap[s].next THEN cal.next ELSE snap[s].next
  <2>1. /\ pc = "settle" /\ Scheduled(wake) /\ NextSchedule(s)
        /\ UNCHANGED <<clocks, cli, delivery, posted, left, frozen>>
        /\ rows' = IF verdict = "error" \/ (jumps /\ ~CalendarAvailable(s, snap[s], at, zone)) THEN rows
                   ELSE Settled(rows, s, wake[2], verdict, next, cal.ndate)
    BY <1>7 DEF SettleSchedule
  <2>2. pc \in Delivering
    BY <2>1 DEF Delivering
  <2>3. s \in Schedules /\ s \in todo /\ wake[2] \in Times /\ wake = Key(s, rows[s])
    BY <2>1, <2>2, InHandFacts
  <2>4. /\ snap[s] \in Rows /\ snap[s].next \in Int /\ snap[s].next >= 0
        /\ snap[s].ndate # None => Epoch(snap[s].next, snap[s].ndate)
    BY <2>3 DEF TypeOK, Rows, Snapshot
  <2>5. CASE rows' = rows
    BY <1>1, <2>1, <2>3, <2>5 DEF Table, Dating
  <2>6. CASE ~(verdict = "error" \/ (jumps /\ ~CalendarAvailable(s, snap[s], at, zone)))
    <3>1. /\ cal \in Calendars /\ cal.next \in Int /\ cal.ndate \in Dates \cup {None}
          /\ cal.ndate # None => Epoch(cal.next, cal.ndate)
          /\ s \notin AtSchedules => cal.ndate = None
          /\ verdict \in Terminal => next = cal.next
      <4>1. CASE jumps
        <5>1. CalendarAvailable(s, snap[s], at, zone) /\ cal = CalculateCadence(s, snap[s], at, zone)
          BY <4>1, <2>6
        <5> HIDE DEF cal
        <5>2. /\ cal \in Calendars /\ cal.next > at
              /\ cal.ndate # None => Epoch(cal.next, cal.ndate)
              /\ s \notin AtSchedules => cal.ndate = None
          BY <1>1, <2>3, <2>4, <5>1, CadenceFacts
        <5>3. cal.next \in Int /\ cal.ndate \in Dates \cup {None}
          BY <5>2 DEF Calendars
        <5>4. QED
          BY <1>1, <2>4, <4>1, <5>2, <5>3
      <4>2. CASE ~jumps
        <5>1. cal = look.cal
          BY <4>2
        <5>2. /\ look.cal.ndate # None => Epoch(look.cal.next, look.cal.ndate)
              /\ s \notin AtSchedules => look.cal.ndate = None
              /\ snap[s].next > at => look.cal.next = snap[s].next
          BY <2>1, <2>2 DEF Calendar
        <5>3. verdict \in Terminal => snap[s].next > at
          BY <1>1, <2>4, <4>2
        <5> HIDE DEF cal
        <5>4. QED
          BY <1>1, <1>2, <2>4, <5>1, <5>2, <5>3
      <4>3. QED
        BY <4>1, <4>2
    <3>2. next \in Int
      BY <2>4, <3>1
    <3>3. rows' = Settled(rows, s, wake[2], verdict, next, cal.ndate)
      BY <2>1, <2>6
    <3> HIDE DEF cal, next
    <3>4. verdict \in Phases /\ wake[2] \in Int
      BY <2>3, <2>6 DEF TypeOK, Times
    <3>5. verdict # "none" /\ Truth(verdict, wake)
      BY <2>1 DEF Verdict
    <3>6. Goal
      BY <1>1, <1>3, <2>3, <3>1, <3>2, <3>3, <3>4, <3>5
    <3>7. QED
      BY <2>1, <2>3, <3>6
  <2>7. QED
    BY <2>1, <2>5, <2>6
<1>8. QED
  BY <1>4, <1>5, <1>6, <1>7

(* The last occurrence of a row is a wake.                                 *)
LEMMA KeyTyped ==
  ASSUME TypeOK, Clocks, Table, NEW s \in Schedules, rows[s].due # None
  PROVE  Key(s, rows[s]) \in Wakes /\ rows[s].due \in Times
<1>1. rows[s].due \in Int /\ rows[s].due >= 0 /\ rows[s].due <= now /\ now \in 0..MaxTime
  BY DEF TypeOK, Rows, Table, Clocks, Times
<1>2. rows[s].due \in Times
  BY <1>1, WakesAssumption DEF Times
<1>3. QED
  BY <1>2 DEF Key, Wakes, ScheduledWakes

(* A schedule and a due make a scheduled wake.                             *)
LEMMA ScheduledWake ==
  ASSUME NEW s \in Schedules, NEW t
  PROVE  /\ Scheduled(<<s, t>>) /\ <<s, t>>[1] = s /\ <<s, t>>[2] = t
         /\ ToThread(<<s, t>>) <=> s \in ThreadSchedules
  BY WakesAssumption DEF Scheduled, ToThread, Cli

(* An index makes a one-shot wake.                                         *)
LEMMA CliWake ==
  ASSUME NEW c \in 1..Clis
  PROVE  <<Cli, c>> \in Wakes /\ ~Scheduled(<<Cli, c>>) /\ <<Cli, c>>[2] = c
  BY DEF Scheduled, Wakes, CliWakes

(* The freeze: the due is later than all frozen before, the date is not    *)
(* the one taken last, and nothing has left under the new wake.            *)
LEMMA FreezeEffect ==
  ASSUME TypeOK, Control, Clocks, Table, Dating, Taken, Snapshot, Look, Calendar, Departures,
         NEW dormant \in BOOLEAN, CommitFreezes(dormant), NEW s, s = wake[1]
  PROVE  /\ pc = "commit" /\ s \in Schedules /\ s \in todo /\ Kept(s) /\ ~Pending(rows[s])
         /\ wake' = <<s, look.cal.due>> /\ wake' \in Wakes /\ Scheduled(wake')
         /\ rows[s].due < look.cal.due /\ look.cal.due <= at /\ look.cal.due \in Times
         /\ delivery[wake'] = "none" /\ wake' \notin posted /\ left[wake'] = 0 /\ posted' = posted
         /\ pc' = IF dormant THEN "missed" ELSE "guards"
         /\ UNCHANGED <<clocks, cli, delivery, left, reading, look, verdict>>
         /\ rows' \in [Schedules -> Rows]
         /\ \A o \in Schedules : o # s => rows'[o] = rows[o]
         /\ rows'[s].status = "kept" /\ rows'[s].due = look.cal.due /\ rows'[s].phase = "prepared"
         /\ rows'[s].next = look.cal.next /\ rows'[s].ndate = look.cal.ndate
         /\ look.cal.due < look.cal.next
         /\ s \notin AtSchedules => rows'[s].pdate = None /\ rows'[s].ndate = None
         /\ rows'[s].pdate # None => Epoch(rows'[s].due, rows'[s].pdate)
         /\ look.cal.date # None => rows'[s].pdate = look.cal.date
         /\ frozen' = [frozen EXCEPT ![s] = @ \cup {[due |-> look.cal.due, date |-> look.cal.date]}]
         /\ \A o \in frozen[s] : o.due < look.cal.due
         /\ s \in AtSchedules => rows'[s].pdate # rows[s].pdate
         /\ Near => \A o \in frozen[s] :
                      o.date # None => rows'[s].pdate # None /\ o.date < rows'[s].pdate
         /\ snap[s].next <= at
<1> DEFINE w == <<s, look.cal.due>>
<1>1. /\ pc = "commit" /\ wake' = w /\ pc' = IF dormant THEN "missed" ELSE "guards"
      /\ UNCHANGED <<clocks, cli, delivery, left, reading, look, verdict>>
      /\ frozen' = [frozen EXCEPT ![s] = @ \cup {[due |-> look.cal.due, date |-> look.cal.date]}]
      /\ FreezeWakeOccurrence(s, snap[s], look.cal) /\ look.cal.due # None
      /\ posted' = posted \ {w}
  BY DEF CommitFreezes
<1>2. s \in Schedules /\ s \in todo /\ snap[s] \in Rows /\ ~InHand(s) /\ look.cal \in Calendars
  BY <1>1, AtCommit
<1>3. /\ rows \in [Schedules -> Rows] /\ at \in Int /\ at <= MaxTime
      /\ rows[s].due \in Int /\ rows[s].next \in Int
  BY <1>2 DEF TypeOK, Times, Rows
<1>4. /\ rows' \in [Schedules -> Rows]
      /\ \A o \in Schedules : o # s => rows'[o] = rows[o]
      /\ Kept(s) /\ rows[s].next = snap[s].next /\ ~Pending(rows[s])
      /\ snap[s].next <= look.cal.due /\ look.cal.due < look.cal.next
      /\ rows'[s].status = "kept" /\ rows'[s].due = look.cal.due /\ rows'[s].phase = "prepared"
      /\ rows'[s].next = look.cal.next /\ rows'[s].ndate = look.cal.ndate
      /\ rows'[s].pdate = IF look.cal.date = None THEN rows[s].pdate ELSE look.cal.date
  BY <1>1, <1>2, <1>3, FreezeWrites
<1>5. look.cal.due \in Int /\ look.cal.date \in Dates \cup {None} /\ look.cal.next \in Int
  BY <1>2 DEF Calendars
<1>6. /\ look.cal.due <= at /\ snap[s].next <= at
      /\ s \in AtSchedules => look.cal.date # None
      /\ look.cal.date # None => look.cal.date # snap[s].pdate /\ Epoch(look.cal.due, look.cal.date)
  BY <1>1 DEF Look
<1>7. /\ rows[s].next >= 0 /\ (rows[s].due # None => rows[s].due < rows[s].next)
  BY <1>2 DEF Table
<1>8. rows[s].due < look.cal.due /\ look.cal.due >= 0
  BY <1>3, <1>4, <1>5, <1>7 DEF None
<1>9. look.cal.due \in Times
  BY <1>3, <1>5, <1>6, <1>8, WakesAssumption DEF Times
<1>10. w \in Wakes /\ Scheduled(w) /\ w[1] = s /\ w[2] = look.cal.due
  BY <1>2, <1>9, ScheduledWake DEF Wakes, ScheduledWakes
<1>11. delivery[w] = "none" /\ w \notin posted /\ left[w] = 0
  BY <1>3, <1>4, <1>5, <1>8, <1>10 DEF Departures
<1>12. posted' = posted
  BY <1>1, <1>11
<1>13. s \notin AtSchedules => rows'[s].pdate = None /\ rows'[s].ndate = None
  BY <1>1, <1>2, <1>4 DEF Calendar, Control, Dating
<1>14. rows'[s].pdate # None => Epoch(rows'[s].due, rows'[s].pdate) /\ rows'[s].pdate = look.cal.date
  BY <1>4, <1>6, <1>13
<1>15. \A o \in frozen[s] : o.due < look.cal.due
  <2>1. \A o \in frozen[s] : o.due \in Int /\ o.due <= rows[s].due
    BY <1>2, <1>4 DEF Taken, TypeOK
  <2>2. QED
    BY <2>1, <1>3, <1>5, <1>8
<1>16. ASSUME Near, NEW o \in frozen[s], o.date # None
       PROVE  rows'[s].pdate # None /\ o.date < rows'[s].pdate
  <2>1. o.date \in Dates \cup {None} /\ rows[s].pdate \in Dates \cup {None}
    BY <1>2, <1>3 DEF TypeOK, Rows
  <2>2. rows[s].pdate # None /\ o.date <= rows[s].pdate
    BY <1>2, <1>4, <1>16 DEF Taken
  <2>3. s \in AtSchedules /\ Epoch(rows[s].due, rows[s].pdate)
    BY <1>2, <2>2 DEF Dating
  <2>4. look.cal.date # None /\ look.cal.date \in Dates /\ rows[s].pdate \in Dates
    BY <1>5, <1>6, <2>1, <2>2, <2>3
  <2>5. rows[s].pdate <= look.cal.date
    BY <1>3, <1>5, <1>6, <1>8, <1>16, <2>3, <2>4, EpochsOrdered
  <2>6. rows[s].pdate = snap[s].pdate
    BY <1>2, <1>4 DEF Snapshot
  <2>7. o.date \in Int /\ rows[s].pdate \in Int /\ look.cal.date \in Int
    BY <2>1, <2>4, <1>16 DEF Dates
  <2>8. QED
    BY <1>4, <1>6, <2>2, <2>4, <2>5, <2>6, <2>7
<1>17. look.cal.date # None => rows'[s].pdate = look.cal.date
  BY <1>4
<1>18. s \in AtSchedules => rows'[s].pdate # rows[s].pdate
  <2>1. rows[s].pdate = snap[s].pdate
    BY <1>2, <1>4 DEF Snapshot
  <2>2. QED
    BY <1>6, <1>17, <2>1
<1>19. QED
  BY <1>1, <1>2, <1>4, <1>6, <1>8, <1>9, <1>10, <1>11, <1>12, <1>13, <1>14, <1>15, <1>16, <1>17,
     <1>18

(* The phase a cancelled or orphaned occurrence ends in is true.           *)
LEMMA EndPhaseFacts ==
  ASSUME TypeOK, Departures, NEW s \in Schedules, NEW r, NEW closed
  PROVE  /\ EndPhase(s, r, closed) \in {"none", "committed_thread", "confirmed", "outcome_unknown",
                                        "owner_unavailable"}
         /\ EndPhase(s, r, closed) # "none" => Pending(r)
         /\ Truth(EndPhase(s, r, closed), <<s, r.due>>)
<1> DEFINE w == <<s, r.due>>
<1>1. w \in posted => s \in ThreadSchedules
  BY ScheduledWake DEF TypeOK, Departures
<1>2. Key(s, r) = w
  BY DEF Key
<1> HIDE DEF w
<1>3. /\ EndPhase(s, r, closed) \in {"none", "committed_thread", "confirmed", "outcome_unknown",
                                        "owner_unavailable"}
      /\ EndPhase(s, r, closed) # "none" => Pending(r)
      /\ Truth(EndPhase(s, r, closed), w)
  BY <1>1, <1>2 DEF EndPhase, Truth
<1>4. QED
  BY <1>3 DEF w

(* So is what the first hold of the mutex finds; where it finds nothing,   *)
(* nothing has left.                                                       *)
LEMMA ProvenFacts ==
  ASSUME TypeOK, Departures, NEW w \in Wakes
  PROVE  /\ Proven(w) \in Phases \ {"prepared", "deferred"}
         /\ Truth(Proven(w), w)
         /\ Proven(w) = "none" => delivery[w] = "none" /\ w \notin posted
<1>1. w \in posted => ToThread(w)
  BY DEF Departures
<1>2. delivery[w] \in {"none", "dispatching", "acked", "unknown"}
  BY DEF TypeOK
<1>3. QED
  BY <1>1, <1>2 DEF Proven, Truth, Phases, Terminal, Unsettled

(* What the tick reads of a schedule.                                      *)
LEMMA LookEffect ==
  ASSUME TypeOK, Snapshot, Departures, NEW s \in Schedules, LookAtSchedule(s)
  PROVE  /\ pc = "schedules" /\ s \in todo /\ UNCHANGED <<clocks, stores>>
         /\ \/ NextSchedule(s)
            \/ /\ pc' = "commit" /\ wake' = <<s, snap[s].due>> /\ UNCHANGED <<reading, verdict>>
               /\ look' \in [closed : BOOLEAN, ends : Phases, cal : Calendars]
               /\ look'.ends \in {"none", "committed_thread", "confirmed", "outcome_unknown",
                                  "owner_unavailable"}
               /\ Truth(look'.ends, <<s, snap[s].due>>)
               /\ look'.ends # "none" => Pending(snap[s]) /\ look'.cal.next >= snap[s].next
               /\ look'.cal.due # None => /\ look'.cal.due <= at /\ snap[s].next <= at
                                          /\ s \in AtSchedules => look'.cal.date # None
               /\ look'.cal.date # None => /\ look'.cal.date # snap[s].pdate
                                           /\ Epoch(look'.cal.due, look'.cal.date)
               /\ Pending(snap[s]) /\ look'.ends = "none" => look'.cal.next = snap[s].next
               /\ look'.cal.ndate # None => Epoch(look'.cal.next, look'.cal.ndate)
               /\ s \notin AtSchedules => look'.cal.ndate = None /\ look'.cal.date = None
<1> DEFINE r == snap[s]
           ends == EndPhase(s, r, ~ownerLives)
           due == (~Pending(r) /\ (r.next <= at \/ r.tz # zone)) \/ (ends # "none" /\ r.next <= at)
           cal == IF due THEN CalculateCadence(s, r, at, zone)
                  ELSE [next |-> r.next, due |-> None, date |-> None, ndate |-> r.ndate, tz |-> zone]
<1>1. pc = "schedules" /\ s \in todo /\ UNCHANGED <<clocks, stores>>
  BY DEF LookAtSchedule
<1>2. CASE NextSchedule(s)
  BY <1>1, <1>2
<1>3. CASE ~NextSchedule(s)
  <2>1. /\ ~(due /\ ~CalendarAvailable(s, r, at, zone))
        /\ pc' = "commit" /\ wake' = <<s, r.due>> /\ UNCHANGED <<reading, verdict>>
        /\ look' = [closed |-> ~ownerLives, ends |-> ends, cal |-> cal]
    BY <1>3 DEF LookAtSchedule
  <2>2. /\ r \in Rows /\ r.next \in Int /\ r.next >= 0 /\ at \in Times /\ at \in Int /\ zone \in Zones
        /\ ownerLives \in BOOLEAN /\ r.ndate \in Dates \cup {None}
        /\ r.ndate # None => Epoch(r.next, r.ndate)
        /\ s \notin AtSchedules => r.ndate = None
    <3>1. r \in Rows /\ at \in Times /\ zone \in Zones /\ ownerLives \in BOOLEAN
      BY DEF TypeOK
    <3>2. /\ r.next >= 0 /\ (r.ndate # None => Epoch(r.next, r.ndate))
          /\ s \notin AtSchedules => r.ndate = None
      BY <1>1 DEF Snapshot
    <3>3. r.next \in Int /\ r.ndate \in Dates \cup {None}
      BY <3>1 DEF Rows
    <3>4. QED
      BY <3>1, <3>2, <3>3 DEF Times
  <2>3. /\ ends \in {"none", "committed_thread", "confirmed", "outcome_unknown", "owner_unavailable"}
        /\ ends # "none" => Pending(r)
        /\ Truth(ends, <<s, r.due>>)
    BY EndPhaseFacts
  <2> HIDE DEF ends, r
  <2>4. /\ cal \in Calendars
        /\ ends # "none" => cal.next >= r.next
        /\ cal.due # None => cal.due <= at /\ r.next <= at /\ (s \in AtSchedules => cal.date # None)
        /\ cal.date # None => cal.date # r.pdate /\ Epoch(cal.due, cal.date)
        /\ Pending(r) /\ ends = "none" => cal.next = r.next
        /\ cal.ndate # None => Epoch(cal.next, cal.ndate)
        /\ s \notin AtSchedules => cal.ndate = None /\ cal.date = None
    <3>1. CASE due
      <4>1. CalendarAvailable(s, r, at, zone) /\ cal = CalculateCadence(s, r, at, zone)
        BY <3>1, <2>1
      <4>2. /\ cal \in Calendars /\ cal.next > at
            /\ cal.ndate # None => Epoch(cal.next, cal.ndate)
            /\ s \notin AtSchedules => cal.ndate = None /\ cal.date = None
            /\ cal.due # None => /\ cal.due <= at /\ r.next <= at
                                 /\ s \in AtSchedules => cal.date # None
            /\ cal.date # None => cal.date # r.pdate /\ Epoch(cal.due, cal.date)
        BY <2>2, <4>1, CadenceFacts
      <4>3. (ends # "none" => r.next <= at) /\ (ends = "none" => ~Pending(r))
        BY <3>1, <2>3
      <4> HIDE DEF cal
      <4>4. cal.next \in Int
        BY <4>2 DEF Calendars
      <4>5. QED
        BY <2>2, <4>2, <4>3, <4>4
    <3>2. CASE ~due
      <4>1. cal = [next |-> r.next, due |-> None, date |-> None, ndate |-> r.ndate, tz |-> zone]
        BY <3>2
      <4> HIDE DEF cal
      <4>2. cal.next = r.next /\ cal.due = None /\ cal.date = None /\ cal.ndate = r.ndate
        BY <4>1
      <4>3. cal \in Calendars
        BY <2>2, <4>1 DEF Calendars, None
      <4>4. QED
        BY <2>2, <4>2, <4>3
    <3>3. QED
      BY <3>1, <3>2
  <2> HIDE DEF cal, due
  <2>5. look'.ends = ends /\ look'.cal = cal
    BY <2>1
  <2>6. look' \in [closed : BOOLEAN, ends : Phases, cal : Calendars]
    BY <2>1, <2>2, <2>3, <2>4 DEF Phases, Terminal
  <2>7. QED
    BY <1>1, <2>1, <2>3, <2>4, <2>5, <2>6 DEF r
<1>4. QED
  BY <1>2, <1>3

-----------------------------------------------------------------------------
(* Groups of steps, and the parts of the invariant one by one.             *)

(* The steps that end the work on a schedule, and those that refuse a      *)
(* departure.                                                              *)
Ends == CommitEnds \/ CommitAdvances \/ CommitMissed \/ SettleSchedule
Refused == \/ GuardsFindCancelled \/ GuardsDefer \/ GuardsMiss \/ PostFails \/ DepartRefused
           \/ \E gone \in BOOLEAN : GuardsFail(gone)

(* A refusal concludes with a phase that is true: nothing has left.        *)
LEMMA RefusedEffect ==
  ASSUME TypeOK, Control, Verdict, Departures, Refused
  PROVE  /\ pc \in {"guards", "post", "depart"} /\ pc' = "settle"
         /\ UNCHANGED <<clocks, stores, reading, wake, look>>
         /\ verdict' \in (Phases \cup {"error"}) \ {"none", "prepared"}
         /\ Truth(verdict', wake)
<1>1. ASSUME pc \in {"guards", "post", "depart"}
      PROVE  wake \in Wakes
  BY <1>1 DEF Control, Delivering
<1>2. pc = "guards" /\ Proven(wake) = "none" => delivery[wake] = "none" /\ wake \notin posted
  BY <1>1, ProvenFacts
<1> USE DEF Concludes, Truth, Phases, Terminal, Unsettled
<1>3. CASE GuardsFindCancelled
  BY <1>2, <1>3 DEF GuardsFindCancelled
<1>4. CASE GuardsDefer
  BY <1>2, <1>4 DEF GuardsDefer
<1>5. CASE GuardsMiss
  BY <1>2, <1>5 DEF GuardsMiss
<1>6. CASE PostFails
  BY <1>6 DEF PostFails, Verdict
<1>7. CASE DepartRefused
  BY <1>7 DEF DepartRefused
<1>8. ASSUME NEW gone \in BOOLEAN, GuardsFail(gone)
      PROVE  /\ pc = "guards" /\ pc' = "settle"
             /\ UNCHANGED <<clocks, stores, reading, wake, look>>
             /\ verdict' \in (Phases \cup {"error"}) \ {"none", "prepared"}
             /\ Truth(verdict', wake)
  BY <1>2, <1>8 DEF GuardsFail
<1>9. QED
  BY <1>3, <1>4, <1>5, <1>6, <1>7, <1>8 DEF Refused

(* Requests, reports and the surroundings leave the tick alone.            *)
LEMMA OutsideTick ==
  ASSUME Requests \/ Surroundings
  PROVE  UNCHANGED tick
  BY DEF Requests, Surroundings, RequestSchedule, RequestCancel, RequestCliOnce, Acknowledged,
         BecomesUnknown, PresencePurged, PauseChanges, OwnerChanges, TimePasses, ZoneChanges

(* The reports on what is under way.                                       *)
Purges == \E W \in SUBSET Dispatching : PresencePurged(W)
Reports == (\E w \in Wakes : Acknowledged(w) \/ BecomesUnknown(w)) \/ Purges

(* A purge closes what it takes: the delivery, and with it the record of a *)
(* one-shot wake.                                                          *)
LEMMA PurgeEffect ==
  ASSUME TypeOK, Purges
  PROVE  /\ MutexFree /\ UNCHANGED <<clocks, rows, posted, left, frozen, tick>>
         /\ delivery' \in [Wakes -> {"none", "dispatching", "acked", "unknown"}]
         /\ cli' \in [1..Clis -> CliRecords]
         /\ \A w \in Wakes : \/ delivery'[w] = delivery[w]
                             \/ delivery[w] = "dispatching" /\ delivery'[w] = "unknown"
         /\ \A c \in 1..Clis : \/ /\ cli'[c] = cli[c]
                                  /\ delivery'[<<Cli, c>>] = delivery[<<Cli, c>>]
                               \/ /\ cli'[c].state = "orphaned"
                                  /\ delivery'[<<Cli, c>>] = "unknown"
<1>1. PICK W \in SUBSET Dispatching : PresencePurged(W)
  BY DEF Purges
<1>2. /\ MutexFree /\ UNCHANGED <<clocks, rows, posted, left, frozen, tick>>
      /\ delivery' = [w \in Wakes |-> IF w \in W THEN "unknown" ELSE delivery[w]]
      /\ cli' = [c \in 1..Clis |-> IF <<Cli, c>> \in W THEN [cli[c] EXCEPT !.state = "orphaned"]
                                   ELSE cli[c]]
  BY <1>1 DEF PresencePurged
<1>3. \A w \in W : w \in Wakes /\ delivery[w] = "dispatching"
  BY DEF Dispatching
<1>4. ASSUME NEW c \in 1..Clis
      PROVE  /\ cli[c] \in CliRecords /\ [cli[c] EXCEPT !.state = "orphaned"] \in CliRecords
             /\ [cli[c] EXCEPT !.state = "orphaned"].state = "orphaned"
  BY DEF TypeOK, CliRecords, CliStates
<1>5. cli' \in [1..Clis -> CliRecords]
  BY <1>2, <1>4
<1>6. \A c \in 1..Clis : <<Cli, c>> \in Wakes
  BY CliWake
<1>7. delivery' \in [Wakes -> {"none", "dispatching", "acked", "unknown"}]
  BY <1>2 DEF TypeOK
<1>8. QED
  BY <1>2, <1>3, <1>4, <1>5, <1>6, <1>7

(* A report comes while the mutex is free, moves deliveries under way only *)
(* and touches neither the schedules nor the tick.                         *)
LEMMA ReportEffect ==
  ASSUME TypeOK, Reports
  PROVE  /\ MutexFree /\ UNCHANGED <<clocks, rows, posted, left, frozen, tick>>
         /\ \A w \in Wakes : \/ delivery'[w] = delivery[w]
                             \/ delivery[w] = "dispatching" /\ delivery'[w] \in {"acked", "unknown"}
<1>1. ASSUME NEW v \in Wakes, Acknowledged(v) \/ BecomesUnknown(v)
      PROVE  /\ MutexFree /\ UNCHANGED <<clocks, rows, posted, left, frozen, tick>>
             /\ delivery[v] = "dispatching"
             /\ \E p \in {"acked", "unknown"} : delivery' = [delivery EXCEPT ![v] = p]
  BY <1>1 DEF Acknowledged, BecomesUnknown
<1>2. ASSUME NEW v \in Wakes, Acknowledged(v) \/ BecomesUnknown(v), NEW w \in Wakes
      PROVE  \/ delivery'[w] = delivery[w]
             \/ delivery[w] = "dispatching" /\ delivery'[w] \in {"acked", "unknown"}
  BY <1>1, <1>2 DEF TypeOK
<1>3. CASE Purges
  BY <1>3, PurgeEffect
<1>4. QED
  BY <1>1, <1>2, <1>3 DEF Reports

(* The steps that write a row.                                             *)
LEMMA RowSteps ==
  ASSUME [Next]_vars
  PROVE  \/ UNCHANGED <<rows, frozen>>
         \/ \E s \in Schedules : RequestSchedule(s)
         \/ \E s \in Schedules : RequestCancel(s)
         \/ Ends
         \/ \E dormant \in BOOLEAN : CommitFreezes(dormant)
<1>1. ASSUME NEW s \in Schedules, LookAtSchedule(s) PROVE UNCHANGED <<rows, frozen>>
  BY <1>1 DEF LookAtSchedule, stores
<1>2. CASE Surroundings
  BY <1>2 DEF Surroundings, PauseChanges, OwnerChanges, TimePasses, ZoneChanges, stores
<1>3. ASSUME NEW c \in 1..Clis, RequestCliOnce(c) PROVE UNCHANGED <<rows, frozen>>
  BY <1>3 DEF RequestCliOnce
<1>4. CASE Reports
  BY <1>4 DEF Reports, Acknowledged, BecomesUnknown, Purges, PresencePurged
<1>5. CASE Deliver
  BY <1>5 DEF Deliver, GuardsFindProof, GuardsFindCancelled, GuardsDefer, GuardsMiss, GuardsPost,
     GuardsRoute, GuardsFail, PostCommits, PostFails, PostAccepted, DepartCommits, DepartRefused,
     Writes, WriteMarked, WriteFails, stores
<1>6. CASE TickStarts \/ CommitResumes \/ ReadsPage \/ TakesCliWake \/ SettleCli \/ TickEnds
  BY <1>6 DEF TickStarts, CommitResumes, ReadsPage, TakesCliWake, SettleCli, TickEnds, stores
<1>7. CASE DaemonRestarts \/ UNCHANGED vars
  BY <1>7 DEF DaemonRestarts, vars, stores
<1>8. QED
  BY <1>1, <1>2, <1>3, <1>4, <1>5, <1>6, <1>7 DEF Next, Requests, Reports, Purges, Tick, Ends

(* The steps that mark a departure or make a wake leave.                   *)
Departs == \/ PostCommits \/ DepartCommits \/ Writes \/ WriteMarked
           \/ \E arrived \in BOOLEAN : WriteFails(arrived)

(* The only other steps that touch the marks.                              *)
LEMMA DepartureSteps ==
  ASSUME [Next]_vars
  PROVE  \/ UNCHANGED <<delivery, posted, left>>
         \/ Reports
         \/ \E dormant \in BOOLEAN : CommitFreezes(dormant)
         \/ Departs
<1>1. ASSUME NEW s \in Schedules, LookAtSchedule(s) PROVE UNCHANGED <<delivery, posted, left>>
  BY <1>1 DEF LookAtSchedule, stores
<1>2. CASE Surroundings
  BY <1>2 DEF Surroundings, PauseChanges, OwnerChanges, TimePasses, ZoneChanges, stores
<1>3. ASSUME NEW c \in 1..Clis, RequestCliOnce(c) PROVE UNCHANGED <<delivery, posted, left>>
  BY <1>3 DEF RequestCliOnce
<1>4. ASSUME NEW s \in Schedules, RequestSchedule(s) \/ RequestCancel(s)
      PROVE  UNCHANGED <<delivery, posted, left>>
  BY <1>4 DEF RequestSchedule, RequestCancel
<1>5. CASE Deliver /\ ~Departs
  BY <1>5 DEF Departs, Deliver, GuardsFindProof, GuardsFindCancelled, GuardsDefer, GuardsMiss,
     GuardsPost, GuardsRoute, GuardsFail, PostFails, PostAccepted, DepartRefused, stores
<1>6. CASE TickStarts \/ CommitResumes \/ ReadsPage \/ TakesCliWake \/ SettleCli \/ TickEnds
  BY <1>6 DEF TickStarts, CommitResumes, ReadsPage, TakesCliWake, SettleCli, TickEnds, stores
<1>7. CASE DaemonRestarts \/ UNCHANGED vars
  BY <1>7 DEF DaemonRestarts, vars, stores
<1>8. CASE CommitEnds \/ CommitAdvances \/ CommitMissed \/ SettleSchedule
  BY <1>8 DEF CommitEnds, CommitAdvances, CommitMissed, SettleSchedule
<1>9. QED
  BY <1>1, <1>2, <1>3, <1>4, <1>5, <1>6, <1>7, <1>8 DEF Next, Requests, Reports, Purges, Tick

(* Every step keeps the calendar of each row behind its occurrence, and    *)
(* each due on its date.                                                   *)
LEMMA TableNext ==
  ASSUME TypeOK, Control, Clocks, Table, Dating, Taken, Snapshot, Look, Calendar, Occurrence,
         Verdict, Departures, [Next]_vars
  PROVE  Table' /\ Dating'
<1>1. CASE UNCHANGED <<rows, frozen>>
  BY <1>1 DEF Table, Dating, Kept
<1>2. ASSUME NEW s \in Schedules, RequestSchedule(s)
      PROVE  Table' /\ Dating'
  <2> DEFINE gone == [NoRow EXCEPT !.status = "removed"]
  <2>1. /\ gone.status = "removed" /\ gone.phase = "none" /\ gone.due = None /\ gone.next = 0
        /\ gone.ndate = None /\ gone.pdate = None
    BY DEF NoRow
  <2> HIDE DEF gone
  <2>2. /\ rows'[s].status = "kept" /\ rows'[s].phase = "none" /\ rows'[s].due = None
        /\ rows'[s].pdate = None /\ rows'[s].next >= 0
        /\ rows'[s].ndate # None => Epoch(rows'[s].next, rows'[s].ndate)
        /\ s \notin AtSchedules => rows'[s].ndate = None
        /\ \A o \in Schedules : o # s => rows'[o] = rows[o] \/ rows'[o] = gone
    BY <1>2, CreateEffect DEF gone
  <2>3. QED
    BY <2>1, <2>2 DEF Table, Dating
<1>3. ASSUME NEW s \in Schedules, RequestCancel(s)
      PROVE  Table' /\ Dating'
  BY <1>3, CancelEffect DEF Table, Dating
<1>4. CASE Ends
  <2> DEFINE s == wake[1]
  <2>1. /\ s \in Schedules
        /\ \A o \in Schedules : o # s => rows'[o] = rows[o]
        /\ rows'[s].status = rows[s].status /\ rows'[s].due = rows[s].due
        /\ rows'[s].pdate = rows[s].pdate
        /\ rows'[s].next >= 0 /\ (rows[s].due # None => rows[s].due < rows'[s].next)
        /\ rows'[s].ndate # None => Epoch(rows'[s].next, rows'[s].ndate)
        /\ s \notin AtSchedules => rows'[s].ndate = None
        /\ \/ rows'[s].phase = rows[s].phase
           \/ Pending(rows[s]) /\ rows'[s].phase # "none"
    BY <1>4, EndEffect DEF Ends
  <2>2. Pending(rows[s]) => rows[s].phase # "none"
    BY DEF Pending, Unsettled
  <2> HIDE DEF s
  <2>3. QED
    BY <2>1, <2>2 DEF Table, Dating
<1>5. ASSUME NEW dormant \in BOOLEAN, CommitFreezes(dormant)
      PROVE  Table' /\ Dating'
  <2> DEFINE s == wake[1]
  <2>1. /\ s \in Schedules /\ look.cal.due \in Times
        /\ \A o \in Schedules : o # s => rows'[o] = rows[o]
        /\ rows'[s].status = "kept" /\ rows'[s].due = look.cal.due /\ rows'[s].phase = "prepared"
        /\ rows'[s].next = look.cal.next /\ rows'[s].ndate = look.cal.ndate
        /\ look.cal.due < look.cal.next /\ pc = "commit" /\ s \in todo
        /\ s \notin AtSchedules => rows'[s].pdate = None /\ rows'[s].ndate = None
        /\ rows'[s].pdate # None => Epoch(rows'[s].due, rows'[s].pdate)
    BY <1>5, FreezeEffect
  <2>2. look.cal.next \in Int /\ look.cal.due >= 0 /\ look.cal.due \in Int
    BY <2>1 DEF TypeOK, Calendars, Times
  <2>3. look.cal.ndate # None => Epoch(look.cal.next, look.cal.ndate)
    BY <2>1 DEF Calendar, Control
  <2> HIDE DEF s
  <2>4. QED
    BY <2>1, <2>2, <2>3 DEF Table, Dating, None
<1>6. QED
  BY <1>1, <1>2, <1>3, <1>4, <1>5, RowSteps

(* The freeze is the only step that adds an occurrence, and adds the       *)
(* latest.                                                                 *)
LEMMA TakenNext ==
  ASSUME TypeOK, Control, Clocks, Table, Dating, Taken, Snapshot, Look, Calendar, Occurrence,
         Verdict, Departures, [Next]_vars
  PROVE  Taken'
<1>1. CASE UNCHANGED <<rows, frozen>>
  BY <1>1 DEF Taken, Kept
<1>2. ASSUME NEW s \in Schedules, RequestSchedule(s)
      PROVE  Taken'
  <2> DEFINE gone == [NoRow EXCEPT !.status = "removed"]
  <2>1. gone.status = "removed"
    BY DEF NoRow
  <2> HIDE DEF gone
  <2>2. /\ rows[s].status = "unborn" /\ rows'[s].status = "kept"
        /\ \A o \in Schedules : o # s => rows'[o] = rows[o] \/ rows'[o] = gone
    BY <1>2, CreateEffect DEF gone
  <2>3. frozen' = frozen
    BY <1>2 DEF RequestSchedule
  <2>4. QED
    BY <2>1, <2>2, <2>3 DEF Taken, Kept
<1>3. ASSUME NEW s \in Schedules, RequestCancel(s)
      PROVE  Taken'
  <2>1. frozen' = frozen
    BY <1>3 DEF RequestCancel
  <2>2. QED
    BY <1>3, <2>1, CancelEffect DEF Taken, Kept
<1>4. CASE Ends
  <2> DEFINE s == wake[1]
  <2>1. /\ s \in Schedules /\ frozen' = frozen
        /\ \A o \in Schedules : o # s => rows'[o] = rows[o]
        /\ rows'[s].status = rows[s].status /\ rows'[s].due = rows[s].due
        /\ rows'[s].pdate = rows[s].pdate
    BY <1>4, EndEffect DEF Ends
  <2> HIDE DEF s
  <2>2. QED
    BY <2>1 DEF Taken, Kept
<1>5. ASSUME NEW dormant \in BOOLEAN, CommitFreezes(dormant)
      PROVE  Taken'
  <2> DEFINE s == wake[1]
             new == [due |-> look.cal.due, date |-> look.cal.date]
  <2>1. /\ s \in Schedules /\ look.cal.due \in Times
        /\ \A o \in Schedules : o # s => rows'[o] = rows[o]
        /\ rows'[s].status = "kept" /\ rows'[s].due = look.cal.due
        /\ look.cal.date # None => rows'[s].pdate = look.cal.date
        /\ frozen' = [frozen EXCEPT ![s] = @ \cup {new}]
        /\ \A o \in frozen[s] : o.due < look.cal.due
        /\ Near => \A o \in frozen[s] :
                     o.date # None => rows'[s].pdate # None /\ o.date < rows'[s].pdate
        /\ rows' \in [Schedules -> Rows]
    BY <1>5, FreezeEffect
  <2>2. frozen \in [Schedules -> SUBSET [due : Int, date : Dates \cup {None}]]
    BY DEF TypeOK
  <2>3. frozen'[s] = frozen[s] \cup {new} /\ \A o \in Schedules : o # s => frozen'[o] = frozen[o]
    BY <2>1, <2>2
  <2>4. new.due = look.cal.due /\ new.date = look.cal.date /\ look.cal.due \in Int
    BY <2>1 DEF Times
  <2>5. look.cal.date \in Dates \cup {None} /\ rows'[s].pdate \in Dates \cup {None}
    BY <2>1 DEF TypeOK, Calendars, Rows
  <2> HIDE DEF s, new
  <2>6. \A o \in frozen[s] : o.due \in Int /\ o.due <= rows'[s].due
    BY <2>1, <2>2, <2>4
  <2>7. Near => \A o \in frozen[s] : o.date # None => o.date <= rows'[s].pdate
    <3>1. \A d \in Dates : d \in Int
      BY DEF Dates
    <3>2. QED
      BY <2>1, <2>2, <2>5, <3>1
  <2>8. look.cal.date # None => look.cal.date <= look.cal.date
    BY <2>5 DEF Dates
  <2>9. QED
    BY <2>1, <2>3, <2>4, <2>6, <2>7, <2>8 DEF Taken, Kept
<1>6. QED
  BY <1>1, <1>2, <1>3, <1>4, <1>5, RowSteps

(* What a step may do to the occurrence of a row.                          *)
LEMMA RowChanges ==
  ASSUME TypeOK, Control, Clocks, Table, Dating, Taken, Snapshot, Look, Calendar, Occurrence,
         Verdict, Departures, [Next]_vars, NEW s \in Schedules
  PROVE  /\ rows[s].status # "unborn" => rows'[s].status # "unborn"
         /\ rows'[s].status = "kept" /\ rows[s].status # "unborn" =>
              rows[s].status = "kept" /\ rows[s].due <= rows'[s].due
         /\ \/ rows'[s].phase = rows[s].phase /\ rows'[s].due = rows[s].due
            \/ rows'[s].phase \in {"none", "prepared"}
            \/ /\ rows'[s].due = rows[s].due /\ Truth(rows'[s].phase, Key(s, rows[s]))
               /\ Ends
<1>0. rows \in [Schedules -> Rows] /\ rows[s].due \in Int
  BY DEF TypeOK, Rows
<1>1. CASE UNCHANGED <<rows, frozen>>
  BY <1>0, <1>1
<1>2. ASSUME NEW n \in Schedules, RequestSchedule(n)
      PROVE  /\ rows[s].status # "unborn" => rows'[s].status # "unborn"
             /\ rows'[s].status = "kept" /\ rows[s].status # "unborn" =>
                  rows[s].status = "kept" /\ rows[s].due <= rows'[s].due
             /\ \/ rows'[s].phase = rows[s].phase /\ rows'[s].due = rows[s].due
                \/ rows'[s].phase = "none"
  <2> DEFINE gone == [NoRow EXCEPT !.status = "removed"]
  <2>1. gone.status = "removed" /\ gone.phase = "none"
    BY DEF NoRow
  <2> HIDE DEF gone
  <2>2. /\ rows[n].status = "unborn" /\ rows'[n].status = "kept" /\ rows'[n].phase = "none"
        /\ \A o \in Schedules : o # n => rows'[o] = rows[o] \/ rows'[o] = gone
    BY <1>2, CreateEffect DEF gone
  <2>3. QED
    BY <1>0, <2>1, <2>2
<1>3. ASSUME NEW n \in Schedules, RequestCancel(n)
      PROVE  /\ rows'[s].status = rows[s].status /\ rows'[s].due = rows[s].due
             /\ rows'[s].phase = rows[s].phase
  BY <1>3, CancelEffect
<1>4. CASE Ends
  <2> DEFINE n == wake[1]
  <2>1. /\ n \in Schedules
        /\ \A o \in Schedules : o # n => rows'[o] = rows[o]
        /\ rows'[n].status = rows[n].status /\ rows'[n].due = rows[n].due
        /\ \/ rows'[n].phase = rows[n].phase
           \/ Truth(rows'[n].phase, Key(n, rows[n]))
    BY <1>4, EndEffect DEF Ends
  <2> HIDE DEF n
  <2>2. CASE s = n
    BY <1>0, <1>4, <2>1, <2>2
  <2>3. CASE s # n
    BY <1>0, <2>1, <2>3
  <2>4. QED
    BY <2>2, <2>3
<1>5. ASSUME NEW dormant \in BOOLEAN, CommitFreezes(dormant)
      PROVE  /\ rows[s].status # "unborn" => rows'[s].status # "unborn"
             /\ rows'[s].status = "kept" /\ rows[s].status # "unborn" =>
                  rows[s].status = "kept" /\ rows[s].due <= rows'[s].due
             /\ \/ rows'[s].phase = rows[s].phase /\ rows'[s].due = rows[s].due
                \/ rows'[s].phase = "prepared"
  <2> DEFINE n == wake[1]
  <2>1. /\ n \in Schedules /\ Kept(n) /\ look.cal.due \in Times
        /\ \A o \in Schedules : o # n => rows'[o] = rows[o]
        /\ rows'[n].status = "kept" /\ rows'[n].due = look.cal.due /\ rows'[n].phase = "prepared"
        /\ rows[n].due < look.cal.due
    BY <1>5, FreezeEffect
  <2> HIDE DEF n
  <2>2. QED
    BY <1>0, <2>1 DEF Kept, Times
<1>6. QED
  BY <1>0, <1>1, <1>2, <1>3, <1>4, <1>5, RowSteps

(* A departure is of the occurrence in hand.                               *)
LEMMA DepartsEffect ==
  ASSUME TypeOK, Control, Occurrence, Verdict, Departures, Departs
  PROVE  /\ pc \in {"post", "depart", "write", "mark"} /\ wake \in Wakes
         /\ UNCHANGED <<clocks, rows, frozen, reading, wake, look>>
         /\ Scheduled(wake) => /\ wake[1] \in Schedules /\ wake[2] \in Times
                               /\ wake = Key(wake[1], rows[wake[1]])
                               /\ Kept(wake[1]) /\ Pending(rows[wake[1]])
                               /\ rows[wake[1]].due = wake[2]
<1>1. /\ pc \in {"post", "depart", "write", "mark"}
      /\ UNCHANGED <<clocks, rows, frozen, reading, wake, look>>
  BY DEF Departs, PostCommits, DepartCommits, Writes, WriteMarked, WriteFails, Concludes, item
<1>2. pc \in Delivering
  BY <1>1 DEF Delivering
<1>3. QED
  BY <1>1, <1>2, InHandFacts DEF Occurrence

(* Nothing leaves twice, and nothing unmarked.                             *)
LEMMA DeparturesNext ==
  ASSUME TypeOK, Control, Clocks, Table, Dating, Taken, Snapshot, Look, Calendar, Occurrence,
         Verdict, Departures, [Next]_vars, TypeOK'
  PROVE  Departures'
<1>1. ASSUME NEW w \in Wakes
      PROVE  /\ left[w] \in Nat /\ left[w] <= 1
             /\ left[w] # 0 => w \in posted \/ delivery[w] # "none"
             /\ w \in posted => ToThread(w) /\ left[w] = 1
             /\ delivery[w] # "none" => ~ToThread(w)
             /\ delivery[w] = "acked" => left[w] = 1
             /\ delivery[w] \in {"none", "dispatching", "acked", "unknown"}
  BY DEF Departures, TypeOK
<1>2. delivery \in [Wakes -> {"none", "dispatching", "acked", "unknown"}] /\ left \in [Wakes -> Nat]
  BY DEF TypeOK
<1>3. ASSUME NEW w \in Wakes
      PROVE  /\ left'[w] <= 1
             /\ left'[w] # 0 => w \in posted' \/ delivery'[w] # "none"
             /\ w \in posted' => ToThread(w) /\ left'[w] = 1
             /\ delivery'[w] # "none" => ~ToThread(w)
             /\ delivery'[w] = "acked" => left'[w] = 1
  <2>1. CASE UNCHANGED <<delivery, posted, left>>
    BY <1>1, <2>1
  <2>2. ASSUME NEW v \in Wakes, Acknowledged(v)
        PROVE  <1>3!2
    BY <1>1, <1>2, <2>2 DEF Acknowledged
  <2>3. ASSUME NEW v \in Wakes, BecomesUnknown(v)
        PROVE  <1>3!2
    BY <1>1, <1>2, <2>3 DEF BecomesUnknown
  <2>3a. CASE Purges
    <3>1. /\ posted' = posted /\ left' = left
          /\ delivery'[w] = delivery[w] \/ (delivery[w] = "dispatching" /\ delivery'[w] = "unknown")
      BY <2>3a, PurgeEffect
    <3>2. QED
      BY <1>1, <3>1
  <2>4. ASSUME NEW dormant \in BOOLEAN, CommitFreezes(dormant)
        PROVE  <1>3!2
    <3>1. UNCHANGED <<delivery, posted, left>>
      BY <2>4, FreezeEffect
    <3>2. QED
      BY <1>1, <3>1
  <2>5. CASE PostCommits
    <3>1. /\ pc = "post" /\ wake \in Wakes /\ posted' = posted \cup {wake} /\ delivery' = delivery
          /\ left' = IF wake \in posted THEN left ELSE [left EXCEPT ![wake] = @ + 1]
      BY <2>5, DepartsEffect DEF PostCommits, Departs
    <3>2. delivery[wake] = "none" /\ wake \notin posted /\ ToThread(wake)
      BY <3>1 DEF Verdict
    <3>3. QED
      BY <1>1, <1>2, <3>1, <3>2
  <2>6. CASE DepartCommits
    <3>1. /\ pc = "depart" /\ wake \in Wakes /\ posted' = posted /\ left' = left
          /\ delivery' = [delivery EXCEPT ![wake] = "dispatching"] /\ delivery[wake] = "none"
      BY <2>6, DepartsEffect DEF DepartCommits, Departs
    <3>2. ~ToThread(wake)
      BY <3>1 DEF Verdict
    <3>3. QED
      BY <1>1, <1>2, <3>1, <3>2
  <2>7. ASSUME NEW arrived \in BOOLEAN, Writes \/ WriteFails(arrived)
        PROVE  <1>3!2
    <3>1. /\ pc = "write" /\ wake \in Wakes /\ posted' = posted /\ delivery' = delivery
          /\ left' = [left EXCEPT ![wake] = @ + 1] \/ left' = left
      BY <2>7, DepartsEffect DEF Writes, WriteFails, Departs
    <3>2. delivery[wake] = "dispatching" /\ left[wake] = 0
      BY <3>1 DEF Verdict
    <3>3. QED
      BY <1>1, <1>2, <3>1, <3>2
  <2>8. CASE WriteMarked
    <3>1. /\ wake \in Wakes /\ posted' = posted /\ left' = left
          /\ delivery' = IF delivery[wake] = "dispatching" THEN [delivery EXCEPT ![wake] = "unknown"]
                         ELSE delivery
      BY <2>8, DepartsEffect DEF WriteMarked, Departs
    <3>2. QED
      BY <1>1, <1>2, <3>1
  <2>9. QED
    BY <2>1, <2>2, <2>3, <2>3a, <2>4, <2>5, <2>6, <2>7, <2>8, DepartureSteps DEF Departs, Reports
<1>4. ASSUME NEW w \in Wakes, Scheduled(w), w \in posted' \/ delivery'[w] # "none"
      PROVE  rows'[w[1]].status # "unborn" /\ (Kept(w[1])' => w[2] <= rows'[w[1]].due)
  <2>1. w[1] \in Schedules /\ w[2] \in Int
    BY <1>4 DEF Wakes, ScheduledWakes, CliWakes, Scheduled, Times
  <2>2. rows[w[1]].status # "unborn" /\ (Kept(w[1]) => w[2] <= rows[w[1]].due)
    <3>1. CASE w \in posted \/ delivery[w] # "none"
      BY <1>4, <3>1 DEF Departures
    <3>2. CASE Departs /\ w = wake
      <4>1. Kept(w[1]) /\ rows[w[1]].due = w[2]
        BY <1>4, <3>2, DepartsEffect
      <4>2. QED
        BY <2>1, <4>1 DEF Kept
    <3>3. (w \in posted \/ delivery[w] # "none") \/ (Departs /\ w = wake)
      <4>1. CASE UNCHANGED <<delivery, posted, left>>
        BY <1>4, <4>1
      <4>2. CASE Reports
        <5>1. posted' = posted /\ (delivery'[w] = delivery[w] \/ delivery[w] = "dispatching")
          BY <4>2, ReportEffect
        <5>2. QED
          BY <1>4, <5>1
      <4>3. ASSUME NEW dormant \in BOOLEAN, CommitFreezes(dormant)
            PROVE  w \in posted \/ delivery[w] # "none"
        BY <1>4, <4>3, FreezeEffect
      <4>4. CASE Departs
        BY <1>2, <1>4, <4>4
           DEF Departs, PostCommits, DepartCommits, Writes, WriteFails, WriteMarked
      <4>5. QED
        BY <4>1, <4>2, <4>3, <4>4, DepartureSteps
    <3>4. QED
      BY <3>1, <3>2, <3>3
  <2>3. rows[w[1]].due \in Int /\ rows'[w[1]].due \in Int
    BY <2>1 DEF TypeOK, Rows
  <2>4. /\ rows'[w[1]].status # "unborn"
        /\ rows'[w[1]].status = "kept" => rows[w[1]].status = "kept" /\ rows[w[1]].due <= rows'[w[1]].due
    BY <2>1, <2>2, RowChanges
  <2>5. QED
    BY <2>1, <2>2, <2>3, <2>4 DEF Kept
<1>5. QED
  BY <1>3, <1>4 DEF Departures, ToThread, Scheduled

(* A phase that is stored is true, and stays so: only the occurrence in    *)
(* hand departs, and it is open.                                           *)
LEMMA RowVerdictsNext ==
  ASSUME TypeOK, Control, Clocks, Table, Dating, Taken, Snapshot, Look, Calendar, Occurrence,
         Verdict, Departures, RowVerdicts, [Next]_vars
  PROVE  RowVerdicts'
<1>1. SUFFICES ASSUME NEW s \in Schedules
               PROVE  Truth(rows[s].phase, Key(s, rows[s]))'
  BY DEF RowVerdicts
<1>2. Truth(rows[s].phase, Key(s, rows[s]))
  BY DEF RowVerdicts
<1>3. delivery \in [Wakes -> {"none", "dispatching", "acked", "unknown"}] /\ posted \subseteq Wakes
  BY DEF TypeOK
<1> DEFINE k == Key(s, rows[s])
<1>3a. rows[s].phase # "none" => k \in Wakes
  BY KeyTyped DEF Table
<1>3b. ASSUME rows' = rows, rows[s].phase = "none"
      PROVE  Truth(rows[s].phase, Key(s, rows[s]))'
  BY <1>3b DEF Truth
<1>4. CASE UNCHANGED <<delivery, posted>>
  <2>1. CASE rows'[s].phase = rows[s].phase /\ rows'[s].due = rows[s].due
    BY <1>2, <1>4, <2>1 DEF Truth, Key
  <2>2. CASE rows'[s].phase \in {"none", "prepared"}
    BY <2>2 DEF Truth
  <2>3. CASE rows'[s].due = rows[s].due /\ Truth(rows'[s].phase, Key(s, rows[s]))
    BY <1>4, <2>3 DEF Truth, Key
  <2>4. QED
    BY <2>1, <2>2, <2>3, RowChanges
<1>5. CASE Reports
  <2>1. /\ rows' = rows /\ posted' = posted
        /\ \A w \in Wakes : \/ delivery'[w] = delivery[w]
                            \/ delivery[w] = "dispatching" /\ delivery'[w] \in {"acked", "unknown"}
    BY <1>5, ReportEffect
  <2>2. CASE rows[s].phase # "none"
    <3>1. /\ delivery[k] = "acked" => delivery'[k] = "acked"
          /\ delivery[k] = "none" <=> delivery'[k] = "none"
      BY <1>3, <1>3a, <2>1, <2>2
    <3>2. k' = k
      BY <2>1 DEF Key
    <3> HIDE DEF k
    <3>3. Truth(rows[s].phase, k)
      BY <1>2 DEF k
    <3>4. Truth(rows[s].phase, k)'
      BY <2>1, <3>1, <3>2, <3>3 DEF Truth
    <3>5. QED
      BY <3>4 DEF k
  <2>3. QED
    BY <2>1, <2>2, <1>3b
<1>6. ASSUME NEW dormant \in BOOLEAN, CommitFreezes(dormant)
      PROVE  UNCHANGED <<delivery, posted>>
  BY <1>6, FreezeEffect
<1>7. CASE Departs
  <2>1. rows' = rows /\ wake \in Wakes
    BY <1>7, DepartsEffect
  <2>2. CASE wake # k /\ rows[s].phase # "none"
    <3> HIDE DEF k
    <3>1. delivery'[k] = delivery[k] /\ (k \in posted' <=> k \in posted)
      BY <1>3, <1>3a, <1>7, <2>1, <2>2
         DEF Departs, PostCommits, DepartCommits, Writes, WriteFails, WriteMarked
    <3>2. QED
      BY <1>2, <2>1, <3>1 DEF Truth, Key, k
  <2>3. CASE wake = Key(s, rows[s])
    <3>1. wake[1] = s /\ Scheduled(wake)
      BY <2>3, ScheduledWake DEF Key
    <3>2. Pending(rows[s])
      BY <1>7, <3>1, DepartsEffect
    <3>3. delivery[wake] # "none" => delivery'[wake] # "none"
      BY <1>3, <1>7, <2>1 DEF Departs, PostCommits, DepartCommits, Writes, WriteFails, WriteMarked
    <3>4. QED
      BY <1>2, <2>1, <2>3, <3>2, <3>3 DEF Truth, Key, Pending, Unsettled
  <2>4. QED
    BY <2>1, <2>2, <2>3, <1>3b
<1>8. QED
  BY <1>4, <1>5, <1>6, <1>7, DepartureSteps

(* The other steps that write the record of a one-shot wake, or the page.  *)
CliWrites ==
  \/ \E c \in 1..Clis : RequestCliOnce(c)
  \/ GuardsFindProof \/ GuardsPost \/ PostAccepted \/ SettleCli \/ ReadsPage \/ DaemonRestarts

(* The steps that write the record of a one-shot wake, or the page.        *)
LEMMA CliSteps ==
  ASSUME [Next]_vars
  PROVE  \/ UNCHANGED <<cli, page>>
         \/ \E w \in Wakes : Acknowledged(w)
         \/ Purges
         \/ Departs
         \/ CliWrites
<1>1. ASSUME NEW s \in Schedules, LookAtSchedule(s) PROVE UNCHANGED <<cli, page>>
  BY <1>1 DEF LookAtSchedule, NextSchedule, stores, reading
<1>2. CASE Surroundings
  BY <1>2 DEF Surroundings, PauseChanges, OwnerChanges, TimePasses, ZoneChanges, stores, tick, reading
<1>3. ASSUME NEW s \in Schedules, RequestSchedule(s) \/ RequestCancel(s)
      PROVE  UNCHANGED <<cli, page>>
  BY <1>3 DEF RequestSchedule, RequestCancel, tick, reading
<1>4. ASSUME NEW w \in Wakes, BecomesUnknown(w)
      PROVE  UNCHANGED <<cli, page>>
  BY <1>4 DEF BecomesUnknown, tick, reading
<1>5. CASE Deliver /\ ~Departs /\ ~CliWrites
  BY <1>5 DEF Departs, CliWrites, Deliver, GuardsFindCancelled, GuardsDefer, GuardsMiss,
     GuardsRoute, GuardsFail, PostFails, DepartRefused, Concludes, stores, reading
<1>6. CASE TickStarts \/ CommitResumes \/ TakesCliWake \/ TickEnds
  BY <1>6 DEF TickStarts, CommitResumes, TakesCliWake, TickEnds, stores, reading
<1>7. CASE UNCHANGED vars
  BY <1>7 DEF vars, stores, reading
<1>8. CASE CommitEnds \/ CommitAdvances \/ CommitMissed \/ SettleSchedule
  BY <1>8 DEF CommitEnds, CommitAdvances, CommitMissed, SettleSchedule, NextSchedule
<1>9. ASSUME NEW dormant \in BOOLEAN, CommitFreezes(dormant)
      PROVE  UNCHANGED <<cli, page>>
  BY <1>9 DEF CommitFreezes, reading
<1>10. QED
  BY <1>1, <1>2, <1>3, <1>4, <1>5, <1>6, <1>7, <1>8, <1>9 DEF Next, Requests, Purges, Tick, CliWrites

(* The records stay true: finalize refuses a terminal record, and an       *)
(* acknowledgement or a purge needs an open one.                           *)
LEMMA CliVerdictsNext ==
  ASSUME TypeOK, Control, Clocks, Table, Dating, Taken, Snapshot, Look, Calendar, Occurrence,
         Verdict, Departures, CliVerdicts, [Next]_vars
  PROVE  CliVerdicts'
<1>1. SUFFICES ASSUME NEW c \in 1..Clis
               PROVE  CliTruth(c)'
  BY DEF CliVerdicts, CliTruth
<1> DEFINE w == <<Cli, c>>
<1>2. CliTruth(c)
  BY DEF CliVerdicts, CliTruth
<1>3. /\ delivery \in [Wakes -> {"none", "dispatching", "acked", "unknown"}] /\ posted \subseteq Wakes
      /\ cli \in [1..Clis -> CliRecords]
  BY DEF TypeOK
<1>4. w \in Wakes /\ ~Scheduled(w) /\ w[2] = c /\ \A d \in 1..Clis : <<Cli, d>> = w => d = c
  BY CliWake
<1>5. cli[c].state \in CliStates /\ \A d \in 1..Clis : cli[d] \in CliRecords
  BY <1>3 DEF CliRecords
<1> HIDE DEF w
<1>6. CASE UNCHANGED <<cli, page, delivery, posted>>
  BY <1>2, <1>6 DEF CliTruth
<1>7. ASSUME NEW v \in Wakes, Acknowledged(v)
      PROVE  CliTruth(c)'
  <2>1. /\ delivery[v] = "dispatching" /\ delivery' = [delivery EXCEPT ![v] = "acked"]
        /\ posted' = posted /\ page' = page
        /\ cli' = IF v \in CliWakes THEN [cli EXCEPT ![v[2]].state = "accepted"] ELSE cli
    BY <1>7 DEF Acknowledged, tick, reading
  <2>2. v = w => v \in CliWakes /\ v[2] = c
    BY <1>4 DEF w, CliWakes
  <2>3. v # w /\ v \in CliWakes => v[2] # c /\ v[2] \in 1..Clis
    BY DEF w, CliWakes
  <2>4. CASE v = w
    <3>1. cli'[c].state = "accepted" /\ delivery'[w] = "acked"
      BY <1>3, <1>4, <1>5, <2>1, <2>2, <2>4 DEF CliRecords
    <3>2. QED
      BY <2>1, <3>1 DEF CliTruth, w
  <2>5. CASE v # w
    <3>1. cli'[c] = cli[c] /\ delivery'[w] = delivery[w]
      BY <1>3, <1>4, <2>1, <2>3, <2>5
    <3>2. QED
      BY <1>2, <2>1, <3>1 DEF CliTruth, w
  <2>6. QED
    BY <2>4, <2>5
<1>8. ASSUME NEW v \in Wakes, BecomesUnknown(v)
      PROVE  CliTruth(c)'
  <2>1. /\ delivery[v] = "dispatching" /\ delivery' = [delivery EXCEPT ![v] = "unknown"]
        /\ posted' = posted /\ page' = page /\ cli' = cli
    BY <1>8 DEF BecomesUnknown, tick, reading
  <2>2. QED
    BY <1>2, <1>3, <1>4, <2>1 DEF CliTruth, w
<1>8a. CASE Purges
  <2>1. /\ posted' = posted /\ page' = page
        /\ \/ cli'[c] = cli[c] /\ delivery'[w] = delivery[w]
           \/ cli'[c].state = "orphaned" /\ delivery'[w] = "unknown"
    BY <1>8a, PurgeEffect DEF w, tick, reading
  <2>2. QED
    BY <1>2, <2>1 DEF CliTruth, w
<1>9. ASSUME NEW dormant \in BOOLEAN, CommitFreezes(dormant)
      PROVE  UNCHANGED <<cli, page, delivery, posted>>
  BY <1>9, FreezeEffect DEF reading
<1>10. CASE Departs
  <2>1. /\ wake \in Wakes /\ page' = page
        /\ ~Scheduled(wake) => wake = <<Cli, wake[2]>> /\ wake[2] \in 1..Clis
    BY <1>10, DepartsEffect, WakeKinds DEF reading
  <2>2. CASE wake # w
    <3>1. delivery'[w] = delivery[w] /\ (w \in posted' <=> w \in posted)
      BY <1>3, <1>4, <1>10, <2>1, <2>2
         DEF Departs, PostCommits, DepartCommits, Writes, WriteFails, WriteMarked
    <3>2. ~Scheduled(wake) => wake[2] # c
      BY <2>1, <2>2 DEF w
    <3>3. cli'[c] = cli[c]
      BY <1>3, <1>10, <2>1, <3>2 DEF Departs, PostCommits, DepartCommits, Writes, WriteFails, WriteMarked
    <3>4. QED
      BY <1>2, <2>1, <3>1, <3>3 DEF CliTruth, w
  <2>3. CASE wake = w
    <3>1. ~Scheduled(wake) /\ wake[2] = c
      BY <1>4, <2>3
    <3>2. CASE PostCommits
      <4>1. pc = "post" /\ cli' = cli /\ delivery' = delivery /\ posted' = posted \cup {w}
        BY <2>3, <3>2 DEF PostCommits
      <4>2. cli[c].state = "dispatching"
        BY <3>1, <4>1 DEF Verdict
      <4>3. QED
        BY <1>2, <2>1, <4>1, <4>2 DEF CliTruth, w
    <3>3. CASE DepartCommits
      <4>1. /\ cli[c].state = "prepared" /\ delivery' = [delivery EXCEPT ![w] = "dispatching"]
            /\ posted' = posted /\ cli' = [cli EXCEPT ![c].state = "dispatching"]
        BY <2>3, <3>1, <3>3 DEF DepartCommits
      <4>2. cli'[c].state = "dispatching" /\ delivery'[w] = "dispatching"
        BY <1>3, <1>4, <1>5, <4>1 DEF CliRecords
      <4>3. QED
        BY <2>1, <4>1, <4>2 DEF CliTruth, CliPending, w
    <3>4. ASSUME NEW arrived \in BOOLEAN, Writes \/ WriteFails(arrived)
          PROVE  CliTruth(c)'
      BY <1>2, <2>1, <3>4 DEF Writes, WriteFails, CliTruth
    <3>5. CASE WriteMarked
      <4>1. /\ posted' = posted /\ cli' = cli
            /\ delivery' = IF delivery[w] = "dispatching" THEN [delivery EXCEPT ![w] = "unknown"] ELSE delivery
        BY <2>3, <3>5 DEF WriteMarked
      <4>2. QED
        BY <1>2, <1>3, <1>4, <2>1, <4>1 DEF CliTruth, w
    <3>6. QED
      BY <1>10, <3>2, <3>3, <3>4, <3>5 DEF Departs
  <2>4. QED
    BY <2>2, <2>3
<1>11. ASSUME NEW d \in 1..Clis, RequestCliOnce(d)
       PROVE  CliTruth(c)'
  <2>1. /\ cli[d].state = "absent" /\ cli' = [cli EXCEPT ![d] = [state |-> "prepared", issued |-> now]]
        /\ UNCHANGED <<delivery, posted, page>>
    BY <1>11 DEF RequestCliOnce, tick, reading
  <2>2. (d = c => cli'[c].state = "prepared") /\ (d # c => cli'[c] = cli[c])
    BY <1>3, <2>1
  <2>3. QED
    BY <1>2, <2>1, <2>2 DEF CliTruth, CliPending
<1>12. CASE GuardsFindProof \/ GuardsPost \/ PostAccepted \/ SettleCli
  <2>1. /\ pc \in Delivering /\ UNCHANGED <<delivery, posted>>
        /\ GuardsFindProof \/ GuardsPost \/ PostAccepted => page' = page
        /\ SettleCli => page' = page \ {wake[2]} /\ ~Scheduled(wake)
    BY <1>12 DEF GuardsFindProof, GuardsPost, PostAccepted, SettleCli, Concludes, Delivering, reading
  <2>2. /\ wake \in Wakes
        /\ ~Scheduled(wake) => wake[2] \in 1..Clis /\ wake = <<Cli, wake[2]>> /\ wake[2] \in page
    BY <2>1, InHandFacts
  <2>3. CASE Scheduled(wake) \/ wake[2] # c
    <3>1. cli'[c] = cli[c]
      BY <1>3, <1>12, <2>2, <2>3, CliWake
         DEF GuardsFindProof, GuardsPost, PostAccepted, SettleCli, Verdict
    <3>2. c \in page' => c \in page
      BY <1>12, <2>1
    <3>3. QED
      BY <1>2, <2>1, <3>1, <3>2 DEF CliTruth
  <2>4. CASE ~Scheduled(wake) /\ wake[2] = c
    <3>1. wake = w /\ c \in page /\ cli[c].state \in CliPending \cup {"accepted", "orphaned"}
      BY <1>2, <2>2, <2>4 DEF w, CliTruth
    <3>2. CASE GuardsFindProof
      <4>1. CASE cli' = cli
        BY <1>2, <2>1, <3>2, <4>1 DEF CliTruth
      <4>2. CASE Proven(wake) = "committed_thread" /\ cli' = [cli EXCEPT ![c].state = "accepted"]
        <5>1. w \in posted
          BY <1>4, <3>1, <4>2, ProvenFacts DEF Truth
        <5>2. cli'[c].state = "accepted"
          BY <1>3, <1>5, <4>2 DEF CliRecords
        <5>3. QED
          BY <2>1, <5>1, <5>2 DEF CliTruth, w
      <4>3. QED
        BY <2>4, <3>2, <4>1, <4>2 DEF GuardsFindProof
    <3>3. CASE GuardsPost
      <4>1. Proven(wake) = "none" /\ cli' = [cli EXCEPT ![c].state = "dispatching"]
        BY <2>4, <3>3 DEF GuardsPost
      <4>2. delivery[w] = "none"
        BY <1>4, <3>1, <4>1, ProvenFacts
      <4>3. cli'[c].state = "dispatching"
        BY <1>3, <1>5, <4>1 DEF CliRecords
      <4>4. QED
        BY <2>1, <4>2, <4>3 DEF CliTruth, CliPending, w
    <3>4. CASE PostAccepted
      <4>1. pc = "accept" /\ cli' = [cli EXCEPT ![c].state = "accepted"]
        BY <2>4, <3>4 DEF PostAccepted
      <4>2. w \in posted
        BY <3>1, <4>1 DEF Verdict
      <4>3. cli'[c].state = "accepted"
        BY <1>3, <1>5, <4>1 DEF CliRecords
      <4>4. QED
        BY <2>1, <4>2, <4>3 DEF CliTruth, w
    <3>5. CASE SettleCli
      <4> DEFINE result == CASE verdict \in {"missed_before_departure", "owner_unavailable"} -> "rejected"
                             [] verdict = "outcome_unknown" -> "orphaned"
                             [] OTHER -> cli[c].state
      <4>1. /\ pc = "settle"
            /\ cli' = IF cli[c].state \in CliPending THEN [cli EXCEPT ![c].state = result] ELSE cli
        BY <2>4, <3>5 DEF SettleCli
      <4>2. Truth(verdict, w)
        BY <3>1, <4>1 DEF Verdict
      <4>3. cli'[c].state = IF cli[c].state \in CliPending THEN result ELSE cli[c].state
        BY <1>3, <1>5, <4>1 DEF CliRecords
      <4>4. c \notin page'
        BY <2>1, <2>4, <3>5
      <4>5. delivery[w] \in {"none", "dispatching", "acked", "unknown"}
        BY <1>3, <1>4
      <4>6. CASE cli[c].state \notin CliPending
        BY <1>2, <2>1, <4>3, <4>4, <4>6 DEF CliTruth
      <4>7. CASE cli[c].state \in CliPending
        <5>1. delivery[w] # "acked"
          BY <1>2, <4>7 DEF CliTruth, CliPending, w
        <5>2. CASE verdict \in {"missed_before_departure", "owner_unavailable"}
          BY <2>1, <4>2, <4>3, <4>4, <4>7, <5>1, <5>2 DEF CliTruth, Truth, w
        <5>3. CASE verdict = "outcome_unknown"
          BY <2>1, <4>2, <4>3, <4>4, <4>5, <4>7, <5>1, <5>3 DEF CliTruth, Truth, w
        <5>4. CASE verdict \notin {"missed_before_departure", "owner_unavailable", "outcome_unknown"}
          <6>1. cli'[c].state = cli[c].state
            BY <4>3, <5>4
          <6>2. QED
            BY <1>2, <2>1, <4>4, <6>1 DEF CliTruth
        <5>5. QED
          BY <5>2, <5>3, <5>4
      <4>8. QED
        BY <4>6, <4>7
    <3>6. QED
      BY <1>12, <3>2, <3>3, <3>4, <3>5
  <2>5. QED
    BY <2>3, <2>4
<1>13. CASE ReadsPage
  <2>1. page' = FirstPage /\ UNCHANGED <<cli, delivery, posted>>
    BY <1>13 DEF ReadsPage, stores
  <2>2. c \in page' => cli[c].state \in CliPending
    BY <2>1 DEF FirstPage, PendingCliWakes
  <2>3. QED
    BY <1>2, <2>1, <2>2 DEF CliTruth
<1>14. CASE DaemonRestarts
  <2>1. page' = {} /\ UNCHANGED <<cli, delivery, posted>>
    BY <1>14 DEF DaemonRestarts, stores
  <2>2. QED
    BY <1>2, <2>1 DEF CliTruth
<1>15. ASSUME CliWrites PROVE CliTruth(c)'
  BY <1>15, <1>11, <1>12, <1>13, <1>14 DEF CliWrites
<1>16. CASE UNCHANGED <<cli, page>>
  BY <1>6, <1>7, <1>8, <1>8a, <1>9, <1>10, <1>16, DepartureSteps DEF Reports
<1>17. QED
  BY <1>7, <1>8a, <1>10, <1>15, <1>16, CliSteps

(* deliver_frozen_wake writes no row and keeps the wake in hand.           *)
LEMMA DeliverEffect ==
  ASSUME Deliver
  PROVE  /\ pc \in Delivering \ {"missed", "settle"} /\ pc' \in Delivering \ {"missed"}
         /\ UNCHANGED <<clocks, rows, frozen, reading, wake, look>>
  BY DEF Delivering, Concludes, item, stores, Deliver, GuardsFindProof, GuardsFindCancelled,
     GuardsDefer, GuardsMiss, GuardsPost, GuardsRoute, GuardsFail, PostCommits, PostFails,
     PostAccepted, DepartCommits, DepartRefused, Writes, WriteMarked, WriteFails

(* Every step keeps track of the wake in hand.                             *)
LEMMA ControlNext ==
  ASSUME TypeOK, Control, Clocks, Table, Dating, Taken, Snapshot, Look, Calendar, Occurrence,
         Verdict, Departures, [Next]_vars
  PROVE  Control'
<1>1. CASE Requests \/ Surroundings
  BY <1>1, OutsideTick DEF Control, tick, reading, item
<1>2. ASSUME NEW s \in Schedules, NextSchedule(s) PROVE Control'
  BY <1>2 DEF NextSchedule, Control, Delivering
<1>3. ASSUME NEW s \in Schedules, LookAtSchedule(s) PROVE Control'
  <2>1. CASE NextSchedule(s)
    BY <1>2, <2>1
  <2>2. CASE pc' = "commit" /\ wake' = <<s, snap[s].due>> /\ UNCHANGED <<reading, verdict>> /\ s \in todo
    BY <2>2, ScheduledWake DEF Control, Delivering, reading
  <2>3. QED
    BY <1>3, <2>1, <2>2, LookEffect
<1>4. CASE Ends
  BY <1>2, <1>4, EndEffect DEF Ends
<1>5. ASSUME NEW dormant \in BOOLEAN, CommitFreezes(dormant) PROVE Control'
  <2>1. /\ wake' \in Wakes /\ Scheduled(wake') /\ wake'[1] \in todo /\ todo' = todo
        /\ pc' = IF dormant THEN "missed" ELSE "guards"
    <3>1. wake' = <<wake[1], look.cal.due>> /\ wake[1] \in todo
      BY <1>5, FreezeEffect
    <3>2. wake'[1] = wake[1]
      BY <3>1
    <3>3. QED
      BY <1>5, <3>1, <3>2, FreezeEffect DEF reading
  <2>2. QED
    BY <2>1 DEF Control, Delivering
<1>6. CASE CommitResumes
  <2>1. pc = "commit" /\ pc' = "guards" /\ Pending(snap[wake[1]]) /\ UNCHANGED <<reading, item>>
    BY <1>6 DEF CommitResumes
  <2>2. /\ wake[1] \in Schedules /\ wake[1] \in todo /\ ~InHand(wake[1])
        /\ wake = <<wake[1], snap[wake[1]].due>>
    BY <2>1, AtCommit
  <2>3. rows[wake[1]].due = snap[wake[1]].due /\ Pending(rows[wake[1]])
    BY <2>1, <2>2 DEF Snapshot, Pending
  <2>4. rows[wake[1]].due # None
    BY <2>2, <2>3 DEF Table, Pending, Unsettled
  <2>5. wake \in Wakes
    BY <2>2, <2>3, <2>4, KeyTyped DEF Key
  <2>6. QED
    BY <2>1, <2>2, <2>5 DEF Control, Delivering, reading, item
<1>7. CASE Deliver
  BY <1>7, DeliverEffect DEF Control, Delivering, reading
<1>8. CASE TickStarts \/ ReadsPage \/ TickEnds \/ DaemonRestarts
  BY <1>8 DEF TickStarts, ReadsPage, TickEnds, DaemonRestarts, Control, Delivering
<1>9. CASE TakesCliWake
  <2>1. PICK c \in page : wake' = <<Cli, c>>
    BY <1>9 DEF TakesCliWake
  <2>2. c \in 1..Clis
    BY DEF TypeOK
  <2>3. wake' \in Wakes /\ ~Scheduled(wake') /\ wake'[2] = c
    BY <2>1, <2>2, CliWake
  <2>4. pc = "page" /\ pc' = "guards" /\ todo' = todo /\ page' = page
    BY <1>9 DEF TakesCliWake, reading
  <2>5. QED
    BY <2>3, <2>4 DEF Control, Delivering
<1>10. CASE SettleCli
  BY <1>10 DEF SettleCli, Control, Delivering
<1>11. CASE UNCHANGED vars
  BY <1>11 DEF vars, reading, item, Control
<1>12. QED
  BY <1>1, <1>3, <1>4, <1>5, <1>6, <1>7, <1>8, <1>9, <1>10, <1>11 DEF Next, Tick, Ends

(* A due that is frozen had passed when the tick began.                    *)
LEMMA ClocksNext ==
  ASSUME TypeOK, Control, Clocks, Table, Dating, Taken, Snapshot, Look, Calendar, Occurrence,
         Verdict, Departures, [Next]_vars, TypeOK'
  PROVE  Clocks'
<1>1. now \in Int /\ now >= 0 /\ at \in Int /\ at >= 0 /\ now' \in Int /\ at' \in Int
  BY DEF TypeOK, Times
<1>2. /\ at' <= now' /\ now <= now'
      /\ pc' # "idle" => (pc # "idle" /\ at' = at) \/ (pc = "idle" /\ at' = now)
  <2>1. CASE Requests \/ PauseChanges \/ OwnerChanges \/ TimePasses \/ \E z \in Zones : ZoneChanges(z)
    <3>1. at' = at /\ pc' = pc
      BY <2>1, OutsideTick DEF tick, reading, Surroundings
    <3>2. now' = now \/ now' = now + 1
      BY <2>1 DEF Requests, RequestSchedule, RequestCancel, RequestCliOnce, Acknowledged,
         BecomesUnknown, PresencePurged, PauseChanges, OwnerChanges, TimePasses, ZoneChanges, clocks
    <3>3. QED
      BY <1>1, <3>1, <3>2 DEF Clocks
  <2>2. ASSUME NEW s \in Schedules, LookAtSchedule(s) PROVE at' = at /\ now' = now
    BY <2>2 DEF LookAtSchedule, NextSchedule, reading, clocks
  <2>3. CASE Ends
    BY <2>3, <1>1
       DEF Clocks, Ends, CommitEnds, CommitAdvances, CommitMissed, SettleSchedule, NextSchedule, clocks
  <2>4. ASSUME NEW dormant \in BOOLEAN, CommitFreezes(dormant) PROVE at' = at /\ now' = now
    BY <2>4 DEF CommitFreezes, reading, clocks
  <2>5. CASE Deliver
    BY <1>1, <2>5, DeliverEffect DEF Clocks, reading, clocks, Delivering
  <2>6. CASE \/ TickStarts \/ CommitResumes \/ ReadsPage \/ TakesCliWake \/ SettleCli
             \/ TickEnds \/ DaemonRestarts \/ UNCHANGED vars
    BY <1>1, <2>6 DEF Clocks, TickStarts, CommitResumes, ReadsPage, TakesCliWake, SettleCli, TickEnds,
       DaemonRestarts, vars, reading, clocks
  <2>7. (\E s \in Schedules : LookAtSchedule(s)) \/ (\E dormant \in BOOLEAN : CommitFreezes(dormant)) => pc # "idle"
    BY DEF LookAtSchedule, CommitFreezes
  <2>8. QED
    BY <1>1, <2>1, <2>2, <2>3, <2>4, <2>5, <2>6, <2>7 DEF Next, Surroundings, Tick, Ends, Clocks
<1>3. ASSUME NEW s \in Schedules
      PROVE  /\ rows[s].due \in Int /\ rows'[s].due \in Int
             /\ rows'[s].due = rows[s].due \/ rows'[s].due = None
                  \/ (rows'[s].due <= at /\ pc # "idle")
  <2>1. rows[s].due \in Int /\ rows'[s].due \in Int
    BY DEF TypeOK, Rows
  <2>2. CASE UNCHANGED <<rows, frozen>>
    BY <2>1, <2>2
  <2>3. ASSUME NEW n \in Schedules, RequestSchedule(n)
        PROVE  rows'[s].due = rows[s].due \/ rows'[s].due = None
    BY <2>3, CreateEffect DEF NoRow
  <2>4. ASSUME NEW n \in Schedules, RequestCancel(n) PROVE rows'[s].due = rows[s].due
    BY <2>4, CancelEffect
  <2>5. CASE Ends
    <3> DEFINE n == wake[1]
    <3>1. rows'[n].due = rows[n].due /\ \A o \in Schedules : o # n => rows'[o] = rows[o]
      BY <2>5, EndEffect DEF Ends
    <3>2. QED
      BY <3>1, <2>1
  <2>6. ASSUME NEW dormant \in BOOLEAN, CommitFreezes(dormant)
        PROVE  rows'[s].due = rows[s].due \/ (rows'[s].due <= at /\ pc # "idle")
    BY <2>6, FreezeEffect
  <2>7. QED
    BY <2>1, <2>2, <2>3, <2>4, <2>5, <2>6, RowSteps
<1>4. QED
  BY <1>1, <1>2, <1>3 DEF Clocks, None

(* The snapshot stays true of the schedules not yet taken up.              *)
LEMMA SnapshotNext ==
  ASSUME TypeOK, Control, Clocks, Table, Dating, Taken, Snapshot, Look, Calendar, Occurrence,
         Verdict, Departures, [Next]_vars
  PROVE  Snapshot'
<1>1. /\ todo \subseteq Schedules /\ snap \in [Schedules -> Rows]
  BY DEF TypeOK
<1>2. ASSUME UNCHANGED <<snap, todo>>,
             \A s \in todo : /\ rows[s].status # "unborn" => rows'[s].status # "unborn"
                             /\ \/ InHand(s)'
                                \/ /\ ~InHand(s) /\ (rows'[s].status = "kept" => rows[s].status = "kept")
                                   /\ Pending(rows[s]) /\ rows[s].status = "kept" => rows'[s].status = "kept"
                                   /\ rows'[s].status = "kept" =>
                                        /\ rows'[s].next = rows[s].next /\ rows'[s].due = rows[s].due
                                        /\ rows'[s].phase = rows[s].phase /\ rows'[s].pdate = rows[s].pdate
      PROVE  Snapshot'
  <2>1. \A s \in todo : Pending(snap[s]) /\ ~InHand(s) => Pending(rows[s])
    BY DEF Snapshot, Pending
  <2>2. QED
    BY <1>2, <2>1 DEF Snapshot, Kept, Pending
<1>3. ASSUME todo = {}, todo' = {} PROVE Snapshot'
  BY <1>3 DEF Snapshot
<1>4. ASSUME NEW n \in Schedules, RequestSchedule(n) PROVE Snapshot'
  <2> DEFINE gone == [NoRow EXCEPT !.status = "removed"]
  <2>1. gone.status = "removed"
    BY DEF NoRow
  <2> HIDE DEF gone
  <2>2. /\ rows[n].status = "unborn"
        /\ \A o \in Schedules : o # n =>
             \/ rows'[o] = rows[o]
             \/ Kept(o) /\ ~Pending(rows[o]) /\ rows'[o] = gone
    BY <1>4, CreateEffect DEF gone
  <2>3. UNCHANGED <<snap, todo, pc, wake>>
    BY <1>4 DEF RequestSchedule, tick, reading, item
  <2>4. \A s \in todo : s # n /\ s \in Schedules
    BY <1>1, <2>2 DEF Snapshot
  <2>5. QED
    BY <1>2, <2>1, <2>2, <2>3, <2>4 DEF InHand
<1>5. ASSUME NEW n \in Schedules, RequestCancel(n) PROVE Snapshot'
  <2>1. UNCHANGED <<snap, todo, pc, wake>>
    BY <1>5 DEF RequestCancel, tick, reading, item
  <2>2. QED
    BY <1>1, <1>2, <1>5, <2>1, CancelEffect DEF InHand
<1>6. ASSUME UNCHANGED <<rows, snap, todo, pc, wake>> PROVE Snapshot'
  BY <1>2, <1>6 DEF InHand
<1>7. ASSUME NEW c \in 1..Clis, RequestCliOnce(c) PROVE Snapshot'
  BY <1>6, <1>7 DEF RequestCliOnce, tick, reading, item
<1>8. CASE Reports
  BY <1>6, <1>8, ReportEffect DEF tick, reading, item
<1>9. CASE Surroundings
  BY <1>6, <1>9 DEF Surroundings, PauseChanges, OwnerChanges, TimePasses, ZoneChanges, stores,
     tick, reading, item
<1>10. CASE TickStarts
  <2>1. snap' = rows /\ rows' = rows /\ todo' = {s \in Schedules : Kept(s)} /\ pc' = "schedules"
    BY <1>10 DEF TickStarts, stores
  <2>2. \A s \in Schedules : ~InHand(s)'
    BY <2>1 DEF InHand, Delivering
  <2>3. QED
    BY <2>1, <2>2 DEF Snapshot, Table, Dating, Kept, Pending
<1>11. ASSUME NEW n \in Schedules, NextSchedule(n), \A s \in todo : s # n => ~InHand(s),
              \A s \in Schedules : s # n => rows'[s] = rows[s]
       PROVE  Snapshot'
  <2>1. todo' = todo \ {n} /\ \A s \in Schedules : s # n => snap'[s] = snap[s]
    BY <1>1, <1>11 DEF NextSchedule
  <2>2. QED
    BY <1>1, <1>11, <2>1 DEF Snapshot, Kept, Pending
<1>12. ASSUME NEW n \in Schedules, LookAtSchedule(n) PROVE Snapshot'
  <2>1. pc = "schedules" /\ rows' = rows
    BY <1>12, LookEffect DEF stores
  <2>2. \A s \in todo : ~InHand(s)
    BY <2>1 DEF InHand, Delivering
  <2>3. CASE NextSchedule(n)
    BY <1>11, <2>1, <2>2, <2>3
  <2>4. CASE pc' = "commit" /\ UNCHANGED <<reading, verdict>>
    BY <1>2, <2>1, <2>2, <2>4 DEF reading
  <2>5. QED
    BY <1>12, <2>3, <2>4, LookEffect
<1>13. CASE Ends
  <2> DEFINE n == wake[1]
  <2>1. n \in Schedules /\ NextSchedule(n) /\ \A s \in Schedules : s # n => rows'[s] = rows[s]
    BY <1>13, EndEffect DEF Ends
  <2>2. \A s \in todo : s # n => ~InHand(s)
    BY DEF InHand
  <2> HIDE DEF n
  <2>3. QED
    BY <1>11, <2>1, <2>2
<1>14. ASSUME NEW dormant \in BOOLEAN, CommitFreezes(dormant) PROVE Snapshot'
  <2> DEFINE n == wake[1]
  <2>1. /\ n \in Schedules /\ rows'[n].status = "kept" /\ pc = "commit"
        /\ \A s \in Schedules : s # n => rows'[s] = rows[s]
        /\ wake' = <<n, look.cal.due>> /\ pc' = IF dormant THEN "missed" ELSE "guards"
        /\ UNCHANGED reading
    BY <1>14, FreezeEffect
  <2>2. pc' \in Delivering /\ wake'[1] = n /\ \A s \in todo : ~InHand(s)
    BY <2>1 DEF InHand, Delivering
  <2>3. UNCHANGED <<snap, todo>>
    BY <2>1 DEF reading
  <2> HIDE DEF n
  <2>4. ASSUME NEW s \in todo
        PROVE  /\ rows[s].status # "unborn" => rows'[s].status # "unborn"
               /\ \/ InHand(s)'
                  \/ ~InHand(s) /\ rows'[s] = rows[s]
    <3>1. s \in Schedules /\ ~InHand(s)
      BY <1>1, <2>2, <2>4
    <3>2. CASE s = n
      BY <2>1, <2>2, <3>2 DEF InHand
    <3>3. CASE s # n
      <4>1. rows'[s] = rows[s]
        BY <2>1, <3>1, <3>3
      <4>2. QED
        BY <3>1, <4>1
    <3>4. QED
      BY <3>2, <3>3
  <2>5. QED
    BY <1>2, <2>3, <2>4
<1>15. CASE CommitResumes
  <2>1. UNCHANGED <<rows, snap, todo, wake>> /\ pc = "commit"
    BY <1>15 DEF CommitResumes, stores, reading, item
  <2>2. \A s \in todo : ~InHand(s)
    BY <2>1 DEF InHand, Delivering
  <2>3. QED
    BY <1>2, <2>1, <2>2
<1>16. CASE Deliver
  <2>1. UNCHANGED <<rows, snap, todo, wake>> /\ pc \in Delivering /\ pc' \in Delivering
    BY <1>16, DeliverEffect DEF reading
  <2>2. QED
    BY <1>2, <2>1 DEF InHand
<1>17. CASE ReadsPage \/ TickEnds \/ DaemonRestarts
  BY <1>17 DEF ReadsPage, TickEnds, DaemonRestarts, Control, Snapshot
<1>18. CASE TakesCliWake
  BY <1>3, <1>18 DEF TakesCliWake, Control, reading
<1>19. CASE SettleCli
  BY <1>3, <1>19 DEF SettleCli, Control, Delivering
<1>20. CASE UNCHANGED vars
  BY <1>6, <1>20 DEF vars, stores, reading, item
<1>21. QED
  BY <1>4, <1>5, <1>7, <1>8, <1>9, <1>10, <1>12, <1>13, <1>14, <1>15, <1>16, <1>17, <1>18, <1>19,
     <1>20 DEF Next, Requests, Reports, Purges, Tick, Ends

(* An occurrence that is tried again is still the one of its row.          *)
LEMMA CommitWake ==
  ASSUME TypeOK, Control, Clocks, Table, Snapshot, Look, pc = "commit", Pending(snap[wake[1]])
  PROVE  /\ wake \in Wakes /\ wake[1] \in Schedules /\ Kept(wake[1])
         /\ rows[wake[1]].due = wake[2] /\ Pending(rows[wake[1]])
<1>1. /\ wake[1] \in Schedules /\ wake[1] \in todo /\ ~InHand(wake[1])
      /\ wake = <<wake[1], snap[wake[1]].due>>
  BY AtCommit
<1>2. Kept(wake[1]) /\ rows[wake[1]].due = snap[wake[1]].due /\ Pending(rows[wake[1]])
  BY <1>1 DEF Snapshot, Pending
<1>3. rows[wake[1]].due # None
  BY <1>1, <1>2 DEF Table, Pending, Unsettled
<1>4. wake \in Wakes
  BY <1>1, <1>2, <1>3, KeyTyped DEF Key
<1>5. QED
  BY <1>1, <1>2, <1>4 DEF Look

(* What was true of a wake stays true when a report comes in.              *)
LEMMA TruthKept ==
  ASSUME TypeOK, Reports, NEW phase, NEW w \in Wakes, Truth(phase, w)
  PROVE  /\ phase = "confirmed" => delivery'[w] = "acked"
         /\ phase = "committed_thread" => w \in posted'
         /\ phase \in {"missed_before_departure", "owner_unavailable"} =>
                w \notin posted' /\ delivery'[w] = "none"
         /\ phase \in {"dispatching_agent", "outcome_unknown"} => delivery'[w] # "none"
<1>1. /\ posted' = posted
      /\ delivery'[w] = delivery[w]
           \/ (delivery[w] = "dispatching" /\ delivery'[w] \in {"acked", "unknown"})
  BY ReportEffect
<1>2. /\ delivery[w] = "acked" => delivery'[w] = "acked"
      /\ delivery[w] = "none" <=> delivery'[w] = "none"
  BY <1>1
<1>3. QED
  BY <1>1, <1>2 DEF Truth

(* What was read before the mutex was taken is still true when it is acted *)
(* on.                                                                     *)
LEMMA LookNext ==
  ASSUME TypeOK, Control, Clocks, Table, Dating, Taken, Snapshot, Look, Calendar, Occurrence,
         Verdict, Departures, [Next]_vars
  PROVE  Look'
<1>1. ASSUME pc' # "commit" PROVE Look'
  BY <1>1 DEF Look
<1>2. ASSUME UNCHANGED <<tick, delivery, posted>> PROVE Look'
  BY <1>2 DEF Look, tick, reading, item, Truth, Pending
<1>3. CASE Reports
  <2>1. UNCHANGED <<at, snap, look, wake, pc>>
    BY <1>3, ReportEffect DEF tick, reading, item
  <2>2. CASE pc = "commit"
    <3>1. CASE look.ends = "none"
      BY <2>1, <2>2, <3>1 DEF Look, Truth, Pending
    <3>2. CASE look.ends # "none"
      <4>1. wake \in Wakes
        BY <2>2, <3>2, CommitWake DEF Look
      <4>2. Truth(look.ends, wake)'
        <5>1. Truth(look.ends, wake)
          BY <2>2 DEF Look
        <5>2. QED
          BY <1>3, <2>1, <4>1, <5>1, TruthKept DEF Truth
      <4> HIDE DEF Truth
      <4>3. QED
        BY <2>1, <2>2, <4>2 DEF Look, Pending
    <3>3. QED
      BY <3>1, <3>2
  <2>3. QED
    BY <1>1, <2>1, <2>2
<1>4. ASSUME NEW s \in Schedules, LookAtSchedule(s) PROVE Look'
  <2>1. CASE pc' # "commit"
    BY <1>1, <2>1
  <2>2. CASE pc' = "commit"
    <3>1. ~NextSchedule(s)
      BY <2>2 DEF NextSchedule
    <3>2. /\ wake' = <<s, snap[s].due>> /\ UNCHANGED reading /\ UNCHANGED <<clocks, stores>>
          /\ look'.ends \in {"none", "committed_thread", "confirmed", "outcome_unknown",
                             "owner_unavailable"}
          /\ Truth(look'.ends, <<s, snap[s].due>>)
          /\ look'.ends # "none" => Pending(snap[s]) /\ look'.cal.next >= snap[s].next
          /\ look'.cal.due # None => /\ look'.cal.due <= at /\ snap[s].next <= at
                                     /\ s \in AtSchedules => look'.cal.date # None
          /\ look'.cal.date # None => /\ look'.cal.date # snap[s].pdate
                                      /\ Epoch(look'.cal.due, look'.cal.date)
          /\ Pending(snap[s]) /\ look'.ends = "none" => look'.cal.next = snap[s].next
      BY <1>4, <3>1, LookEffect
    <3>3. wake'[1] = s /\ wake'[2] = snap[s].due /\ snap' = snap /\ at' = at
      BY <3>2 DEF reading
    <3>4. Truth(look.ends, wake)'
      BY <3>2 DEF Truth, stores
    <3>5. QED
      BY <3>2, <3>3, <3>4 DEF Look, Pending
  <2>3. QED
    BY <2>1, <2>2
<1>5. ASSUME NEW s \in Schedules, RequestSchedule(s) \/ RequestCancel(s) PROVE Look'
  BY <1>2, <1>5 DEF RequestSchedule, RequestCancel
<1>6. ASSUME NEW c \in 1..Clis, RequestCliOnce(c) PROVE Look'
  BY <1>2, <1>6 DEF RequestCliOnce
<1>7. CASE Surroundings
  BY <1>2, <1>7 DEF Surroundings, PauseChanges, OwnerChanges, TimePasses, ZoneChanges, stores
<1>8. CASE Ends
  BY <1>1, <1>8 DEF Ends, CommitEnds, CommitAdvances, CommitMissed, SettleSchedule, NextSchedule
<1>9. ASSUME NEW dormant \in BOOLEAN, CommitFreezes(dormant) PROVE Look'
  BY <1>1, <1>9 DEF CommitFreezes
<1>10. CASE Deliver
  BY <1>1, <1>10, DeliverEffect DEF Delivering
<1>11. CASE \/ TickStarts \/ CommitResumes \/ ReadsPage \/ TakesCliWake \/ SettleCli
            \/ TickEnds \/ DaemonRestarts
  BY <1>1, <1>11
     DEF TickStarts, CommitResumes, ReadsPage, TakesCliWake, SettleCli, TickEnds, DaemonRestarts
<1>12. CASE UNCHANGED vars
  BY <1>2, <1>12 DEF vars, stores, tick
<1>13. QED
  BY <1>3, <1>4, <1>5, <1>6, <1>7, <1>8, <1>9, <1>10, <1>11, <1>12
     DEF Next, Requests, Reports, Purges, Tick, Ends

(* Every step keeps the calendar in hand.                                  *)
LEMMA CalendarNext ==
  ASSUME TypeOK, Control, Clocks, Table, Dating, Taken, Snapshot, Look, Calendar, Occurrence,
         Verdict, Departures, [Next]_vars
  PROVE  Calendar'
<1>1. ASSUME pc' \notin {"commit"} \cup Delivering PROVE Calendar'
  BY <1>1 DEF Calendar
<1>2. CASE Requests \/ Surroundings
  BY <1>2, OutsideTick DEF Calendar, tick, reading, item
<1>3. ASSUME NEW s \in Schedules, LookAtSchedule(s) PROVE Calendar'
  <2>1. CASE NextSchedule(s)
    BY <1>1, <2>1 DEF NextSchedule, Delivering
  <2>2. CASE ~NextSchedule(s)
    <3>1. /\ wake' = <<s, snap[s].due>> /\ pc' = "commit"
          /\ look'.cal.ndate # None => Epoch(look'.cal.next, look'.cal.ndate)
          /\ s \notin AtSchedules => look'.cal.ndate = None /\ look'.cal.date = None
      BY <1>3, <2>2, LookEffect
    <3>2. wake'[1] = s
      BY <3>1
    <3>3. QED
      BY <3>1, <3>2 DEF Calendar
  <2>3. QED
    BY <2>1, <2>2
<1>4. CASE Ends
  BY <1>1, <1>4
     DEF Ends, CommitEnds, CommitAdvances, CommitMissed, SettleSchedule, NextSchedule, Delivering
<1>5. ASSUME NEW dormant \in BOOLEAN, CommitFreezes(dormant) PROVE Calendar'
  <2>1. /\ wake' = <<wake[1], look.cal.due>> /\ UNCHANGED <<reading, look>> /\ snap[wake[1]].next <= at
        /\ pc = "commit" /\ wake[1] \in Schedules
    BY <1>5, FreezeEffect
  <2>2. wake'[1] = wake[1] /\ Scheduled(wake)
    BY <2>1 DEF Control
  <2>3. snap[wake[1]].next \in Int /\ at \in Int
    BY <2>1 DEF TypeOK, Rows, Times
  <2>4. QED
    BY <2>1, <2>2, <2>3 DEF Calendar, reading
<1>6. CASE CommitResumes
  <2>1. /\ pc = "commit" /\ pc' = "guards" /\ UNCHANGED <<at, snap, wake, look>>
        /\ look.ends = "none" /\ Pending(snap[wake[1]])
    BY <1>6 DEF CommitResumes, reading, item
  <2>2. look.cal.next = snap[wake[1]].next
    BY <2>1 DEF Look
  <2>3. QED
    BY <2>1, <2>2 DEF Calendar
<1>7. CASE Deliver
  BY <1>7, DeliverEffect DEF Calendar, Delivering, reading
<1>8. CASE TickStarts \/ ReadsPage \/ SettleCli \/ TickEnds \/ DaemonRestarts
  BY <1>1, <1>8 DEF TickStarts, ReadsPage, SettleCli, TickEnds, DaemonRestarts, Delivering
<1>9. CASE TakesCliWake
  BY <1>9 DEF TakesCliWake, Calendar, Scheduled
<1>10. CASE UNCHANGED vars
  BY <1>10 DEF vars, reading, item, Calendar
<1>11. QED
  BY <1>2, <1>3, <1>4, <1>5, <1>6, <1>7, <1>8, <1>9, <1>10 DEF Next, Tick, Ends

(* Nobody closes or removes the occurrence in hand.                        *)
LEMMA OccurrenceNext ==
  ASSUME TypeOK, Control, Clocks, Table, Dating, Taken, Snapshot, Look, Calendar, Occurrence,
         Verdict, Departures, [Next]_vars
  PROVE  Occurrence'
<1>1. ASSUME pc' \notin Delivering PROVE Occurrence'
  BY <1>1 DEF Occurrence
<1>2. ASSUME UNCHANGED <<rows, wake, pc>> PROVE Occurrence'
  BY <1>2 DEF Occurrence, Kept, Pending
<1>3. ASSUME NEW n \in Schedules, RequestSchedule(n) PROVE Occurrence'
  <2>1. UNCHANGED <<pc, wake>>
    BY <1>3 DEF RequestSchedule, tick, item
  <2>2. CASE pc \in Delivering /\ Scheduled(wake)
    <3>1. /\ wake[1] \in Schedules /\ Kept(wake[1]) /\ Pending(rows[wake[1]])
      BY <2>2, InHandFacts DEF Occurrence
    <3>2. rows'[wake[1]] = rows[wake[1]]
      BY <1>3, <3>1, CreateEffect DEF Kept
    <3>3. QED
      BY <2>1, <2>2, <3>2 DEF Occurrence, Kept, Pending
  <2>3. QED
    BY <2>1, <2>2 DEF Occurrence
<1>4. ASSUME NEW n \in Schedules, RequestCancel(n) PROVE Occurrence'
  <2>1. UNCHANGED <<pc, wake>>
    BY <1>4 DEF RequestCancel, tick, item
  <2>2. pc \in Delivering /\ Scheduled(wake) => wake[1] \in Schedules
    BY InHandFacts
  <2>3. QED
    BY <1>4, <2>1, <2>2, CancelEffect DEF Occurrence, Kept, Pending
<1>5. ASSUME NEW c \in 1..Clis, RequestCliOnce(c) PROVE Occurrence'
  BY <1>2, <1>5 DEF RequestCliOnce, tick, item
<1>6. CASE Reports
  BY <1>2, <1>6, ReportEffect DEF tick, item
<1>7. CASE Surroundings
  BY <1>2, <1>7 DEF Surroundings, PauseChanges, OwnerChanges, TimePasses, ZoneChanges, stores,
     tick, item
<1>8. ASSUME NEW s \in Schedules, LookAtSchedule(s) PROVE Occurrence'
  BY <1>1, <1>8, LookEffect DEF NextSchedule, Delivering
<1>9. CASE Ends
  BY <1>1, <1>9
     DEF Ends, CommitEnds, CommitAdvances, CommitMissed, SettleSchedule, NextSchedule, Delivering
<1>10. ASSUME NEW dormant \in BOOLEAN, CommitFreezes(dormant) PROVE Occurrence'
  <2> DEFINE n == wake[1]
  <2>1. /\ n \in Schedules /\ wake' = <<n, look.cal.due>>
        /\ rows'[n].status = "kept" /\ rows'[n].due = look.cal.due /\ rows'[n].phase = "prepared"
    BY <1>10, FreezeEffect
  <2>2. wake'[1] = n /\ wake'[2] = look.cal.due
    BY <2>1
  <2>3. QED
    BY <2>1, <2>2 DEF Occurrence, Kept, Pending, Unsettled
<1>11. CASE CommitResumes
  <2>1. pc = "commit" /\ UNCHANGED <<rows, wake>> /\ Pending(snap[wake[1]])
    BY <1>11 DEF CommitResumes, stores, item
  <2>2. QED
    BY <2>1, CommitWake DEF Occurrence, Kept, Pending
<1>12. CASE Deliver
  BY <1>12, DeliverEffect DEF Occurrence, Kept, Pending
<1>13. CASE TickStarts \/ ReadsPage \/ SettleCli \/ TickEnds \/ DaemonRestarts
  BY <1>1, <1>13 DEF TickStarts, ReadsPage, SettleCli, TickEnds, DaemonRestarts, Delivering
<1>14. CASE TakesCliWake
  BY <1>14 DEF TakesCliWake, Occurrence, Scheduled
<1>15. CASE UNCHANGED vars
  BY <1>2, <1>15 DEF vars, stores, item
<1>16. QED
  BY <1>3, <1>4, <1>5, <1>6, <1>7, <1>8, <1>9, <1>10, <1>11, <1>12, <1>13, <1>14, <1>15
     DEF Next, Requests, Reports, Purges, Tick, Ends

(* What the guards found holds until the verdict is stored.                *)
LEMMA VerdictNext ==
  ASSUME TypeOK, Control, Clocks, Table, Dating, Taken, Snapshot, Look, Calendar, Occurrence,
         Verdict, Departures, [Next]_vars
  PROVE  Verdict'
<1>1. ASSUME pc' \notin {"missed", "post", "accept", "depart", "write", "mark", "settle"} PROVE Verdict'
  BY <1>1 DEF Verdict
<1>2. ASSUME UNCHANGED <<stores, paused, ownerLives, wake, verdict, pc>> PROVE Verdict'
  BY <1>2 DEF Verdict, stores, Truth
<1>3. ASSUME MutexFree, UNCHANGED <<delivery, posted, wake, verdict, pc>> PROVE Verdict'
  BY <1>3 DEF MutexFree, Verdict, Truth
<1>4. ASSUME NEW s \in Schedules, RequestSchedule(s) \/ RequestCancel(s) PROVE Verdict'
  BY <1>3, <1>4 DEF RequestSchedule, RequestCancel, tick, item
<1>5. ASSUME NEW c \in 1..Clis, RequestCliOnce(c) PROVE Verdict'
  BY <1>3, <1>5 DEF RequestCliOnce, tick, item
<1>6. CASE Reports
  <2>1. MutexFree /\ UNCHANGED <<wake, verdict, pc, posted>>
    BY <1>6, ReportEffect DEF tick, item
  <2>2. CASE pc \notin {"depart", "mark", "settle"}
    BY <1>1, <2>1, <2>2 DEF MutexFree
  <2>3. CASE pc = "depart"
    BY <2>1, <2>3 DEF Verdict
  <2>4. CASE pc = "mark"
    <3>1. delivery'[wake] # "none"
      <4>1. delivery[wake] # "none" /\ wake \in Wakes
        BY <2>4 DEF Verdict, Control, Delivering
      <4>2. QED
        BY <1>6, <4>1, ReportEffect
    <3>2. QED
      BY <2>1, <2>4, <3>1 DEF Verdict
  <2>5. CASE pc = "settle"
    <3>1. Truth(verdict, wake) /\ wake \in Wakes
      BY <2>5 DEF Verdict, Control, Delivering
    <3>2. Truth(verdict, wake)'
      BY <1>6, <2>1, <3>1, TruthKept DEF Truth
    <3> HIDE DEF Truth
    <3>3. QED
      BY <2>1, <2>5, <3>2 DEF Verdict
  <2>6. QED
    BY <2>2, <2>3, <2>4, <2>5
<1>7. CASE Surroundings
  <2>1. CASE PauseChanges \/ OwnerChanges
    BY <1>3, <2>1 DEF PauseChanges, OwnerChanges, stores, tick, item
  <2>2. CASE TimePasses \/ \E z \in Zones : ZoneChanges(z)
    BY <1>2, <2>2 DEF TimePasses, ZoneChanges, stores, tick, item
  <2>3. QED
    BY <1>7, <2>1, <2>2 DEF Surroundings
<1>8. ASSUME NEW s \in Schedules, LookAtSchedule(s) PROVE Verdict'
  BY <1>1, <1>8, LookEffect DEF NextSchedule
<1>9. CASE Ends
  BY <1>1, <1>9 DEF Ends, CommitEnds, CommitAdvances, CommitMissed, SettleSchedule, NextSchedule
<1>10. ASSUME NEW dormant \in BOOLEAN, CommitFreezes(dormant) PROVE Verdict'
  <2>1. /\ pc' = IF dormant THEN "missed" ELSE "guards"
        /\ delivery[wake'] = "none" /\ wake' \notin posted /\ posted' = posted /\ delivery' = delivery
    BY <1>10, FreezeEffect
  <2>2. QED
    BY <2>1 DEF Verdict
<1>11. CASE GuardsFindProof
  <2>1. /\ pc = "guards" /\ pc' = "settle" /\ verdict' = Proven(wake) /\ Proven(wake) # "none"
        /\ UNCHANGED <<wake, delivery, posted>>
    BY <1>11 DEF GuardsFindProof, Concludes
  <2>2. wake \in Wakes
    BY <2>1 DEF Control, Delivering
  <2>3. Truth(Proven(wake), wake) /\ Proven(wake) \notin {"none", "prepared"}
    BY <2>1, <2>2, ProvenFacts
  <2>4. Truth(verdict, wake)'
    BY <2>1, <2>3 DEF Truth
  <2> HIDE DEF Truth
  <2>5. QED
    BY <2>1, <2>3, <2>4 DEF Verdict
<1>12. CASE Refused
  <2>1. pc' = "settle" /\ UNCHANGED <<stores, wake>> /\ Truth(verdict', wake)
        /\ verdict' \notin {"none", "prepared"}
    BY <1>12, RefusedEffect
  <2>2. Truth(verdict, wake)'
    BY <2>1 DEF Truth, stores
  <2> HIDE DEF Truth
  <2>3. QED
    BY <2>1, <2>2 DEF Verdict
<1>13. CASE GuardsPost
  <2>1. /\ pc = "guards" /\ pc' = "post" /\ Proven(wake) = "none" /\ MayLeave(wake)
        /\ (Scheduled(wake) => ownerLives) /\ ~paused /\ ToThread(wake)
        /\ cli' = IF Scheduled(wake) THEN cli ELSE [cli EXCEPT ![wake[2]].state = "dispatching"]
        /\ UNCHANGED <<wake, delivery, posted, rows, paused, ownerLives>>
    BY <1>13 DEF GuardsPost, item, clocks
  <2>2. wake \in Wakes /\ (~Scheduled(wake) => wake[2] \in 1..Clis)
    BY <2>1, InHandFacts DEF Delivering
  <2>3. delivery[wake] = "none" /\ wake \notin posted
    BY <2>1, <2>2, ProvenFacts
  <2>4. ~Scheduled(wake) => cli'[wake[2]].state = "dispatching"
    BY <2>1, <2>2 DEF TypeOK, CliRecords
  <2>5. Scheduled(wake) => rows[wake[1]].cancelled = None
    BY <2>1 DEF MayLeave, Current
  <2>6. QED
    BY <2>1, <2>3, <2>4, <2>5 DEF Verdict, Scheduled, ToThread
<1>14. CASE PostCommits
  <2>1. /\ pc = "post" /\ posted' = posted \cup {wake} /\ verdict' = "committed_thread"
        /\ pc' = (IF Scheduled(wake) THEN "settle" ELSE "accept") /\ wake' = wake
    BY <1>14 DEF PostCommits
  <2>2. ToThread(wake)
    BY <2>1 DEF Verdict
  <2>3. QED
    BY <2>1, <2>2 DEF Verdict, Truth, Scheduled, ToThread
<1>15. CASE PostAccepted
  <2>1. /\ pc = "accept" /\ pc' = "settle" /\ UNCHANGED <<wake, verdict, posted>>
    BY <1>15 DEF PostAccepted, item
  <2>2. QED
    BY <2>1 DEF Verdict, Truth
<1>16. CASE GuardsRoute
  BY <1>16 DEF GuardsRoute, item, Verdict, ToThread, Scheduled
<1>17. CASE DepartCommits
  <2>1. /\ pc = "depart" /\ pc' = "write" /\ delivery[wake] = "none" /\ wake' = wake /\ left' = left
        /\ delivery' = [delivery EXCEPT ![wake] = "dispatching"]
    BY <1>17 DEF DepartCommits, item
  <2>2. wake \in Wakes /\ ~ToThread(wake)
    BY <2>1 DEF Verdict, Control, Delivering
  <2>3. left[wake] = 0
    BY <2>1, <2>2 DEF Departures
  <2>4. delivery'[wake] = "dispatching"
    BY <2>1, <2>2 DEF TypeOK
  <2>5. QED
    BY <2>1, <2>2, <2>3, <2>4 DEF Verdict, ToThread, Scheduled
<1>18. CASE Writes
  <2>1. pc = "write" /\ pc' = "settle" /\ verdict' = "dispatching_agent" /\ UNCHANGED <<wake, delivery>>
    BY <1>18 DEF Writes, Concludes
  <2>2. QED
    BY <2>1 DEF Verdict, Truth
<1>19. ASSUME NEW arrived \in BOOLEAN, WriteFails(arrived) PROVE Verdict'
  <2>1. pc = "write" /\ pc' = "mark" /\ UNCHANGED <<wake, delivery>>
    BY <1>19 DEF WriteFails, item
  <2>2. QED
    BY <2>1 DEF Verdict, ToThread, Scheduled
<1>20. CASE WriteMarked
  <2>1. /\ pc = "mark" /\ pc' = "settle" /\ verdict' = "dispatching_agent" /\ wake' = wake
        /\ delivery' = IF delivery[wake] = "dispatching" THEN [delivery EXCEPT ![wake] = "unknown"]
                       ELSE delivery
    BY <1>20 DEF WriteMarked, Concludes
  <2>2. wake \in Wakes /\ delivery[wake] # "none"
    BY <2>1 DEF Verdict, Control, Delivering
  <2>3. delivery'[wake] # "none"
    BY <2>1, <2>2 DEF TypeOK
  <2>4. QED
    BY <2>1, <2>3 DEF Verdict, Truth
<1>21. CASE Deliver
  BY <1>11, <1>12, <1>13, <1>14, <1>15, <1>16, <1>17, <1>18, <1>19, <1>20, <1>21 DEF Deliver, Refused
<1>22. CASE \/ TickStarts \/ CommitResumes \/ ReadsPage \/ TakesCliWake \/ SettleCli
            \/ TickEnds \/ DaemonRestarts
  BY <1>1, <1>22
     DEF TickStarts, CommitResumes, ReadsPage, TakesCliWake, SettleCli, TickEnds, DaemonRestarts
<1>23. CASE UNCHANGED vars
  BY <1>2, <1>23 DEF vars, clocks, item
<1>24. QED
  BY <1>4, <1>5, <1>6, <1>7, <1>8, <1>9, <1>10, <1>21, <1>22, <1>23
     DEF Next, Requests, Reports, Purges, Tick, Ends

(* Every step keeps the types.                                             *)
LEMMA TypeOKNext ==
  ASSUME TypeOK, Control, Clocks, Table, Dating, Taken, Snapshot, Look, Calendar, Occurrence,
         Verdict, Departures, [Next]_vars
  PROVE  TypeOK'
<1> USE DEF Times
<1>1. NoRow \in Rows /\ NoLook \in [closed : BOOLEAN, ends : Phases, cal : Calendars]
  BY NoRowTyped DEF TypeOK
<1>2. ASSUME UNCHANGED <<clocks, delivery, posted, left, frozen, cli, tick>>,
             rows' \in [Schedules -> Rows]
      PROVE  TypeOK'
  BY <1>2 DEF TypeOK, clocks, tick, reading, item
<1>3. ASSUME NEW s \in Schedules, RequestSchedule(s) PROVE TypeOK'
  BY <1>2, <1>3, CreateEffect DEF RequestSchedule
<1>4. ASSUME NEW s \in Schedules, RequestCancel(s) PROVE TypeOK'
  BY <1>2, <1>4, CancelEffect DEF RequestCancel
<1>5. ASSUME UNCHANGED <<rows, frozen, clocks, tick>>,
             cli' \in [1..Clis -> CliRecords],
             delivery' \in [Wakes -> {"none", "dispatching", "acked", "unknown"}],
             posted' \subseteq Wakes, left' \in [Wakes -> Nat]
      PROVE  TypeOK'
  BY <1>5 DEF TypeOK, clocks, tick, reading, item
<1>6. ASSUME NEW c \in 1..Clis, NEW p \in CliStates
      PROVE  [cli EXCEPT ![c].state = p] \in [1..Clis -> CliRecords]
  <2>1. cli[c] \in CliRecords
    BY DEF TypeOK
  <2>2. [cli[c] EXCEPT !.state = p] \in CliRecords
    BY <2>1 DEF CliRecords
  <2>3. QED
    BY <2>2 DEF TypeOK
<1>7. ASSUME NEW c \in 1..Clis, RequestCliOnce(c) PROVE TypeOK'
  <2>1. [state |-> "prepared", issued |-> now] \in CliRecords
    BY DEF TypeOK, CliRecords, CliStates
  <2>2. cli' \in [1..Clis -> CliRecords]
    BY <1>7, <2>1 DEF TypeOK, RequestCliOnce
  <2>3. QED
    BY <1>5, <1>7, <2>2 DEF TypeOK, RequestCliOnce
<1>8. ASSUME NEW w \in Wakes, Acknowledged(w) PROVE TypeOK'
  <2>1. w \in CliWakes => w[2] \in 1..Clis
    BY DEF CliWakes
  <2>2. cli' \in [1..Clis -> CliRecords]
    BY <1>6, <1>8, <2>1 DEF TypeOK, Acknowledged, CliStates
  <2>3. QED
    BY <1>5, <1>8, <2>2 DEF TypeOK, Acknowledged
<1>9. ASSUME NEW w \in Wakes, BecomesUnknown(w) PROVE TypeOK'
  BY <1>5, <1>9 DEF TypeOK, BecomesUnknown
<1>9a. CASE Purges
  <2>1. /\ UNCHANGED <<clocks, rows, posted, left, frozen, tick>>
        /\ delivery' \in [Wakes -> {"none", "dispatching", "acked", "unknown"}]
        /\ cli' \in [1..Clis -> CliRecords]
    BY <1>9a, PurgeEffect
  <2>2. QED
    BY <2>1, <1>5 DEF TypeOK
<1>10. CASE Surroundings
  <2>1. /\ now' \in Times /\ zone' \in Zones /\ paused' \in BOOLEAN /\ ownerLives' \in BOOLEAN
        /\ crashes' \in 0..MaxCrashes /\ zoneChanges' \in 0..MaxZoneChanges
    <3>1. CASE PauseChanges \/ OwnerChanges
      BY <3>1 DEF TypeOK, PauseChanges, OwnerChanges
    <3>2. CASE TimePasses
      BY <3>2, WakesAssumption DEF TypeOK, TimePasses
    <3>3. ASSUME NEW z \in Zones, ZoneChanges(z)
          PROVE  zone' \in Zones /\ zoneChanges' \in 0..MaxZoneChanges
                 /\ UNCHANGED <<now, paused, ownerLives, crashes>>
      BY <3>3, WakesAssumption DEF TypeOK, ZoneChanges
    <3>4. QED
      BY <1>10, <3>1, <3>2, <3>3 DEF TypeOK, Surroundings
  <2>2. UNCHANGED <<stores, tick>>
    BY <1>10 DEF Surroundings, PauseChanges, OwnerChanges, TimePasses, ZoneChanges
  <2>3. QED
    BY <2>1, <2>2 DEF TypeOK, stores, tick, reading, item
<1>11. CASE TickStarts
  BY <1>11 DEF TypeOK, TickStarts, clocks, stores, item
<1>12. ASSUME NEW s \in Schedules, NextSchedule(s),
              UNCHANGED <<clocks, cli, delivery, posted, left, frozen>>,
              rows' \in [Schedules -> Rows]
       PROVE  TypeOK'
  <2>1. snap' \in [Schedules -> Rows] /\ todo' \subseteq Schedules
    BY <1>1, <1>12 DEF TypeOK, NextSchedule
  <2>2. verdict' \in Phases \cup {"error"} /\ look' \in [closed : BOOLEAN, ends : Phases, cal : Calendars]
    BY <1>1, <1>12 DEF NextSchedule, Phases
  <2>3. QED
    BY <1>12, <2>1, <2>2 DEF TypeOK, NextSchedule, clocks
<1>13. ASSUME NEW s \in Schedules, LookAtSchedule(s) PROVE TypeOK'
  <2>1. UNCHANGED <<clocks, stores>> /\ rows' \in [Schedules -> Rows]
    BY <1>13, LookEffect DEF TypeOK, stores
  <2>2. CASE NextSchedule(s)
    BY <1>12, <2>1, <2>2 DEF stores
  <2>3. CASE ~NextSchedule(s)
    <3>1. /\ pc' = "commit" /\ wake' = <<s, snap[s].due>> /\ UNCHANGED <<reading, verdict>>
          /\ look' \in [closed : BOOLEAN, ends : Phases, cal : Calendars]
      BY <1>13, <2>3, LookEffect
    <3>2. wake' \in Schedules \X Int
      BY <3>1 DEF TypeOK, Rows
    <3>3. QED
      BY <2>1, <3>1, <3>2 DEF TypeOK, clocks, stores, reading
  <2>4. QED
    BY <2>2, <2>3
<1>14. CASE Ends
  <2> DEFINE n == wake[1]
  <2>1. /\ n \in Schedules /\ NextSchedule(n)
        /\ UNCHANGED <<clocks, cli, delivery, posted, left, frozen>>
        /\ rows' \in [Schedules -> Rows]
    BY <1>14, EndEffect DEF Ends
  <2> HIDE DEF n
  <2>2. QED
    BY <1>12, <2>1
<1>15. ASSUME NEW dormant \in BOOLEAN, CommitFreezes(dormant) PROVE TypeOK'
  <2> DEFINE n == wake[1]
             o == [due |-> look.cal.due, date |-> look.cal.date]
  <2>1. /\ n \in Schedules /\ wake' = <<n, look.cal.due>> /\ look.cal.due \in Times
        /\ pc' = (IF dormant THEN "missed" ELSE "guards") /\ posted' = posted
        /\ UNCHANGED <<clocks, cli, delivery, left, reading, look, verdict>>
        /\ rows' \in [Schedules -> Rows]
        /\ frozen' = [frozen EXCEPT ![n] = @ \cup {o}]
    BY <1>15, FreezeEffect
  <2>2. o \in [due : Int, date : Dates \cup {None}]
    <3>1. look.cal \in Calendars
      BY DEF TypeOK
    <3>2. QED
      BY <3>1 DEF Calendars
  <2> HIDE DEF o
  <2>3. frozen' \in [Schedules -> SUBSET [due : Int, date : Dates \cup {None}]]
    BY <2>1, <2>2 DEF TypeOK
  <2>4. wake' \in Schedules \X Int
    BY <2>1
  <2> HIDE DEF n
  <2>5. QED
    BY <2>1, <2>3, <2>4 DEF TypeOK, clocks, reading
<1>16. CASE CommitResumes
  BY <1>16 DEF TypeOK, CommitResumes, clocks, stores, reading, item
<1>17. CASE Deliver
  <2>1. /\ pc' \in Delivering /\ UNCHANGED <<clocks, rows, frozen, reading, wake, look>>
        /\ pc \in Delivering
    BY <1>17, DeliverEffect
  <2>2. wake \in Wakes /\ (~Scheduled(wake) => wake[2] \in 1..Clis)
    BY <2>1, InHandFacts
  <2>3. cli' \in [1..Clis -> CliRecords]
    <3>1. ASSUME cli' = cli PROVE cli' \in [1..Clis -> CliRecords]
      BY <3>1 DEF TypeOK
    <3>2. ASSUME ~Scheduled(wake), NEW p \in CliStates, cli' = [cli EXCEPT ![wake[2]].state = p]
          PROVE  cli' \in [1..Clis -> CliRecords]
      BY <1>6, <2>2, <3>2
    <3>3. CASE PostAccepted
      <4>1. ~Scheduled(wake) /\ cli' = [cli EXCEPT ![wake[2]].state = "accepted"]
        BY <3>3 DEF PostAccepted, Verdict
      <4>2. QED
        BY <3>2, <4>1 DEF CliStates
    <3>4. CASE GuardsFindProof
      BY <3>1, <3>2, <3>4 DEF GuardsFindProof, CliStates
    <3>5. CASE GuardsPost
      BY <3>1, <3>2, <3>5 DEF GuardsPost, CliStates
    <3>6. CASE DepartCommits
      BY <3>1, <3>2, <3>6 DEF DepartCommits, CliStates
    <3>7. CASE \/ PostCommits \/ Writes \/ WriteMarked \/ GuardsRoute
               \/ \E arrived \in BOOLEAN : WriteFails(arrived)
      <4>1. cli' = cli
        BY <3>7 DEF PostCommits, Writes, WriteMarked, WriteFails, GuardsRoute, stores
      <4>2. QED
        BY <3>1, <4>1
    <3>8. CASE Refused
      <4>1. cli' = cli
        BY <3>8, RefusedEffect DEF stores
      <4>2. QED
        BY <3>1, <4>1
    <3>9. QED
      BY <1>17, <3>3, <3>4, <3>5, <3>6, <3>7, <3>8 DEF Deliver, Refused
  <2>4. /\ delivery' \in [Wakes -> {"none", "dispatching", "acked", "unknown"}]
        /\ posted' \subseteq Wakes /\ left' \in [Wakes -> Nat]
    <3>1. CASE UNCHANGED <<delivery, posted, left>>
      BY <3>1 DEF TypeOK
    <3>2. CASE Departs
      <4>1. ASSUME left' = [left EXCEPT ![wake] = @ + 1] PROVE left' \in [Wakes -> Nat]
        BY <2>2, <4>1 DEF TypeOK
      <4>2. ASSUME NEW p \in {"dispatching", "unknown"}, delivery' = [delivery EXCEPT ![wake] = p]
            PROVE  delivery' \in [Wakes -> {"none", "dispatching", "acked", "unknown"}]
        BY <2>2, <4>2 DEF TypeOK
      <4>3. CASE PostCommits
        BY <2>2, <4>1, <4>3 DEF TypeOK, PostCommits
      <4>4. CASE DepartCommits
        BY <4>2, <4>4 DEF TypeOK, DepartCommits
      <4>5. CASE Writes
        BY <4>1, <4>5 DEF TypeOK, Writes
      <4>6. CASE WriteMarked
        BY <4>2, <4>6 DEF TypeOK, WriteMarked
      <4>7. ASSUME NEW arrived \in BOOLEAN, WriteFails(arrived)
            PROVE  left' \in [Wakes -> Nat] /\ UNCHANGED <<delivery, posted>>
        BY <4>1, <4>7 DEF TypeOK, WriteFails
      <4>8. QED
        BY <3>2, <4>3, <4>4, <4>5, <4>6, <4>7 DEF TypeOK, Departs
    <3>3. CASE GuardsFindProof \/ GuardsPost \/ PostAccepted \/ GuardsRoute
      BY <3>1, <3>3 DEF GuardsFindProof, GuardsPost, PostAccepted, GuardsRoute, stores
    <3>4. CASE Refused
      BY <3>1, <3>4, RefusedEffect DEF stores
    <3>5. QED
      BY <1>17, <3>2, <3>3, <3>4 DEF Deliver, Refused, Departs
  <2>5. verdict' \in Phases \cup {"error"}
    <3>1. CASE GuardsFindProof
      BY <2>2, <3>1, ProvenFacts DEF GuardsFindProof, Concludes
    <3>2. CASE Refused
      BY <3>2, RefusedEffect
    <3>3. CASE PostCommits \/ Writes \/ WriteMarked
      BY <3>3 DEF PostCommits, Writes, WriteMarked, Concludes, Phases, Terminal, Unsettled
    <3>4. CASE \/ DepartCommits \/ GuardsPost \/ PostAccepted \/ GuardsRoute
               \/ \E arrived \in BOOLEAN : WriteFails(arrived)
      BY <3>4 DEF DepartCommits, GuardsPost, PostAccepted, GuardsRoute, WriteFails, item, TypeOK
    <3>5. QED
      BY <1>17, <3>1, <3>2, <3>3, <3>4 DEF Deliver, Refused
  <2>6. QED
    BY <2>1, <2>3, <2>4, <2>5 DEF TypeOK, Delivering, clocks, reading
<1>18. CASE ReadsPage
  <2>1. page' \subseteq 1..Clis
    BY <1>18 DEF ReadsPage, FirstPage, PendingCliWakes
  <2>2. QED
    BY <1>18, <2>1 DEF TypeOK, ReadsPage, clocks, stores, item
<1>19. CASE TakesCliWake
  <2>1. PICK c \in page : wake' = <<Cli, c>>
    BY <1>19 DEF TakesCliWake
  <2>2. wake' \in CliWakes
    BY <2>1 DEF TypeOK, CliWakes
  <2>3. QED
    BY <1>19, <2>2 DEF TypeOK, TakesCliWake, clocks, stores, reading
<1>20. CASE SettleCli
  <2> DEFINE c == wake[2]
             result == CASE verdict \in {"missed_before_departure", "owner_unavailable"} -> "rejected"
                         [] verdict = "outcome_unknown" -> "orphaned"
                         [] OTHER -> cli[c].state
  <2>1. /\ cli' = IF cli[c].state \in CliPending THEN [cli EXCEPT ![c].state = result] ELSE cli
        /\ page' = page \ {c} /\ pc' = "page" /\ wake' = NoWake /\ verdict' = "none"
        /\ UNCHANGED <<clocks, rows, delivery, posted, left, frozen, at, snap, todo, look>>
        /\ pc = "settle" /\ ~Scheduled(wake)
    BY <1>20 DEF SettleCli
  <2>2. c \in 1..Clis
    BY <2>1, InHandFacts DEF Delivering
  <2>3. result \in CliStates
    <3>1. cli[c].state \in CliStates
      BY <2>2 DEF TypeOK, CliRecords
    <3>2. QED
      BY <3>1 DEF CliStates
  <2> HIDE DEF result, c
  <2>4. cli' \in [1..Clis -> CliRecords]
    BY <1>6, <2>1, <2>2, <2>3 DEF TypeOK
  <2>5. QED
    BY <2>1, <2>4 DEF TypeOK, Phases, clocks
<1>21. CASE TickEnds
  BY <1>1, <1>21, WakesAssumption DEF TypeOK, TickEnds, clocks, stores, item
<1>22. CASE DaemonRestarts
  <2>1. crashes' \in 0..MaxCrashes
    BY <1>22, WakesAssumption DEF TypeOK, DaemonRestarts
  <2>2. snap' \in [Schedules -> Rows] /\ at' \in Times
    BY <1>1, <1>22, WakesAssumption DEF DaemonRestarts
  <2>3. QED
    BY <1>1, <1>22, <2>1, <2>2 DEF TypeOK, DaemonRestarts, stores, Phases
<1>23. CASE UNCHANGED vars
  BY <1>23 DEF TypeOK, vars, clocks, stores, reading, item
<1>24. QED
  BY <1>3, <1>4, <1>7, <1>8, <1>9, <1>9a, <1>10, <1>11, <1>13, <1>14, <1>15, <1>16, <1>17, <1>18,
     <1>19, <1>20, <1>21, <1>22, <1>23 DEF Next, Requests, Purges, Tick, Ends

-----------------------------------------------------------------------------
(* The theorems.                                                           *)

(* The invariant holds initially,                                          *)
LEMMA InvInit ==
  ASSUME Init
  PROVE  Inv
<1>1. zone \in Zones /\ 0 \in Times
  BY WakesAssumption DEF Init, Times
<1>2. /\ NoRow \in Rows /\ NoRow.status = "unborn" /\ NoRow.next = 0 /\ NoRow.ndate = None
      /\ NoRow.pdate = None /\ NoRow.due = None /\ NoRow.phase = "none"
      /\ NoLook \in [closed : BOOLEAN, ends : Phases, cal : Calendars]
  BY <1>1, NoRowTyped
<1>3. TypeOK
  <2>1. /\ rows \in [Schedules -> Rows] /\ snap \in [Schedules -> Rows]
    BY <1>2 DEF Init
  <2>2. [state |-> "absent", issued |-> 0] \in CliRecords
    BY <1>1 DEF CliRecords, CliStates
  <2>3. cli \in [1..Clis -> CliRecords]
    BY <2>2 DEF Init
  <2>4. /\ delivery \in [Wakes -> {"none", "dispatching", "acked", "unknown"}]
        /\ posted \subseteq Wakes /\ left \in [Wakes -> Nat]
        /\ frozen \in [Schedules -> SUBSET [due : Int, date : Dates \cup {None}]]
    BY DEF Init
  <2>5. crashes \in 0..MaxCrashes /\ zoneChanges \in 0..MaxZoneChanges
    BY WakesAssumption DEF Init
  <2>6. QED
    BY <1>1, <1>2, <2>1, <2>3, <2>4, <2>5 DEF Init, TypeOK, Phases
<1>4. \A s \in Schedules : rows[s] = NoRow
  BY DEF Init
<1>5. Control /\ Snapshot /\ Look /\ Calendar /\ Occurrence /\ Verdict
  BY DEF Init, Control, Delivering, Snapshot, Look, Calendar, Occurrence, Verdict
<1>6. Clocks /\ Table /\ Dating
  BY <1>1, <1>2, <1>4 DEF Init, Clocks, Table, Dating, None
<1>7. Taken
  BY <1>2, <1>4 DEF Init, Taken, Kept
<1>8. Departures
  BY DEF Init, Departures
<1>9. RowVerdicts
  BY <1>2, <1>4 DEF RowVerdicts, Truth
<1>10. CliVerdicts
  <2>1. ASSUME NEW c \in 1..Clis
        PROVE  cli[c].state = "absent" /\ delivery[<<Cli, c>>] = "none" /\ c \notin page
    BY <2>1, CliWake DEF Init
  <2>2. QED
    BY <2>1 DEF CliVerdicts, CliTruth
<1>11. QED
  BY <1>3, <1>5, <1>6, <1>7, <1>8, <1>9, <1>10 DEF Inv

(* and every step keeps it.                                                *)
LEMMA InvNext ==
  ASSUME Inv, [Next]_vars
  PROVE  Inv'
<1>1. /\ TypeOK /\ Control /\ Clocks /\ Table /\ Dating /\ Taken /\ Snapshot /\ Look /\ Calendar
      /\ Occurrence /\ Verdict /\ Departures /\ RowVerdicts /\ CliVerdicts
  BY DEF Inv
<1>2. TypeOK'
  BY <1>1, TypeOKNext
<1>3. Control' /\ Clocks' /\ Table' /\ Dating' /\ Taken'
  BY <1>1, <1>2, ControlNext, ClocksNext, TableNext, TakenNext
<1>4. Snapshot' /\ Look' /\ Calendar' /\ Occurrence' /\ Verdict'
  BY <1>1, SnapshotNext, LookNext, CalendarNext, OccurrenceNext, VerdictNext
<1>5. Departures' /\ RowVerdicts' /\ CliVerdicts'
  BY <1>1, <1>2, DeparturesNext, RowVerdictsNext, CliVerdictsNext
<1>6. QED
  BY <1>2, <1>3, <1>4, <1>5 DEF Inv

(* Every reachable state satisfies the inductive invariant.                *)
THEOREM Invariance == Spec => []Inv
<1>1. Init => Inv
  BY InvInit
<1>2. Inv /\ [Next]_vars => Inv'
  BY InvNext
<1>3. QED
  BY <1>1, <1>2, PTL DEF Spec

(* The state of the schedules, of the one-shot wakes and of the tick is    *)
(* well typed.                                                             *)
THEOREM TypeCorrect == Spec => []TypeOK
<1>1. Inv => TypeOK
  BY DEF Inv
<1>2. QED
  BY <1>1, Invariance, PTL

(* A wake leaves at most once and what the daemon says of it is true:      *)
(* confirmed and accepted wakes left, missed, rejected and abandoned ones  *)
(* never did, through any number of ticks, stops of the daemon and changes *)
(* of the zone.                                                            *)
THEOREM VerdictTrue == Spec => []VerdictIsTrue
<1>1. Inv => VerdictIsTrue
  <2> SUFFICES ASSUME Inv PROVE VerdictIsTrue
    OBVIOUS
  <2>1. TypeOK /\ Clocks /\ Table /\ Departures /\ RowVerdicts /\ CliVerdicts
    BY DEF Inv
  <2>2. \A w \in Wakes : left[w] <= 1
    BY <2>1 DEF Departures
  <2>3. \A w \in Wakes : left[w] \in Nat
    BY <2>1 DEF TypeOK
  <2>4. ASSUME NEW s \in Schedules
        PROVE  LET r == rows[s]  w == Key(s, r) IN
                 /\ r.phase = "confirmed" => left[w] = 1 /\ delivery[w] = "acked"
                 /\ r.phase = "committed_thread" => left[w] = 1
                 /\ r.phase \in {"missed_before_departure", "owner_unavailable"} =>
                      left[w] = 0 /\ delivery[w] = "none"
                 /\ r.phase \in {"dispatching_agent", "outcome_unknown"} => delivery[w] # "none"
    <3> DEFINE w == Key(s, rows[s])
    <3>1. Truth(rows[s].phase, w)
      BY <2>1 DEF RowVerdicts
    <3>2. CASE rows[s].phase = "none"
      BY <3>2
    <3>3. CASE rows[s].phase # "none"
      <4>1. w \in Wakes
        BY <2>1, <3>3, KeyTyped DEF Table
      <4> HIDE DEF w
      <4>2. /\ delivery[w] = "acked" => left[w] = 1
            /\ w \in posted => left[w] = 1
            /\ w \notin posted /\ delivery[w] = "none" => left[w] = 0
        BY <2>1, <4>1 DEF Departures
      <4>3. QED
        BY <3>1, <4>2 DEF Truth, w
    <3>4. QED
      BY <3>2, <3>3
  <2>5. ASSUME NEW c \in 1..Clis
        PROVE  LET w == <<Cli, c>> IN
                 /\ cli[c].state = "accepted" => left[w] = 1
                 /\ cli[c].state = "rejected" => left[w] = 0 /\ delivery[w] = "none"
                 /\ cli[c].state = "orphaned" => delivery[w] \in {"dispatching", "unknown"}
    <3> DEFINE w == <<Cli, c>>
    <3>1. w \in Wakes
      BY CliWake
    <3>2. /\ cli[c].state = "accepted" => w \in posted \/ delivery[w] = "acked"
          /\ cli[c].state = "rejected" => delivery[w] = "none" /\ w \notin posted
          /\ cli[c].state = "orphaned" => delivery[w] \in {"dispatching", "unknown"}
      BY <2>1 DEF CliVerdicts, CliTruth
    <3> HIDE DEF w
    <3>3. /\ delivery[w] = "acked" => left[w] = 1
          /\ w \in posted => left[w] = 1
          /\ w \notin posted /\ delivery[w] = "none" => left[w] = 0
      BY <2>1, <3>1 DEF Departures
    <3>4. QED
      BY <3>2, <3>3 DEF w
  <2>6. QED
    BY <2>2, <2>4, <2>5 DEF VerdictIsTrue
<1>2. QED
  BY <1>1, Invariance, PTL

(* The steps that open an occurrence freeze one.                           *)
LEMMA Opened ==
  ASSUME Inv, [Next]_vars, NEW s \in Schedules, Pending(rows'[s]), ~Pending(rows[s])
  PROVE  /\ \A o \in frozen[s] : o.due < rows'[s].due
         /\ s \in AtSchedules => rows'[s].pdate # rows[s].pdate
         /\ Near => \A o \in frozen[s] : o.date # None => o.date # rows'[s].pdate
<1>1. /\ TypeOK /\ Control /\ Clocks /\ Table /\ Dating /\ Taken /\ Snapshot /\ Look /\ Calendar
      /\ Occurrence /\ Verdict /\ Departures
  BY DEF Inv
<1>2. CASE UNCHANGED <<rows, frozen>>
  BY <1>2
<1>3. ASSUME NEW n \in Schedules, RequestSchedule(n) PROVE FALSE
  <2>1. [NoRow EXCEPT !.status = "removed"].phase = "none"
    BY DEF NoRow
  <2>2. rows'[s] = rows[s] \/ rows'[s].phase = "none"
    BY <1>1, <1>3, <2>1, CreateEffect
  <2>3. QED
    BY <2>2 DEF Pending, Unsettled
<1>4. ASSUME NEW n \in Schedules, RequestCancel(n) PROVE FALSE
  BY <1>1, <1>4, CancelEffect DEF Pending
<1>5. ASSUME Ends PROVE FALSE
  <2> DEFINE n == wake[1]
  <2>1. /\ \A o \in Schedules : o # n => rows'[o] = rows[o]
        /\ rows'[n].phase = rows[n].phase \/ Pending(rows[n])
    BY <1>1, <1>5, EndEffect DEF Ends
  <2> HIDE DEF n
  <2>2. QED
    BY <2>1 DEF Pending
<1>6. ASSUME NEW dormant \in BOOLEAN, CommitFreezes(dormant)
      PROVE  /\ \A o \in frozen[s] : o.due < rows'[s].due
             /\ s \in AtSchedules => rows'[s].pdate # rows[s].pdate
             /\ Near => \A o \in frozen[s] : o.date # None => o.date # rows'[s].pdate
  <2> DEFINE n == wake[1]
  <2>1. /\ \A o \in Schedules : o # n => rows'[o] = rows[o]
        /\ rows'[n].due = look.cal.due /\ rows' \in [Schedules -> Rows]
        /\ \A o \in frozen[n] : o.due < look.cal.due
        /\ n \in AtSchedules => rows'[n].pdate # rows[n].pdate
        /\ Near => \A o \in frozen[n] :
                     o.date # None => rows'[n].pdate # None /\ o.date < rows'[n].pdate
    BY <1>1, <1>6, FreezeEffect
  <2> HIDE DEF n
  <2>2. s = n
    BY <2>1
  <2>3. /\ rows'[s].pdate \in Dates \cup {None}
        /\ \A o \in frozen[s] : o.date \in Dates \cup {None}
    <3>1. rows'[s] \in Rows /\ frozen[s] \subseteq [due : Int, date : Dates \cup {None}]
      BY <1>1, <2>1 DEF TypeOK
    <3>2. rows'[s].pdate \in Dates \cup {None}
      BY <3>1 DEF Rows
    <3>3. QED
      BY <3>1, <3>2
  <2>4. \A d \in Dates : d \in Int
    BY WakesAssumption DEF Dates
  <2>5. QED
    BY <2>1, <2>2, <2>3, <2>4
<1>7. QED
  BY <1>2, <1>3, <1>4, <1>5, <1>6, RowSteps

(* An occurrence that is frozen has a later due than every earlier one of  *)
(* its schedule and, for a calendar schedule, a civil date other than the  *)
(* one taken last, for any zones and however they follow each other        *)
(* (freeze_wake_occurrence, calculate_cadence).                            *)
THEOREM DueOnce == Spec => EachDueOnce
<1>1. Inv /\ [Next]_vars =>
        [\A s \in Schedules :
           Pending(rows'[s]) /\ ~Pending(rows[s]) =>
             /\ \A o \in frozen[s] : o.due < rows'[s].due
             /\ s \in AtSchedules => rows'[s].pdate # rows[s].pdate]_vars
  BY Opened
<1>2. QED
  BY <1>1, Invariance, PTL DEF Spec, EachDueOnce

(* What the documentation promises of civil dates holds where no two zones *)
(* are more than a day apart: calculate_cadence remembers only the date    *)
(* taken last, and that is then the latest.                                *)
THEOREM DateOnce == ASSUME Near PROVE Spec => OncePerDate
<1>1. Inv /\ [Next]_vars =>
        [\A s \in Schedules :
           Pending(rows'[s]) /\ ~Pending(rows[s]) =>
             \A o \in frozen[s] : o.date # None => o.date # rows'[s].pdate]_vars
  BY Opened
<1>2. QED
  BY <1>1, Invariance, PTL DEF Spec, OncePerDate

(* Nothing leaves for a schedule that is cancelled, whose owner is gone or *)
(* that has another occurrence, under a pause, or after the grace:         *)
(* deliver_frozen_wake and the callback of its write look at the state of  *)
(* the commit, not at the snapshot.                                        *)
THEOREM NoForbidden == Spec => NoForbiddenDeparture
<1>1. ASSUME Inv, [Next]_vars, NEW w \in Wakes,
             (delivery[w] = "none" /\ delivery'[w] # "none") \/ (w \notin posted /\ w \in posted')
      PROVE  /\ ~paused /\ now < GraceUntil(w)
             /\ Scheduled(w) => Kept(w[1]) /\ Current(w) /\ Pending(rows[w[1]]) /\ ownerLives
  <2>1. /\ TypeOK /\ Control /\ Clocks /\ Table /\ Dating /\ Taken /\ Snapshot /\ Look /\ Calendar
        /\ Occurrence /\ Verdict /\ Departures
    BY <1>1 DEF Inv
  <2>2. ASSUME Reports PROVE FALSE
    BY <1>1, <2>1, <2>2, ReportEffect
  <2>3. ASSUME NEW dormant \in BOOLEAN, CommitFreezes(dormant) PROVE FALSE
    BY <1>1, <2>1, <2>3, FreezeEffect
  <2>4. CASE PostCommits
    <3>1. /\ pc = "post" /\ now < GraceUntil(wake) /\ posted' = posted \cup {wake} /\ delivery' = delivery
      BY <2>4 DEF PostCommits
    <3>2. w = wake
      BY <1>1, <3>1
    <3>3. /\ ~paused
          /\ Scheduled(wake) => /\ ownerLives /\ rows[wake[1]].cancelled = None
                                /\ Kept(wake[1]) /\ rows[wake[1]].due = wake[2] /\ Pending(rows[wake[1]])
      BY <2>1, <3>1 DEF Verdict, Occurrence, Delivering
    <3>4. QED
      BY <3>1, <3>2, <3>3 DEF Current
  <2>5. CASE DepartCommits
    <3>1. /\ pc = "depart" /\ MayLeave(wake) /\ (Scheduled(wake) => ownerLives)
          /\ ~paused /\ now < GraceUntil(wake)
          /\ delivery' = [delivery EXCEPT ![wake] = "dispatching"] /\ posted' = posted
      BY <2>5 DEF DepartCommits
    <3>2. w = wake
      BY <1>1, <2>1, <3>1 DEF TypeOK
    <3>3. Scheduled(wake) => Pending(rows[wake[1]])
      BY <2>1, <3>1 DEF Occurrence, Delivering
    <3>4. QED
      BY <3>1, <3>2, <3>3 DEF MayLeave
  <2>6. CASE Writes \/ WriteMarked \/ \E arrived \in BOOLEAN : WriteFails(arrived)
    <3>1. CASE UNCHANGED <<delivery, posted>>
      BY <1>1, <3>1
    <3>2. CASE WriteMarked
      <4>1. /\ posted' = posted
            /\ delivery' = IF delivery[wake] = "dispatching" THEN [delivery EXCEPT ![wake] = "unknown"]
                           ELSE delivery
        BY <3>2 DEF WriteMarked
      <4>2. QED
        BY <1>1, <2>1, <4>1 DEF TypeOK
    <3>3. QED
      BY <2>6, <3>1, <3>2 DEF Writes, WriteFails
  <2>7. QED
    BY <1>1, <2>2, <2>3, <2>4, <2>5, <2>6, DepartureSteps DEF Departs
<1>2. Inv /\ [Next]_vars =>
        [\A w \in Wakes :
           (delivery[w] = "none" /\ delivery'[w] # "none") \/ (w \notin posted /\ w \in posted') =>
             /\ ~paused /\ now < GraceUntil(w)
             /\ Scheduled(w) => Kept(w[1]) /\ Current(w) /\ Pending(rows[w[1]]) /\ ownerLives]_vars
  BY <1>1
<1>3. QED
  BY <1>2, Invariance, PTL DEF Spec, NoForbiddenDeparture
=============================================================================
