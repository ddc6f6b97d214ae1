-------------------------------- MODULE Rtc --------------------------------
(***************************************************************************)
(* The registers of src/rtc.c: thirteen nibbles in each of four banks, the *)
(* calendar behind bank 0, and what the loader accepts of a saved file.    *)
(* Operators on a register file; RtcStore is the clock that uses them.     *)
(***************************************************************************)
EXTENDS Integers

Blocks == 0..3
Regs == 0..12

Nibbles(s) == [r \in Regs |-> s[r + 1]]
register_masks == [b \in Blocks |->
    CASE b = 0 -> Nibbles(<<15, 7, 15, 7, 15, 3, 7, 15, 3, 15, 1, 15, 15>>)
      [] b = 1 -> Nibbles(<<0, 0, 15, 7, 15, 3, 7, 15, 3, 0, 1, 3, 0>>)
      [] OTHER -> [r \in Regs |-> 15]]

\* value & mask, for the masks above: all are one less than a power of two.
Masked(b, r, value) == value % (register_masks[b][r] + 1)

decode_pair(bank, low) == bank[low] + 10 * bank[low + 1]
encode_pair(bank, low, value) ==
    [bank EXCEPT ![low] = value % 10, ![low + 1] = value \div 10]

twenty_four_hour_mode(regs) == regs[1][10] % 2 = 1

decode_hour(regs) ==
    LET hour == decode_pair(regs[0], 4)
    IN  (IF ~twenty_four_hour_mode(regs) /\ hour >= 20 THEN hour - 8 ELSE hour) % 24

EncodedHour(regs, hour) ==
    IF ~twenty_four_hour_mode(regs) /\ hour >= 12 THEN hour + 8 ELSE hour

MonthDays == <<31, 28, 31, 30, 31, 30, 31, 31, 30, 31, 30, 31>>
\* Mutant: no leap day.
PlainMonth(month, leap) == MonthDays[IF month \in 1..12 THEN month ELSE 1]

days_in_month(month, leap) ==
    IF month = 2 /\ leap % 4 = 0 THEN 29
    ELSE MonthDays[IF month \in 1..12 THEN month ELSE 1]

set_time(regs, f) ==
    LET time == encode_pair(encode_pair(encode_pair(regs[0], 0, f.seconds),
                                        2, f.minutes),
                            4, EncodedHour(regs, f.hours))
        date == encode_pair(encode_pair(encode_pair(time, 7, f.day),
                                        9, f.month),
                            11, f.year)
    IN  [regs EXCEPT ![0] = [date EXCEPT ![6] = f.weekday % 7],
                     ![1][11] = f.leap % 4]

\* The first day of the next month.
NextMonth(f) ==
    LET december == f.month = 12
    IN  [f EXCEPT !.day = 1, !.month = IF december THEN 1 ELSE @ + 1,
                  !.year = IF december THEN (@ + 1) % 100 ELSE @,
                  !.leap = IF december THEN (@ + 1) % 4 ELSE @]

\* Days added to a date: one month after the other, until the rest fits.
\* "remaining" is unsigned: a day beyond the end of its month leaves more days
\* than any addition uses up.
Turned(now) ==
    LET length == days_in_month(now.date.month, now.date.leap)
    IN  IF now.date.day > length \/ now.date.day + now.days <= length THEN now
        ELSE [date |-> NextMonth(now.date),
              days |-> now.days - (length - now.date.day) - 1]
AddDays(f, days) ==
    LET turned[n \in 0 .. days] == IF n = 0 THEN [date |-> f, days |-> days]
                                   ELSE Turned(turned[n - 1])
        last == turned[days]
    IN  [last.date EXCEPT !.day = @ + last.days]

\* The fields as advance_time reads them.
Decoded(regs) ==
    LET bank == regs[0]
        day == decode_pair(bank, 7)
        month == decode_pair(bank, 9)
    IN  [seconds |-> decode_pair(bank, 0), minutes |-> decode_pair(bank, 2),
         hours |-> decode_hour(regs), weekday |-> bank[6] % 7,
         day |-> IF day < 1 THEN 1 ELSE day,
         month |-> IF month \in 1..12 THEN month ELSE 1,
         year |-> decode_pair(bank, 11), leap |-> regs[1][11] % 4]

advance_time(regs, seconds, minutes, days, years) ==
    LET f == Decoded(regs)
        s == f.seconds + seconds
        m == f.minutes + minutes + s \div 60
        h == f.hours + m \div 60
        d == days + h \div 24
        dated == AddDays([f EXCEPT !.seconds = s % 60, !.minutes = m % 60,
                                   !.hours = h % 24,
                                   !.weekday = (@ + d) % 7], d)
    IN  set_time(regs, IF years = 0 THEN dated
                       ELSE [dated EXCEPT !.year = (@ + years) % 100,
                                          !.leap = (@ + years) % 4])

\* What the loader accepts: valid_persisted_registers.
ValidPair(bank, low, maximum) ==
    bank[low] <= 9 /\ bank[low + 1] <= 9 /\ decode_pair(bank, low) <= maximum

valid_persisted_registers(regs) ==
    LET bank == regs[0]
        hour == decode_pair(bank, 4)
    IN  /\ \A b \in Blocks, r \in Regs : Masked(b, r, regs[b][r]) = regs[b][r]
        /\ ValidPair(bank, 0, 59) /\ ValidPair(bank, 2, 59)
        /\ bank[4] <= 9 /\ bank[6] < 7
        /\ ValidPair(bank, 7, 31) /\ ValidPair(bank, 9, 12)
        /\ ValidPair(bank, 11, 99)
        /\ decode_pair(bank, 7) >= 1 /\ decode_pair(bank, 9) >= 1
        /\ decode_pair(bank, 7) <= days_in_month(decode_pair(bank, 9), regs[1][11])
        /\ IF twenty_four_hour_mode(regs) THEN hour < 24
           ELSE hour < 12 \/ hour \in 20..31

---------------------------------------------------------------------------
(* The reference calendar: days and seconds since 1 January 1980, which    *)
(* was a Tuesday, on a century of 36525 days.                              *)

YearStart(y) == 365 * y + (y + 3) \div 4
MonthStart(month, year) ==
    LET before == <<0, 31, 59, 90, 120, 151, 181, 212, 243, 273, 304, 334>>
    IN  before[month] + IF month > 2 /\ year % 4 = 0 THEN 1 ELSE 0

DateOf(days) ==
    LET year == CHOOSE y \in 0..99 : YearStart(y) <= days /\ days < YearStart(y + 1)
        inYear == days - YearStart(year)
        month == CHOOSE m \in 1..12 :
                     /\ MonthStart(m, year) <= inYear
                     /\ m = 12 \/ inYear < MonthStart(m + 1, year)
    IN  [year |-> year, month |-> month, day |-> inYear - MonthStart(month, year) + 1]

\* The fields of a moment.
FieldsOf(moment) ==
    LET days == moment.days % 36525
        date == DateOf(days)
    IN  [seconds |-> moment.seconds % 60,
         minutes |-> (moment.seconds \div 60) % 60,
         hours |-> moment.seconds \div 3600,
         weekday |-> (moment.days + 2) % 7, day |-> date.day, month |-> date.month,
         year |-> date.year, leap |-> date.year % 4]

Later(moment, seconds) ==
    [days |-> moment.days + (moment.seconds + seconds) \div 86400,
     seconds |-> (moment.seconds + seconds) % 86400]
=============================================================================
