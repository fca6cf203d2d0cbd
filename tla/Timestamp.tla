------------------------------ MODULE Timestamp ------------------------------
(***************************************************************************)
(* The arithmetic of time: src/timeconv.h, src/timestamp.h and its two     *)
(* implementations.  Seconds as doubles are whole numbers of nanoseconds   *)
(* here, of which there are NSec to a second; rounding is left out.        *)
(***************************************************************************)
EXTENDS Integers

CONSTANT NSec  \* 1e9 in the code

ASSUME TimestampAssumption == NSec \in Nat \ {0}

Timespec == [tv_sec : Int, tv_nsec : 0 .. NSec - 1]

\* clock_gettime() and timespec_get(), t nanoseconds after the clock's start.
TimespecAt(t) == [tv_sec |-> t \div NSec, tv_nsec |-> t % NSec]

\* The cast (time_t)secs: "our addSeconds logic ... relies on casting to time_t
\* being a truncation", towards zero.
TimeT(secs) == IF secs >= 0 THEN secs \div NSec ELSE -((-secs) \div NSec)

\* Mutant of AddSeconds: no carry into the seconds.
AddSecondsNoCarry(time, secs) ==
    LET ns == time.tv_nsec + secs - NSec * TimeT(secs)
    IN  [tv_sec |-> time.tv_sec + TimeT(secs) + (IF ns < 0 THEN -1 ELSE 0),
         tv_nsec |-> IF ns < 0 THEN ns + NSec ELSE ns]

AddSeconds(time, secs) ==
    LET ts == [tv_sec  |-> time.tv_sec + TimeT(secs),
               tv_nsec |-> time.tv_nsec + secs - NSec * TimeT(secs)]
        borrowed == IF ts.tv_nsec < 0
                    THEN [tv_sec |-> ts.tv_sec - 1, tv_nsec |-> ts.tv_nsec + NSec]
                    ELSE ts
    IN  IF borrowed.tv_nsec >= NSec
        THEN [tv_sec |-> borrowed.tv_sec + 1, tv_nsec |-> borrowed.tv_nsec - NSec]
        ELSE borrowed

Greater(a, b) == a.tv_sec > b.tv_sec \/ (a.tv_sec = b.tv_sec /\ a.tv_nsec > b.tv_nsec)
Less(a, b) == a.tv_sec < b.tv_sec \/ (a.tv_sec = b.tv_sec /\ a.tv_nsec < b.tv_nsec)
DiffSecs(a, b) == NSec * (a.tv_sec - b.tv_sec) + (a.tv_nsec - b.tv_nsec)
=============================================================================
